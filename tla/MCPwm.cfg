SPECIFICATION Spec
CONSTANTS
    NumChannels = 3
    NumTimers = 2
    TimerBits = 3
    SourceClk = 16
    LedcFails = TRUE
    p1 = p1
    p2 = p2
    p3 = p3
    Pins <- MCPins
    Freqs <- MCFreqs
SYMMETRY PinSymmetry
INVARIANTS
    TypeOK
    TimersCounted
    OutputsKeepFrequency
