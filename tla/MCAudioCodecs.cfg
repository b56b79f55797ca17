SPECIFICATION Spec
CONSTANTS
    b16 = b16
    b32 = b32
    low = low
    high = high
    bclk = bclk
    ws = ws
    Formats = {b16, b32}
    NauFormats = {b16}
    SphFormats = {b32}
    BusPins <- MCBusPins
    PdmPins <- MCPdmPins
    Addresses = {low, high}
    Present = {low}
    Default = low
    Routes = {"both", "headphone"}
    Volumes = {40, 60}
    Gains = {16}
    None = None
    Mixed = Mixed
    MaxFaults = 1
INVARIANTS
    WholeInBothSlots
    PartIsAsReported
    QuietWhenReleased
    PdmOffTheBus
