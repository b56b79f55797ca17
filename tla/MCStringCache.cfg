SPECIFICATION Spec
CONSTANTS
    s0 = s0
    s1 = s1
    s2 = s2
    s3 = s3
    t1 = t1
    t2 = t2
    t3 = t3
    c1 = c1
    c2 = c2
    pin = pin
    en = en
    xx = xx
    Sections <- MCSections
    Section0 = s0
    Threads <- MCThreads
    CacheSlots <- MCCache
    PinSlot = pin
    Locales <- MCLocales
    Default = en
    ClockMod = 4
    FreeReload = FALSE
SYMMETRY StringSymmetry
INVARIANTS
    HoldsCounted
    OneLanguage
PROPERTY HeldStaysPut
