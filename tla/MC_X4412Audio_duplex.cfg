CONSTANTS
    NULL = NULL
    DaiFails = TRUE
    Links <- MC_Duplex
    Formats <- MC_Formats
    Rates <- MC_Rates
SPECIFICATION Spec
INVARIANTS
    StreamClockHeld
