CONSTANTS
    Procs = {p1}
    Ops <- MC_FileResetOps
    UserDuringProbe = FALSE
    MaxFiles = 2
    Rates = {r1, r2}
    InitRate = r1
    GRange <- MC_GRange
    I2CFails = TRUE
SPECIFICATION Spec
INVARIANTS EnabledMatchesDevice NoWorkAfterFree
CHECK_DEADLOCK FALSE
