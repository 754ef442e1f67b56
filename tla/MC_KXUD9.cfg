CONSTANTS
    Procs = {p1}
    Ops <- MC_NoResetOps
    UserDuringProbe = FALSE
    MaxFiles = 2
    Rates = {r1, r2}
    InitRate = r1
    GRange <- MC_GRange
    I2CFails = FALSE
SPECIFICATION Spec
INVARIANTS TypeOK ChipMatchesResume
PROPERTIES ReadsPoweredDevice EnabledDevicePolls
CHECK_DEADLOCK FALSE
