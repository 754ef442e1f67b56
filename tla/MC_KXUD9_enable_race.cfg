CONSTANTS
    Procs = {p1, p2}
    Ops <- MC_SysfsOps
    UserDuringProbe = FALSE
    MaxFiles = 2
    Rates = {r1, r2}
    InitRate = r1
    GRange <- MC_GRange
    I2CFails = FALSE
SPECIFICATION Spec
INVARIANTS EnabledMatchesDevice
SYMMETRY MC_Symmetry
CHECK_DEADLOCK FALSE
