CONSTANTS
    VRAM0 = VRAM0
    VRAM1 = VRAM1
    UNSET = UNSET
    Percents <- MC_Percents
    NULL = NULL
    CmdLines <- MC_CmdLines
SPECIFICATION Spec
INVARIANTS TypeOK ConsistentScanout PixelClockNotAboveTiming WindowMatchesScreen
PROPERTIES FlushTakesEffect
CHECK_DEADLOCK FALSE
