CONSTANTS
    VRAM0 = VRAM0
    VRAM1 = VRAM1
    UNSET = UNSET
    Percents <- MC_Percents
    NULL = NULL
    CmdLines <- MC_CmdLines
SPECIFICATION Spec
INVARIANT PanelsAgree
CHECK_DEADLOCK FALSE
