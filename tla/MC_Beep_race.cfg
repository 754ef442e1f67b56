CONSTANTS
    Writers <- MC_Writers
    Values <- MC_Values
SPECIFICATION Spec
INVARIANT ReadMatchesPin
