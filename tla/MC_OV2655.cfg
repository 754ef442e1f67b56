CONSTANTS
    NULL = NULL
    FmtRequests <- MC_FmtRequests
    ParmRequests <- MC_ParmRequests
    SensorAddr <- MC_SensorAddr
SPECIFICATION Spec
INVARIANTS TypeOK NoNullDereference
