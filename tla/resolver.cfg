SPECIFICATION Spec
CONSTANTS
    Candidates <- MCCandidates
    AnyVersion = AnyVersion
    Catalogs <- MCCatalogs
    Requests <- MCRequests
CHECK_DEADLOCK FALSE
INVARIANTS
    CyclesReported
    OrderRespected
    Complete
