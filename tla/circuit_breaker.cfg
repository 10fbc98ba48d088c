SPECIFICATION FairBreakerSpec
CONSTANTS
    FailureThreshold = 5
    HalfOpenSuccessThreshold = 3
    MaxRequests = 6
INVARIANTS
    SnapshotConsistent
PROPERTIES
    OpenEnds
    Closing
