SPECIFICATION FairSpec
CONSTANTS
    Callers = {"caller"}
    Workers = {"w1", "w2"}
    NoWorker = "none"
    FailureThreshold = 2
    RecoveryThreshold = 2
    MaxFailbacks = 1
INVARIANTS
    OneTransitionEach
PROPERTIES
    ThresholdsEarned
    StopEnds
