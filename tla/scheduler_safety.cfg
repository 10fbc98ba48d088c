SPECIFICATION Spec
CONSTANTS
    Tasks <- MCTasks
    Workers = {"w"}
    Priority <- MCPriority
    NeedsApproval = {"job"}
    Restricted = {}
    StartsLater = {"next"}
    SuccessDeps <- MCNext
    CompletionDeps = {}
    MaximumRecoveries = 1
    MaximumConcurrent = 2
    MaximumExecutions = 3
    Capacity <- MCCapacity2
    MaximumAttempts = 2
    MaximumQueueDepth = 3
    Calls = {}
    OperatorTargets = {"PENDING_APPROVAL", "READY", "ARCHIVED"}
INVARIANTS
    LoadMatches
    OneLiveExecution
    QueuedReachable
    SuccessFirst
