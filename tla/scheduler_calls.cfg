SPECIFICATION Spec
CONSTANTS
    Tasks <- MCTasks
    Workers = {"w"}
    Priority <- MCPriority
    NeedsApproval = {"job"}
    Restricted = {}
    StartsLater = {"job"}
    SuccessDeps = {}
    CompletionDeps <- MCNext
    MaximumRecoveries = 1
    MaximumConcurrent = 2
    MaximumExecutions = 2
    Capacity <- MCCapacity2
    MaximumAttempts = 1
    MaximumQueueDepth = 3
    Calls = {"cancel", "fail", "stale"}
    OperatorTargets = {"PENDING_APPROVAL", "READY"}
INVARIANTS
    FailedInDeadLetter
    
    CompletionFirst
