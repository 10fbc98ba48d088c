SPECIFICATION FairSpec
CONSTANTS
    Steps <- MCSteps
    Order <- MCOrder
    Deps <- MCDeps
    RunsOn <- MCRunsOn
    ContinueOnError <- MCContinue
    BatchLimit = 2
    MaxRecoveries = 2
INVARIANTS
    Ledger
    CompletedIsDrained
PROPERTIES
    NoRepeat
    StatusAgrees
    Promised
    Returns
    RequestsSettle
