SPECIFICATION FairSpec
CONSTANTS
    Steps <- MCSteps
    Order <- MCOrder
    Deps <- MCDepsWide
    RunsOn <- MCRunsOn
    ContinueOnError <- MCContinue
    MaxParallelism = 2
INVARIANTS
    TypeOK
    Ledger
    SettledIsQuiet
PROPERTIES
    InvokedOnceInOrder
    Promised
    Returns
    CancelReached
