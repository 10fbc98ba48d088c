SPECIFICATION Spec
CONSTANTS
    Second = 2
    Minute = 4
    PerSecond = 2
    PerMinute = 3
    TokensPerMinute = 4
    Tokens = {1, 2}
    MaxTime = 6
INVARIANTS
    WithinQuota
PROPERTIES
    AdmittedIsRecorded
