SPECIFICATION FairSpec
CONSTANTS
    Owners = {"a", "b", "c"}
    NoOwner = "nobody"
    ReconnectAttempts = 1
INVARIANTS
    Exclusive
PROPERTIES
    Promised
    
