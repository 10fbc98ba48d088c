SPECIFICATION FairSpec
CONSTANTS
    Processes = {"p", "q"}
    Instances = {"i", "j"}
PROPERTIES
    Promised
    Purged
