SPECIFICATION Spec
CONSTANTS
    Versions = {"empty", "v"}
    Settings = {"s", "t"}
    Retention = 2
    MaxBackups = 4
PROPERTIES
    RestoreDelivers
