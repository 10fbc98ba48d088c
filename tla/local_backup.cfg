SPECIFICATION Spec
CONSTANTS
    Versions = {"empty", "v"}
    Settings = {"s", "t"}
    Retention = 3
    MaxBackups = 5
PROPERTIES
    OneRemains
    ReplacedIsKept
    RecentIsDelivered
