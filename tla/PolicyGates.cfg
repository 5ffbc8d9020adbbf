\* Every config around a valid one, every call.
CONSTANTS
    Configs <- SomeConfigs
    Keys <- SomeKeys
    TTLs <- SomeTTLs
    TicksPerSecond = 2
    CapSeconds = 3
    DefaultRetry <- SafeRetry
    Environments <- SomeEnvironments
    Metadata <- SomeMetadata
    MaxKeyLength = 6
    MaxMetadataKeys = 2
    MaxMetadataValueLen = 2
    Unset <- NoConfig
    DefaultTimeout = 5
    DefaultMaxParts = 100
    DefaultThreshold = 5
    DefaultCooldown = 30
    DefaultWait = 10
    DefaultMaxWait = 50
CHECK_DEADLOCK FALSE
SPECIFICATION Spec
INVARIANTS URLsWithinPolicy WritesWithinPolicy KeysNameOnePath BuiltStoreUsable
PROPERTY EnvConfigStands
