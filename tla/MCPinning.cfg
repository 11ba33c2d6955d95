\* Requirements, registries and sources of every kind, on indexes that move on.
CONSTANTS
    Versions <- SixVersions
    Aliases <- OneAlias
    Worlds <- AllWorlds
    None = None
SPECIFICATION Spec
INVARIANTS
    TypeOK
    PinIsBest
    EnvironmentFits
    SyncedRunsOffline
CHECK_DEADLOCK FALSE
