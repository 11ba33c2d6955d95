\* Every kind of requirement, on an index that releases, yanks and fails.
CONSTANTS
    Versions <- SixVersions
    Aliases <- OneAlias
    Worlds <- RequirementWorlds
    None = None
SPECIFICATION Spec
INVARIANT PinAsDocumented
CHECK_DEADLOCK FALSE
