\* Three workers, two keys (the package behind k2 lacks the tool), nobody clears the cache;
\* or two workers on one key, and a clear that may run at any time or be interrupted.
CONSTANTS
    w1 = w1
    w2 = w2
    w3 = w3
    k1 = k1
    k2 = k2
    Keys = {k1, k2}
    NoTool = {k2}
    Workers = {w1, w2, w3}
    Casts <- AllCasts
    MaxHooks = 2
    MayDie = {w1}
    Clears <- TwoWorkers
    None = None
SPECIFICATION FairSpec
INVARIANTS
    TypeOK
    NoPartialSlot
    OwnReasonsOnly
    OfflineNeverBuilds
    NoOrphans
PROPERTIES
    NeverSwapped
    ImplementsStore
    WorkersEnd
    ClearLeavesNothing
    ClearEnds
CHECK_DEADLOCK FALSE
