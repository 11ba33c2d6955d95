\* Two workers on one key, and a clear that may run at any time.
CONSTANTS
    w1 = w1
    w2 = w2
    w3 = w3
    k1 = k1
    k2 = k2
    Keys = {k1}
    NoTool = {}
    Workers = {w1, w2, w3}
    Casts <- TwoWorkers
    MaxHooks = 2
    MayDie = {w1}
    Clears <- TwoWorkers
    None = None
SPECIFICATION FairSpec
INVARIANT ClearTolerant
CHECK_DEADLOCK FALSE
