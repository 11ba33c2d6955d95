\* A clear that is interrupted while no worker is active, and the runs after it.
CONSTANTS
    w1 = w1
    w2 = w2
    w3 = w3
    k1 = k1
    k2 = k2
    Keys = {k1}
    NoTool = {}
    Workers = {w1, w2, w3}
    Casts <- TwoWorkers
    MaxHooks = 2
    MayDie = {w1}
    Clears <- TwoWorkers
    None = None
SPECIFICATION FairSpec
INVARIANT NextRunRebuilds
CHECK_DEADLOCK FALSE
