\* Two hooks that carry one id: the engine runs the last definition twice.
CONSTANTS
    N = 2
    HookIds = {1, 2}
    PoolThreads = 3
    MinEdges = 0
    Caps = {0, 1}
    Jobs <- DuplicateIdJobs
SPECIFICATION FairSpec
INVARIANT GateHonest
