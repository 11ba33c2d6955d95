\* A pool of one thread: a machine with one CPU, or RAYON_NUM_THREADS=1.
CONSTANTS
    N = 2
    HookIds = {1, 2}
    PoolThreads = 1
    MinEdges = 0
    Caps = {0, 1}
    Jobs <- UniqueIdJobs
SPECIFICATION FairSpec
PROPERTY EligibleHooksStart
CHECK_DEADLOCK FALSE
