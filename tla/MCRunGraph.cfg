\* All graphs on four nodes with three edges or more, serial, capped and unbounded; two free pool threads.
CONSTANTS
    N = 4
    HookIds = {1, 2, 3, 4}
    PoolThreads = 3
    MinEdges = 3
    Caps = {0, 1, 2}
    Jobs <- UniqueIdJobs
SPECIFICATION FairSpec
INVARIANTS
    TypeOK
    DependenciesFirst
    WithinCap
    NoWaveBarrier
    DownstreamOfFailureNeverStarts
    ReturnsWithNothingLeft
    GateHonest
PROPERTIES
    RunEnds
    EligibleHooksStart
    ImplementsHookRun
