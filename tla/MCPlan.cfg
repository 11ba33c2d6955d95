\* All graphs on three hooks, missing dependencies, duplicate ids, and every condition.
CONSTANTS
    Ids = {"a", "b", "c", "x"}
    Requests <- AllRequests
    Contexts <- AllContexts
    None = None
SPECIFICATION FairSpec
INVARIANTS
    TypeOK
    DependenciesAscend
    EveryRunningHookPlanned
    LevelsAsEarlyAsPossible
    CyclesReported
    NeverRunsOnNothing
PROPERTY PlanningEnds
