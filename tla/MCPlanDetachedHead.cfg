\* One hook under each condition, on a branch and on a detached HEAD.
CONSTANTS
    Ids = {"a"}
    Requests <- ConditionRequests
    Contexts <- AllContexts
    None = None
SPECIFICATION FairSpec
INVARIANT DetachedHeadRuns
