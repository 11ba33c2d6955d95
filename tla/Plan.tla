-------------------------------- MODULE Plan --------------------------------
(***************************************************************************)
(* The planner of a run (runner/plan.py, build_plan): which hooks a run    *)
(* selects, which of them their conditions skip, and the levels Kahn's     *)
(* algorithm sorts the others into; and the graph the engine makes of the  *)
(* plan for run_graph (runner/engine.py, run_plan).                        *)
(*                                                                         *)
(* Hooks are kept by position, for nothing stops two definitions from      *)
(* carrying the same id; build_plan's dictionaries then keep the last.  A  *)
(* glob is the set of names it matches, and None is Python's None.         *)
(***************************************************************************)
EXTENDS Config, EngineContract

CONSTANTS
    Ids,       \* hook ids
    Requests,  \* the configs, each with the group asked for
    Contexts,  \* the environment variables set, the branch, the changed files
    None

(***************************************************************************)
(* A hook is a record of id, dependsOn (ids), passFiles, files and exclude *)
(* (globs) and when (a record of all conditions; None, FALSE or "any"      *)
(* where a condition is not set).  A request's groups map the names the    *)
(* config defines to lists of ids; its group is the name asked for or None.*)
(***************************************************************************)
NoConditions ==
    [requiresNetwork |-> FALSE, env |-> None, envNot |-> None, onCi |-> "any", branch |-> None,
     branchNot |-> None, branchMatches |-> None, filesMatch |-> None]

ASSUME RequestsAssumption ==
    \A r \in Requests :
        /\ r.hooks \in Seq(ToSet(r.hooks))
        /\ \A p \in DOMAIN r.hooks : r.hooks[p].id \in Ids /\ r.hooks[p].dependsOn \subseteq Ids
        /\ \A g \in DOMAIN r.groups : r.groups[g] \in Seq(ToSet(r.groups[g]))

VARIABLES
    request,   \* the config's hooks and the group asked for
    context,   \* the context of the run
    stage,     \* the loop build_plan is in, or how it ended
    selected,  \* the hooks the run selects, in order
    verdicts,  \* for each selected hook looked at so far, "run" or why it is skipped
    levels     \* the levels sorted so far, each a set of positions in selected
vars == <<request, context, stage, selected, verdicts, levels>>

Ended == {"planned", "unknown group", "unknown hook", "unknown dependency", "cycle"}

-----------------------------------------------------------------------------
(* Selection. *)

Init ==
    /\ request \in Requests
    /\ context \in Contexts
    /\ stage = "select"
    /\ selected = <<>>
    /\ verdicts = <<>>
    /\ levels = <<>>

\* _select: every hook of the config, or those the group lists.
Select ==
    /\ stage = "select"
    /\ IF request.group = None
       THEN selected' = request.hooks /\ stage' = "filter"
       ELSE IF request.group \notin DOMAIN request.groups
       THEN stage' = "unknown group" /\ UNCHANGED selected
       ELSE IF ToSet(request.groups[request.group]) \subseteq IdsOf(request.hooks)
       THEN /\ LET ids == FirstMentions(request.groups[request.group]) IN
               selected' = [p \in DOMAIN ids |-> Definition(request.hooks, ids[p])]
            /\ stage' = "filter"
       ELSE stage' = "unknown hook" /\ UNCHANGED selected
    /\ UNCHANGED <<request, context, verdicts, levels>>

-----------------------------------------------------------------------------
(* Conditions. *)

IsSet(var) == var \in context.env
OnCi == IsSet("CI") \/ IsSet("GITHUB_ACTIONS")
Offline == IsSet("GATECHECK_OFFLINE")

\* route_files: the changed files a hook receives.
RoutedFiles(h) == FilesForHook(h, context.changed, None)

\* The branch conditions, looked at whenever the branch is known, "" included.
BranchForbids(when) ==
    /\ context.branch # None
    /\ \/ when.branch # None /\ context.branch # when.branch
       \/ when.branchNot # None /\ context.branch \in when.branchNot
       \/ when.branchMatches # None /\ context.branch \notin when.branchMatches

FilesForbid(when) ==
    /\ when.filesMatch # None
    /\ context.changed # None
    /\ context.changed \cap when.filesMatch = {}

\* Faulty: a hook without a files glob is never short of files.
NothingRoutedByGlob(h) ==
    context.changed # None /\ h.passFiles /\ h.files # None /\ RoutedFiles(h) = {}
NothingRouted(h) == context.changed # None /\ h.passFiles /\ RoutedFiles(h) = {}

\* _skip_reason, then _no_matching_files_reason: what could skip a hook, in that order.
Hurdles(h) ==
    << <<"offline", h.when.requiresNetwork /\ Offline>>,
       <<"env", h.when.env # None /\ ~IsSet(h.when.env)>>,
       <<"env-not", h.when.envNot # None /\ IsSet(h.when.envNot)>>,
       <<"on-ci", (h.when.onCi = "only" /\ ~OnCi) \/ (h.when.onCi = "never" /\ OnCi)>>,
       <<"branch", BranchForbids(h.when)>>,
       <<"files-match", FilesForbid(h.when)>>,
       <<"no files", NothingRouted(h)>> >>

\* The first hurdle a hook fails is the reported reason.
Verdict(h) ==
    LET first == SelectInSeq(Hurdles(h), LAMBDA hurdle : hurdle[2])
    IN  IF first = 0 THEN "run" ELSE Hurdles(h)[first][1]

\* One turn of build_plan's loop over the selected hooks.
Filter ==
    /\ stage = "filter"
    /\ IF Len(verdicts) < Len(selected)
       THEN /\ verdicts' = Append(verdicts, Verdict(selected[Len(verdicts) + 1]))
            /\ UNCHANGED stage
       ELSE stage' = "check" /\ UNCHANGED verdicts
    /\ UNCHANGED <<request, context, selected, levels>>

Running == {p \in DOMAIN verdicts : verdicts[p] = "run"}
RunningIds == {selected[p].id : p \in Running}

\* _check_dependencies_exist: of the hooks that run, not of those that are skipped.
CheckDependencies ==
    /\ stage = "check"
    /\ stage' = IF \A p \in Running : selected[p].dependsOn \subseteq IdsOf(request.hooks)
                THEN "sort" ELSE "unknown dependency"
    /\ UNCHANGED <<request, context, selected, verdicts, levels>>

-----------------------------------------------------------------------------
(* Kahn's algorithm. *)

\* The last running definition of an id, and its edges to running hooks only.
RunningDefinition(id) == selected[Max({p \in Running : selected[p].id = id})]

\* Faulty: an edge of a hook to itself is not one.
DepsButItself(id) == (RunningDefinition(id).dependsOn \cap RunningIds) \ {id}
Deps(id) == RunningDefinition(id).dependsOn \cap RunningIds

Done == {selected[p].id : p \in UNION Range(levels)}
Remaining == RunningIds \ Done

IsReady(id) == id \in Remaining /\ Deps(id) \subseteq Done

\* Faulty: one dependency done is enough; only one ready id is taken; skipped hooks return.
ReadyEarly == {p \in Running : LET id == selected[p].id IN
                  id \in Remaining /\ (Deps(id) = {} \/ Deps(id) \cap Done # {})}
ReadySerially ==
    LET ids == {id \in Remaining : IsReady(id)}
    IN  {p \in Running : IsReady(selected[p].id) /\ selected[p].id = CHOOSE id \in ids : TRUE}
ReadyAmongSelected == {p \in DOMAIN selected : IsReady(selected[p].id)}
Ready == {p \in Running : IsReady(selected[p].id)}

\* Faulty: with nothing ready the loop goes on.
SortNoticingNothing ==
    /\ stage = "sort"
    /\ IF Remaining = {} THEN stage' = "planned" /\ UNCHANGED levels
       ELSE /\ levels' = IF Ready = {} THEN levels ELSE Append(levels, Ready)
            /\ UNCHANGED stage
    /\ UNCHANGED <<request, context, selected, verdicts>>

\* Faulty: the last hook is left behind.
SortAllButOne ==
    /\ stage = "sort"
    /\ IF Cardinality(Remaining) <= 1 THEN stage' = "planned" /\ UNCHANGED levels
       ELSE IF Ready = {} THEN stage' = "cycle" /\ UNCHANGED levels
       ELSE levels' = Append(levels, Ready) /\ UNCHANGED stage
    /\ UNCHANGED <<request, context, selected, verdicts>>

\* One turn of _topological_levels: the next level, or an error when nothing is ready.
Sort ==
    /\ stage = "sort"
    /\ IF Remaining = {} THEN stage' = "planned" /\ UNCHANGED levels
       ELSE IF Ready = {} THEN stage' = "cycle" /\ UNCHANGED levels
       ELSE levels' = Append(levels, Ready) /\ UNCHANGED stage
    /\ UNCHANGED <<request, context, selected, verdicts>>

Terminated == stage \in Ended /\ UNCHANGED vars

Next == Select \/ Filter \/ CheckDependencies \/ Sort \/ Terminated

Spec == Init /\ [][Next]_vars
FairSpec == Spec /\ WF_vars(Next)

-----------------------------------------------------------------------------
(* What run_plan hands to run_graph. *)

\* A place is a level and a position in it; the places come level by level, each in
\* declaration order.
Places == UNION {{l} \X levels[l] : l \in DOMAIN levels}
PlaceOrder ==
    {pair \in Places \X Places :
        \/ pair[1][1] < pair[2][1]
        \/ pair[1][1] = pair[2][1] /\ pair[1][2] < pair[2][2]}

\* The running hooks, one level after the other.
Nodes ==
    LET inOrder == InOrder(Places, PlaceOrder)
    IN  [i \in 1..Cardinality(Places) |-> inOrder[i][2]]

\* index_of: the last node that carries an id.
IndexOf(id) == SelectLastInSeq(Nodes, LAMBDA p : selected[p].id = id)

\* The indexes of the nodes a node depends on; a hook that does not run imposes no order.
DepIndexes(i) ==
    {IndexOf(id) : id \in RunningDefinition(selected[Nodes[i]].id).dependsOn \cap RunningIds}

-----------------------------------------------------------------------------
(* Properties. *)

TypeOK ==
    /\ request \in Requests
    /\ context \in Contexts
    /\ stage \in {"select", "filter", "check", "sort"} \cup Ended
    /\ Len(verdicts) <= Len(selected)
    /\ IdsOf(selected) \subseteq IdsOf(request.hooks)
    /\ UNION Range(levels) \subseteq Running

(***************************************************************************)
(* The graph handed to run_graph is one it can work off: each dependency   *)
(* has a smaller index, which is what RunGraph assumes of its arguments.   *)
(***************************************************************************)
DependenciesAscend ==
    stage = "planned" => Workable(Len(Nodes), [i \in DOMAIN Nodes |-> DepIndexes(i)])

\* Every selected hook that no condition skips is a node of the graph, exactly once.
EveryRunningHookPlanned ==
    stage = "planned" =>
        /\ Len(verdicts) = Len(selected)
        /\ ToSet(Nodes) = Running
        /\ Len(Nodes) = Cardinality(Running)

\* Levels are as wide as they can be: a hook is in the level after its last dependency's.
LevelsAsEarlyAsPossible ==
    \A l \in DOMAIN levels : \A p \in levels[l] :
        l > 1 => \E q \in levels[l - 1] : selected[q].id \in Deps(selected[p].id)

\* build_plan reports a cycle exactly when the running hooks have one.
HasCycle ==
    \E S \in (SUBSET RunningIds) \ {{}} :
        \A id \in S : RunningDefinition(id).dependsOn \cap S # {}
CyclesReported ==
    /\ stage = "cycle" => HasCycle
    /\ stage = "planned" => ~HasCycle

(***************************************************************************)
(* A planned hook that takes files is given at least one whenever the      *)
(* changeset is known: with none, most tools would fall back to the whole  *)
(* project.                                                                *)
(***************************************************************************)
NeverRunsOnNothing ==
    stage = "planned" /\ context.changed # None =>
        \A id \in RunningIds :
            LET h == RunningDefinition(id) IN h.passFiles => RoutedFiles(h) # {}

\* Planning ends, on every config, cyclic ones included.
PlanningEnds == <>(stage \in Ended)

(***************************************************************************)
(* What docs/config/conditions.md says of a detached HEAD: the branch is   *)
(* empty, the branch conditions do not apply and the hook runs.            *)
(***************************************************************************)
DetachedHeadRuns == context.branch = "" => \A p \in DOMAIN verdicts : verdicts[p] # "branch"
=============================================================================
