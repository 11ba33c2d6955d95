----------------------------- MODULE RunCommand -----------------------------
(***************************************************************************)
(* One invocation of `gatecheck run` (cli/commands/run.py), from its       *)
(* options to its exit status: against a changeset, against a commit       *)
(* message, or package by package with --affected (workspace/affected.py,  *)
(* run_affected).  The planner is Plan, taken step by step; the packages   *)
(* are chosen by Workspace; of the engine it uses what RunGraph keeps of   *)
(* EngineContract.                                                         *)
(***************************************************************************)
EXTENDS Workspace, EngineContract

CONSTANTS
    Cases,   \* the command lines, each with the tree it meets
    Environ  \* the environment variables set when it starts

(***************************************************************************)
(* A case is a record of an invocation (cwd, explicit: the directory of    *)
(* --config's file or None, group or None, allFiles, base: a ref or None,  *)
(* affected, offline, commitMsg) and a tree, of which git says branch and  *)
(* the sets of paths staged, tracked and since (by ref), named from the    *)
(* top.  A group is a record of hooks (ids), parallel, failFast and        *)
(* maxWorkers.                                                             *)
(***************************************************************************)
Configs(t) == (Range(t.checkToml) \cup Range(t.pyproject)) \ {Broken}

ASSUME ConfigsAssumption ==
    \A k \in Cases : \A c \in Configs(k.tree) :
        /\ DOMAIN c = {"hooks", "groups", "sources", "workspace", "package"}
        /\ c.hooks \in Seq(ToSet(c.hooks))
        /\ \A g \in DOMAIN c.groups : /\ c.groups[g].hooks \in Seq(ToSet(c.groups[g].hooks))
                                     /\ c.groups[g].maxWorkers \in Nat \ {0}
        /\ c.package # None => c.package.dependsOn \in Seq(ToSet(c.package.dependsOn))

\* A path is a list, a glob finds a directory once, and --config names a file that exists.
ASSUME CasesAssumption ==
    \A k \in Cases :
        /\ k.invocation.cwd \in Seq(ToSet(k.invocation.cwd))
        /\ k.invocation.explicit # None =>
              k.invocation.explicit \in DOMAIN k.tree.checkToml \cup DOMAIN k.tree.pyproject
        /\ k.tree.top # None => k.tree.top \in Seq(ToSet(k.tree.top))
        /\ k.tree.dirs \in Seq(ToSet(k.tree.dirs)) /\ IsInjective(k.tree.dirs)
        /\ \A f \in k.tree.staged \cup k.tree.tracked \cup ToSet(k.tree.dirs)
                    \cup UNION Range(k.tree.since) : f \in Seq(ToSet(f))

VARIABLES
    invocation, \* the options
    environ,    \* the environment variables set
    branch,     \* the current branch, None until it was asked for
    turn,       \* with --affected, the place of the package in hand
    results,    \* what the hooks came to
    report,     \* the report printed, or None
    request, context, stage, selected, verdicts, levels  \* the planner's

planningVars == <<request, context, stage, selected, verdicts, levels>>
commandVars == <<invocation, environ, branch, turn, results, report>>
workspaceVars == <<tree, config, configDir, packages, changed, search, spread>>
vars == <<phase, workspaceVars, commandVars, planningVars>>

Planner == INSTANCE Plan WITH Ids <- {}, Requests <- {}, Contexts <- {}

Errors == {"usage error", "no config", "config error", "git error", "unknown package",
           "package cycle", "plan error", "raised"}
Phases == {"options", "load", "discover", "changeset", "dependencies", "cycles", "spread",
           "packages", "branch", "begin", "plan", "execute", "report", "reported"} \cup Errors

Statuses == {"passed", "failed", "error"}

-----------------------------------------------------------------------------
Init ==
    /\ \E k \in Cases : tree = k.tree /\ invocation = k.invocation
    /\ environ = Environ
    /\ phase = "options"
    /\ config = None /\ configDir = None
    /\ packages = <<>> /\ changed = None /\ branch = None
    /\ visiting = {} /\ done = {} /\ walk = <<>> /\ stack = <<>> /\ affected = {}
    /\ turn = 0
    /\ results = {} /\ report = None
    /\ request = None /\ context = None
    /\ stage = "idle" /\ selected = <<>> /\ verdicts = <<>> /\ levels = <<>>

\* run: the checks of its options, then resolve_config_path.
Options ==
    /\ phase = "options"
    /\ LET i == invocation
           dir == IF i.explicit # None THEN i.explicit ELSE Discovered(i.cwd)
       IN  IF \/ i.allFiles /\ i.base # None
              \/ i.commitMsg /\ (i.allFiles \/ i.base # None \/ i.affected)
           THEN phase' = "usage error" /\ UNCHANGED <<environ, configDir>>
           ELSE /\ environ' = IF i.offline THEN environ \cup {"GATECHECK_OFFLINE"} ELSE environ
                /\ configDir' = dir
                /\ phase' = IF dir = None THEN "no config" ELSE "load"
    /\ UNCHANGED <<tree, config, packages, changed, search, spread, planningVars,
                   invocation, branch, turn, results, report>>

\* load_config, which discover_workspace begins with as well.
Load ==
    /\ phase = "load"
    /\ config' \in IF invocation.explicit = None THEN {ConfigIn(configDir)} ELSE ConfigsIn(configDir)
    /\ phase' = IF config' = Broken THEN "config error"
                ELSE IF invocation.commitMsg THEN "begin"
                ELSE IF invocation.affected THEN "discover" ELSE "changeset"
    /\ UNCHANGED <<tree, configDir, packages, changed, search, spread, planningVars, commandVars>>

-----------------------------------------------------------------------------
(* What git says. *)

\* git ls-files: what is below the current directory, named from there.
TrackedFiles ==
    LET below == RelativeTo(invocation.cwd, tree.top)
    IN  {RelativeTo(f, below) : f \in {g \in tree.tracked : IsUnder(g, below)}}

\* resolve_changeset: --base, --all-files, or what is staged.
Changeset ==
    /\ phase = "changeset"
    /\ IF tree.top = None \/ (invocation.base # None /\ invocation.base \notin DOMAIN tree.since)
       THEN phase' = "git error" /\ UNCHANGED changed
       ELSE /\ changed' = IF invocation.base # None THEN tree.since[invocation.base]
                          ELSE IF invocation.allFiles THEN TrackedFiles
                          ELSE tree.staged
            /\ phase' = IF invocation.affected THEN "dependencies" ELSE "branch"
    /\ UNCHANGED <<tree, config, configDir, packages, search, spread, planningVars, commandVars>>

\* current_branch, a second command.
Branch ==
    /\ phase = "branch"
    /\ branch' = tree.branch
    /\ phase' = "begin"
    /\ UNCHANGED <<workspaceVars, planningVars, invocation, environ, turn, results, report>>

-----------------------------------------------------------------------------
(* Planning. *)

\* build_plan is called.
StartPlan(cfg, group, branchKnown, changedKnown) ==
    /\ request' = [hooks |-> cfg.hooks, group |-> group,
                   groups |-> [g \in DOMAIN cfg.groups |-> cfg.groups[g].hooks]]
    /\ context' = [env |-> environ, branch |-> branchKnown, changed |-> changedKnown]
    /\ stage' = "select"
    /\ selected' = <<>> /\ verdicts' = <<>> /\ levels' = <<>>
    /\ phase' = "plan"

\* run and _run_commit_msg: the latter knows neither branch nor changeset.
Begin ==
    /\ phase = "begin"
    /\ StartPlan(config, invocation.group, branch, changed)
    /\ UNCHANGED <<workspaceVars, commandVars>>

Package == AffectedPackages[turn]
Effective == EffectiveConfig(config, Package.config)

\* run_affected: the next package, planned without a group, a branch or a changeset.
NextPackage ==
    /\ phase = "packages"
    /\ IF turn < Len(AffectedPackages)
       THEN /\ turn' = turn + 1
            /\ StartPlan(EffectiveConfig(config, AffectedPackages[turn + 1].config),
                         None, None, None)
       ELSE phase' = "report" /\ UNCHANGED <<turn, planningVars>>
    /\ UNCHANGED <<workspaceVars, invocation, environ, branch, results, report>>

\* A step of build_plan.
Planning ==
    /\ phase = "plan" /\ stage \notin Planner!Ended
    /\ Planner!Select \/ Planner!Filter \/ Planner!CheckDependencies \/ Planner!Sort
    /\ UNCHANGED <<phase, workspaceVars, commandVars>>

Planned ==
    /\ phase = "plan" /\ stage \in Planner!Ended
    /\ phase' = IF stage = "planned" THEN "execute" ELSE "plan error"
    /\ UNCHANGED <<workspaceVars, commandVars, planningVars>>

-----------------------------------------------------------------------------
(* Running the plan. *)

GroupAsked ==
    IF invocation.affected \/ invocation.group = None THEN None ELSE config.groups[invocation.group]

FailFast == GroupAsked # None /\ GroupAsked.failFast

\* _max_workers: None is unbounded.
MaxWorkers ==
    IF GroupAsked = None THEN None
    ELSE IF GroupAsked.parallel THEN GroupAsked.maxWorkers ELSE 1

\* Faulty: the files of a package keep the names git gave them.
PackageFilesUnderTop == {f \in changed : IsUnder(f, PackageRel(Package))}

\* run_affected: the package's changed files, named from its directory.
PackageFiles ==
    {RelativeTo(f, PackageRel(Package)) : f \in {g \in changed : IsUnder(g, PackageRel(Package))}}

\* files_by_hook: in commit-message mode no hook is given files.
FilesOf(hook) ==
    IF invocation.commitMsg THEN {}
    ELSE FilesForHook(hook, IF invocation.affected THEN PackageFiles ELSE changed, None)

\* index_of and deps: hooks of one id are in one level, and the last of them stands for it.
IndexOf(id) == Max({p \in Planner!Running : selected[p].id = id})
DependsOn == [p \in Planner!Running |-> {IndexOf(id) : id \in Planner!Deps(selected[p].id)}]

\* What a run of the planned hooks may come to, by what RunGraph guarantees.
Runs ==
    {run \in UNION {[ran -> Statuses] : ran \in SUBSET Planner!Running} :
        MayReturn(Planner!Running, DependsOn, FailFast,
                  IF MaxWorkers = None THEN 0 ELSE MaxWorkers, run)}

\* What run_plan returns is by id: of the hooks of one id, the last to end has left its result.
Returned(run) ==
    {statuses \in [{selected[p].id : p \in DOMAIN run} -> Statuses] :
        \A id \in DOMAIN statuses : \E p \in DOMAIN run : selected[p].id = id /\ run[p] = statuses[id]}

Outcomes == UNION {Returned(run) : run \in Runs}

HookResults(statuses) ==
    LET here == IF invocation.affected THEN Package.path ELSE invocation.cwd
        name == IF invocation.affected THEN Package.name ELSE None
    IN  {[package |-> name, hook |-> id, status |-> statuses[id], cwd |-> here,
          files |-> FilesOf(Planner!RunningDefinition(id))] : id \in DOMAIN statuses}

\* Faulty: the results of the packages before are dropped.
ExecuteLast ==
    /\ phase = "execute"
    /\ \/ /\ \E statuses \in Outcomes : results' = HookResults(statuses)
          /\ phase' = IF invocation.affected THEN "packages" ELSE "report"
       \/ Planner!RunningIds # {} /\ phase' = "raised" /\ UNCHANGED results
    /\ UNCHANGED <<workspaceVars, planningVars, invocation, environ, branch, turn, report>>

\* run_plan: the hooks run, or one raises what run_hook does not convert and all is lost.
Execute ==
    /\ phase = "execute"
    /\ \/ /\ \E statuses \in Outcomes : results' = results \cup HookResults(statuses)
          /\ phase' = IF invocation.affected THEN "packages" ELSE "report"
       \/ Planner!RunningIds # {} /\ phase' = "raised" /\ UNCHANGED results
    /\ UNCHANGED <<workspaceVars, planningVars, invocation, environ, branch, turn, report>>

-----------------------------------------------------------------------------
(* The report. *)

Executed == {r.hook : r \in results}

\* Faulty: only the hooks that depend on a failed one.
NotRunBlocked ==
    {id \in Planner!RunningIds \ Executed :
        \E r \in results : r.hook \in Planner!Deps(id) /\ r.status # "passed"}
NotRun == Planner!RunningIds \ Executed

Skipped == {selected[p].id : p \in {q \in DOMAIN verdicts : verdicts[q] # "run"}}

\* build_report; with --affected, RunReport of the results alone.
Report ==
    /\ phase = "report"
    /\ report' = IF invocation.affected
                 THEN [results |-> results, skipped |-> {}, notRun |-> {}]
                 ELSE [results |-> results, skipped |-> Skipped, notRun |-> NotRun]
    /\ phase' = "reported"
    /\ UNCHANGED <<workspaceVars, planningVars, invocation, environ, branch, turn, results>>

ReportExitCode == IF \E r \in report.results : r.status \in {"failed", "error"} THEN 1 ELSE 0

\* The exit status of the process once it ended.
ExitCode == IF phase = "reported" THEN ReportExitCode ELSE 1

Ended == phase \in Errors \cup {"reported"} /\ UNCHANGED vars

-----------------------------------------------------------------------------
Selecting == DiscoverPackages \/ ValidateDeps \/ VisitNext \/ VisitDependency \/ Leave \/ Spread

Next ==
    \/ Options \/ Load
    \/ Selecting /\ UNCHANGED <<commandVars, planningVars>>
    \/ Changeset \/ Branch
    \/ Begin \/ NextPackage \/ Planning \/ Planned
    \/ Execute \/ Report \/ Ended

Spec == Init /\ [][Next]_vars

-----------------------------------------------------------------------------
(* Properties. *)

TypeOK ==
    /\ phase \in Phases
    /\ configDir # None => configDir \in DOMAIN tree.checkToml \cup DOMAIN tree.pyproject
    /\ \A p \in ToSet(packages) : p.path \in ToSet(tree.dirs) /\ p.config \in Configs(tree)
    /\ visiting \cup done \cup affected \cup ToSet(stack) \subseteq Names
    /\ visiting \cap done = {} /\ visiting = {walk[i].name : i \in DOMAIN walk}
    /\ turn \in 0..Len(AffectedPackages)
    /\ \A r \in results : r.status \in Statuses

\* No config defines an id twice, which nothing checks (with a second definition, see Plan).
UniqueIds == \A c \in Configs(tree) : IsInjective([p \in DOMAIN c.hooks |-> c.hooks[p].id])

(***************************************************************************)
(* Every hook the run selects is in the report exactly once: as run, as    *)
(* skipped by its conditions, or as not run, the last only after a failure *)
(* of a fail-fast group.  (With --affected the report has the hooks that   *)
(* ran only: workspace/affected.py hands on nothing else.)                 *)
(***************************************************************************)
EveryHookAccountedFor ==
    UniqueIds /\ phase = "reported" /\ ~invocation.affected =>
        LET ran == {r.hook : r \in report.results} IN
        /\ ran \cup report.skipped \cup report.notRun = IdsOf(selected)
        /\ Cardinality(ran) + Cardinality(report.skipped) + Cardinality(report.notRun)
             = Len(selected)
        /\ report.notRun # {} => FailFast /\ \E r \in report.results : r.status # "passed"

(***************************************************************************)
(* The gate opens only if what it guards passed: on exit 0, each hook that *)
(* nothing skips has a passing result, and with --affected each            *)
(* unconditional hook of each package with a changed file has one, run in  *)
(* that package.                                                           *)
(***************************************************************************)
PassedIn(hook, dir) ==
    \E r \in report.results : r.hook = hook.id /\ r.cwd = dir /\ r.status = "passed"
Unconditional(hook) == hook.when = Planner!NoConditions
OpenOnlyIfPassed ==
    UniqueIds /\ phase = "reported" /\ ExitCode = 0 =>
        IF invocation.affected
        THEN \A p \in ToSet(packages) :
                (\E f \in changed : IsUnder(f, RelativeTo(p.path, configDir))) =>
                    \A h \in Range(p.config.hooks) : Unconditional(h) => PassedIn(h, p.path)
        ELSE \A h \in Range(selected) :
                h.id \notin report.skipped => PassedIn(h, invocation.cwd)

(***************************************************************************)
(* With unique package names, a package is affected exactly when it, or a  *)
(* package it depends on by any chain, has a changed file or a shared file *)
(* changed: the smallest set that holds the former and, with a package,    *)
(* its dependents.  A cycle is reported exactly when there is one.         *)
(***************************************************************************)
UniqueNames == Cardinality(Names) = Len(packages)
DependOn(p) == IF p.config.package = None THEN {} ELSE ToSet(p.config.package.dependsOn)
Touched(p) == \E f \in changed : IsPrefix(RelativeTo(p.path, configDir), f)
Shared == \E f \in changed : \A p \in ToSet(packages) :
             ~IsPrefix(RelativeTo(p.path, configDir), f)
ClosedUnderDependents(S) ==
    \A p \in ToSet(packages) :
        (Shared \/ Touched(p) \/ DependOn(p) \cap S # {}) => p.name \in S
AffectedExactly ==
    UniqueNames =>
        /\ phase = "package cycle" =>
              \E S \in (SUBSET Names) \ {{}} :
                  \A p \in ToSet(packages) : p.name \in S => DependOn(p) \cap S # {}
        /\ phase = "packages" =>
              /\ \A S \in (SUBSET Names) \ {{}} :
                    \E p \in ToSet(packages) : p.name \in S /\ DependOn(p) \cap S = {}
              /\ ClosedUnderDependents(affected)
              /\ \A S \in SUBSET affected : ClosedUnderDependents(S) => S = affected

(***************************************************************************)
(* Run at the top of the repository, with the config there, a hook is      *)
(* given exactly the changed files below the directory it runs in that its *)
(* globs select, by names that are those files' names from there.          *)
(***************************************************************************)
HookOf(r) ==
    IF ~invocation.affected THEN Definition(config.hooks, r.hook)
    ELSE LET p == CHOOSE q \in ToSet(packages) : q.path = r.cwd
         IN  Definition(EffectiveConfig(config, p.config).hooks, r.hook)
Selects(h, f) == /\ h.passFiles
                 /\ h.files # None => f \in h.files
                 /\ h.exclude # None => f \notin h.exclude
HooksSeeTheirFiles ==
    UniqueIds /\ invocation.cwd = tree.top /\ configDir = tree.top /\ ~invocation.commitMsg =>
        \A r \in results :
            {r.cwd \o f : f \in r.files} =
                {a \in {tree.top \o f : f \in changed} :
                    IsPrefix(r.cwd, a) /\ Selects(HookOf(r), SubSeq(a, Len(r.cwd) + 1, Len(a)))}
=============================================================================
