------------------------------ MODULE RunGraph ------------------------------
(***************************************************************************)
(* The dynamic scheduler of gatecheck's Rust core (gatecheck-rs/src/       *)
(* runner.rs, run_graph), the rayon pool it spawns onto, and the Python    *)
(* callback of runner/engine.py (run_plan.execute) that each pool thread   *)
(* calls.                                                                  *)
(*                                                                         *)
(* One scheduler thread owns ready, indegree, executed, outstanding,       *)
(* aborted and firstError; the pool threads own task and outcome; the      *)
(* channel is the mpsc queue from the pool to the scheduler; results is    *)
(* the Python dict every callback writes.  The scheduler itself occupies   *)
(* one thread of the pool: rayon::scope, called from outside the pool,     *)
(* runs its closure on a pool thread, which then blocks in rx.recv().      *)
(***************************************************************************)
EXTENDS Naturals, Sequences, FiniteSets, EngineContract

CONSTANTS
    N,           \* number of nodes of the graph handed to run_graph
    HookIds,     \* the hook ids that occur in it
    Jobs,        \* the argument lists run_graph may be called with
    PoolThreads  \* threads of rayon's global pool

Node == 1..N

(***************************************************************************)
(* The arguments of one call: ids[i] is nodes[i], deps[i] the index list   *)
(* deps[i] (duplicates possible: depends-on is a free list), maxWorkers is *)
(* max_workers with None written 0.  The planner lists every dependency    *)
(* before its dependents.                                                  *)
(***************************************************************************)
Args == [ids : [Node -> HookIds],
         deps : [Node -> Seq(Node)],
         failFast : BOOLEAN,
         maxWorkers : Nat]

DependsOn(a) == [i \in Node |-> {a.deps[i][k] : k \in DOMAIN a.deps[i]}]

ASSUME NodesAssumption == N \in Nat
ASSUME PoolAssumption == PoolThreads \in Nat \ {0}
ASSUME JobsAssumption == \A a \in Jobs : a \in Args /\ Workable(N, DependsOn(a))

VARIABLES
    args,         \* the arguments of the call, fixed for its duration
    pc,           \* where the scheduler is: "pump", "recv" or "returned"
    ready,        \* nodes with no unfinished dependency, not yet launched
    indegree,     \* dependencies of each node not yet reported finished
    executed,     \* nodes launched so far
    outstanding,  \* launched and not yet received from the channel
    aborted,      \* stop launching
    firstError,   \* node whose callback raised first, 0 when none did
    channel,      \* completed nodes, in the order they were sent
    task,         \* what has become of each node's pool task
    outcome,      \* what each node's callback produced (the message's payload)
    results       \* run_plan's dict: the last status recorded for each hook id

schedVars == <<pc, ready, indegree, executed, outstanding, aborted, firstError>>
poolVars == <<task, outcome, results>>
vars == <<args, schedVars, channel, poolVars>>

Status == {"passed", "failed", "error"}
Outcome == Status \cup {"raised"}

TypeOK ==
    /\ args \in Jobs
    /\ pc \in {"pump", "recv", "returned"}
    /\ ready \in Seq(Node)
    /\ indegree \in [Node -> Nat]
    /\ executed \in SUBSET Node
    /\ outstanding \in Nat
    /\ aborted \in BOOLEAN
    /\ firstError \in Node \cup {0}
    /\ channel \in Seq(Node)
    /\ task \in [Node -> {"none", "spawned", "running", "sent", "received"}]
    /\ outcome \in [Node -> Outcome \cup {"none"}]
    /\ results \in [HookIds -> Status \cup {"none"}]

-----------------------------------------------------------------------------
(* What run_graph computes with. *)

\* The positions of node d in the dependency list of node i.
Edges(i, d) == {k \in DOMAIN args.deps[i] : args.deps[i][k] = d}

\* The one sequence that lists S in ascending (input) order.
InInputOrder(S) ==
    {q \in [1..Cardinality(S) -> S] :
        /\ \A i \in S : \E p \in DOMAIN q : q[p] = i
        /\ \A p1, p2 \in DOMAIN q : p1 < p2 => q[p1] < q[p2]}

\* Faulty: one too many in flight; one too few.
BelowCapOneMore == args.maxWorkers = 0 \/ outstanding <= args.maxWorkers
BelowCapOneLess == args.maxWorkers = 0 \/ outstanding + 1 < args.maxWorkers
BelowCap == args.maxWorkers = 0 \/ outstanding < args.maxWorkers

\* Faulty: a barrier, each launch waits for all before it; an abort that is ignored.
CanLaunchWhenIdle == ~aborted /\ BelowCap /\ outstanding = 0 /\ ready # <<>>
CanLaunchWhenAborted == BelowCap /\ ready # <<>>
CanLaunch == ~aborted /\ BelowCap /\ ready # <<>>

\* An outcome that stops all further launches.
Aborts(o) == o = "raised" \/ (args.failFast /\ o # "passed")

-----------------------------------------------------------------------------
Init ==
    /\ args \in Jobs
    /\ pc = "pump"
    /\ indegree = [i \in Node |-> Len(args.deps[i])]
    /\ ready \in InInputOrder({i \in Node : indegree[i] = 0})
    /\ executed = {}
    /\ outstanding = 0
    /\ aborted = FALSE
    /\ firstError = 0
    /\ channel = <<>>
    /\ task = [i \in Node |-> "none"]
    /\ outcome = [i \in Node |-> "none"]
    /\ results = [h \in HookIds |-> "none"]

(***************************************************************************)
(* pump!: launch the head of the ready queue, one node per step.           *)
(***************************************************************************)
Launch ==
    /\ pc = "pump"
    /\ CanLaunch
    /\ LET i == Head(ready) IN
        /\ executed' = executed \cup {i}
        /\ task' = [task EXCEPT ![i] = "spawned"]
    /\ ready' = Tail(ready)
    /\ outstanding' = outstanding + 1
    /\ UNCHANGED <<args, pc, indegree, aborted, firstError, channel, outcome, results>>

\* pump! is through: wait for a completion, or return when none is outstanding.
EndPump ==
    /\ pc = "pump"
    /\ ~CanLaunch
    /\ pc' = IF outstanding > 0 THEN "recv" ELSE "returned"
    /\ UNCHANGED <<args, ready, indegree, executed, outstanding, aborted, firstError,
                   channel, poolVars>>

Enqueue(S) == \E q \in InInputOrder(S) : ready' = ready \o q

\* Faulty: a dependency listed twice is taken off once.
FreeDependentsOnce(i) ==
    /\ indegree' = [j \in Node |-> IF Edges(j, i) # {} THEN indegree[j] - 1 ELSE indegree[j]]
    /\ Enqueue({j \in Node : Edges(j, i) # {} /\ indegree'[j] = 0 /\ j \notin executed})

\* Faulty: a dependent is queued when its first dependency finishes.
FreeDependentsEarly(i) ==
    /\ indegree' = [j \in Node |-> indegree[j] - Cardinality(Edges(j, i))]
    /\ Enqueue({j \in Node : Edges(j, i) # {} /\ j \notin executed})

\* Faulty: every node is taken for a dependent.
FreeDependentsAll(i) ==
    /\ indegree' = [j \in Node |-> indegree[j] - 1]
    /\ Enqueue({j \in Node : indegree'[j] = 0 /\ j \notin executed})

\* Node i finished: take it off its dependents, queue those that became ready.
FreeDependents(i) ==
    /\ indegree' = [j \in Node |-> indegree[j] - Cardinality(Edges(j, i))]
    /\ Enqueue({j \in Node : Edges(j, i) # {} /\ indegree'[j] = 0 /\ j \notin executed})

\* Faulty: the flag follows the last outcome only.
NoteLastOutcome(i) ==
    /\ aborted' = Aborts(outcome[i])
    /\ firstError' = IF outcome[i] = "raised" /\ firstError = 0 THEN i ELSE firstError

\* A failure under fail-fast, or any exception, stops new scheduling for good.
NoteOutcome(i) ==
    /\ aborted' = (aborted \/ Aborts(outcome[i]))
    /\ firstError' = IF outcome[i] = "raised" /\ firstError = 0 THEN i ELSE firstError

(***************************************************************************)
(* One turn of the main loop: take a completion off the channel, note a    *)
(* failure or an error, free the dependents, then pump again.              *)
(***************************************************************************)
Receive ==
    /\ pc = "recv"
    /\ channel # <<>>
    /\ LET i == Head(channel) IN
        /\ task' = [task EXCEPT ![i] = "received"]
        /\ NoteOutcome(i)
        /\ FreeDependents(i)
    /\ channel' = Tail(channel)
    /\ outstanding' = outstanding - 1
    /\ pc' = "pump"
    /\ UNCHANGED <<args, executed, outcome, results>>

(***************************************************************************)
(* A free pool thread takes a spawned task and enters the callback.  The   *)
(* scheduler's own thread is never free: it blocks in rx.recv().           *)
(***************************************************************************)
Running == {i \in Node : task[i] = "running"}

Start(i) ==
    /\ task[i] = "spawned"
    /\ Cardinality(Running) < PoolThreads - 1
    /\ task' = [task EXCEPT ![i] = "running"]
    /\ UNCHANGED <<args, schedVars, channel, outcome, results>>

\* Faulty: a callback that raises reports nothing.
FinishUnlessRaised(i, o) ==
    /\ task[i] = "running"
    /\ task' = [task EXCEPT ![i] = "sent"]
    /\ outcome' = [outcome EXCEPT ![i] = o]
    /\ results' = IF o = "raised" THEN results ELSE [results EXCEPT ![args.ids[i]] = o]
    /\ channel' = IF o = "raised" THEN channel ELSE Append(channel, i)
    /\ UNCHANGED <<args, schedVars>>

\* execute(hook_id): record the result (unless an exception escapes), then send it.
Finish(i, o) ==
    /\ task[i] = "running"
    /\ task' = [task EXCEPT ![i] = "sent"]
    /\ outcome' = [outcome EXCEPT ![i] = o]
    /\ results' = IF o = "raised" THEN results ELSE [results EXCEPT ![args.ids[i]] = o]
    /\ channel' = Append(channel, i)
    /\ UNCHANGED <<args, schedVars>>

Returned == pc = "returned" /\ UNCHANGED vars

Next ==
    \/ Launch
    \/ EndPump
    \/ Receive
    \/ \E i \in Node : Start(i)
    \/ \E i \in Node, o \in Outcome : Finish(i, o)
    \/ Returned

(***************************************************************************)
(* The scheduler thread is never descheduled for good, an idle pool thread *)
(* takes a spawned task, and every hook's process ends (gatecheck sets no  *)
(* timeout: a hook that hangs hangs the run, which no property excludes).  *)
(***************************************************************************)
Fairness ==
    /\ WF_vars(Launch) /\ WF_vars(EndPump) /\ WF_vars(Receive)
    /\ \A i \in Node : WF_vars(Start(i))
    /\ \A i \in Node : WF_vars(\E o \in Outcome : Finish(i, o))

Spec == Init /\ [][Next]_vars
FairSpec == Spec /\ Fairness

-----------------------------------------------------------------------------
(* What run_plan returns and build_report makes of it. *)

\* Nodes whose result the report lists, and the planned hooks it lists as "not run".
NotRun == {args.ids[i] : i \in Node} \ {args.ids[i] : i \in executed}

\* Faulty: an error result does not count as a failure.
ExitCodeOfFailures ==
    IF firstError # 0 \/ \E i \in executed : results[args.ids[i]] = "failed" THEN 1 ELSE 0

\* The process's exit status: an escaping exception, or report.exit_code.
ExitCode ==
    IF firstError # 0 \/ \E i \in executed : results[args.ids[i]] \in {"failed", "error"}
    THEN 1 ELSE 0

-----------------------------------------------------------------------------
(* Properties. *)

Spawned == {i \in Node : task[i] \in {"spawned", "running"}}

\* A hook enters the pool only when all it depends on has finished and was reported.
DependenciesFirst ==
    \A i \in Node : task[i] # "none" =>
        \A k \in DOMAIN args.deps[i] : task[args.deps[i][k]] = "received"

\* No more hooks are in the pool, waiting for a thread or running, than max_workers.
WithinCap == args.maxWorkers # 0 => Cardinality(Spawned) <= args.maxWorkers

(***************************************************************************)
(* No wave barrier: whenever the scheduler blocks on the channel without   *)
(* having aborted, the cap is reached or every hook not yet launched still *)
(* waits for a dependency that has not been reported.                      *)
(***************************************************************************)
NoWaveBarrier ==
    pc = "recv" /\ ~aborted =>
        \/ args.maxWorkers # 0 /\ outstanding = args.maxWorkers
        \/ \A i \in Node \ executed :
              \E k \in DOMAIN args.deps[i] : task[args.deps[i][k]] # "received"

\* A hook downstream of a failure (under fail-fast) or of an exception never starts.
DownstreamOfFailureNeverStarts ==
    \A i \in executed : \A k \in DOMAIN args.deps[i] : ~Aborts(outcome[args.deps[i][k]])

(***************************************************************************)
(* When run_graph returns, nothing is left behind in the pool or in the    *)
(* channel, and a hook was left out only because a failure aborted the     *)
(* run; without an exception, the run came to what the callers rely on.    *)
(***************************************************************************)
ReturnsWithNothingLeft ==
    pc = "returned" =>
        /\ channel = <<>>
        /\ \A i \in Node : task[i] \in {"none", "received"}
        /\ executed # Node => \E i \in executed : Aborts(outcome[i])
        /\ firstError = 0 =>
              MayReturn(Node, DependsOn(args), args.failFast, args.maxWorkers,
                        [i \in executed |-> outcome[i]])

(***************************************************************************)
(* The gate is honest: the run exits 0 exactly when every planned hook ran *)
(* and passed, and it lists a hook as not run only with exit status 1.     *)
(***************************************************************************)
GateHonest ==
    pc = "returned" =>
        /\ ExitCode = 0 <=> \A i \in Node : outcome[i] = "passed"
        /\ NotRun # {} => ExitCode = 1

\* Every run ends: run_graph returns, whatever the callbacks return or raise.
RunEnds == <>(pc = "returned")

\* A hook starts once all of its dependencies have finished, unless the run aborts.
EligibleHooksStart ==
    \A i \in Node :
        (\A k \in DOMAIN args.deps[i] : task[args.deps[i][k]] = "received")
            ~> (aborted \/ task[i] \in {"running", "sent", "received"})

(***************************************************************************)
(* RunGraph implements HookRun: a hook starts when it is launched and has  *)
(* finished when the scheduler has taken its completion off the channel.   *)
(***************************************************************************)
PhaseOf(i) ==
    CASE task[i] = "none" -> "waiting"
      [] task[i] = "received" -> "finished"
      [] task[i] \in {"spawned", "running", "sent"} -> "started"

ReportedOutcome(i) == IF task[i] = "received" THEN outcome[i] ELSE "none"

HR == INSTANCE HookRun WITH
        phase <- [i \in Node |-> PhaseOf(i)],
        outcome <- [i \in Node |-> ReportedOutcome(i)],
        halted <- aborted

ImplementsHookRun == HR!Spec

-----------------------------------------------------------------------------
(* The inductive invariant: how the scheduler's bookkeeping mirrors the pool. *)

Holds(s, i) == \E p \in DOMAIN s : s[p] = i
Distinct(s) == \A p1, p2 \in DOMAIN s : s[p1] = s[p2] => p1 = p2

UniqueIds == \A i, j \in Node : args.ids[i] = args.ids[j] => i = j

\* Launched and not yet taken off the channel; dependencies not yet taken off it.
Outstanding == {i \in Node : task[i] \in {"spawned", "running", "sent"}}
Unreported(i) == {k \in DOMAIN args.deps[i] : task[args.deps[i][k]] # "received"}

TaskInv ==
    \A i \in Node : /\ i \in executed <=> task[i] # "none"
                    /\ outcome[i] = "none" <=> task[i] \notin {"sent", "received"}

ReadyInv ==
    /\ Distinct(ready)
    /\ \A i \in Node : Holds(ready, i) <=> indegree[i] = 0 /\ i \notin executed

ChannelInv ==
    /\ Distinct(channel)
    /\ \A i \in Node : Holds(channel, i) <=> task[i] = "sent"

CountInv ==
    /\ outstanding = Cardinality(Outstanding)
    /\ \A i \in Node : indegree[i] = Cardinality(Unreported(i))
    /\ args.maxWorkers # 0 => outstanding <= args.maxWorkers

AbortInv ==
    /\ aborted <=> \E i \in Node : task[i] = "received" /\ Aborts(outcome[i])
    /\ firstError # 0 <=> \E i \in Node : task[i] = "received" /\ outcome[i] = "raised"

PcInv ==
    /\ pc = "recv" => outstanding > 0 /\ ~CanLaunch
    /\ pc = "returned" => outstanding = 0 /\ ~CanLaunch

\* What has failed was in flight with all that still is, when it aborted the run.
Failing == {i \in Node : task[i] = "received" /\ outcome[i] # "passed"}
FailuresInv ==
    args.failFast /\ args.maxWorkers # 0 => Cardinality(Failing) + outstanding <= args.maxWorkers

ResultsInv ==
    UniqueIds => \A i \in Node :
        results[args.ids[i]] = IF outcome[i] \in Status THEN outcome[i] ELSE "none"

SchedulerInv ==
    /\ TypeOK
    /\ TaskInv
    /\ ReadyInv
    /\ ChannelInv
    /\ CountInv
    /\ AbortInv
    /\ PcInv
    /\ DependenciesFirst
    /\ DownstreamOfFailureNeverStarts
=============================================================================
