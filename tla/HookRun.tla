------------------------------- MODULE HookRun -------------------------------
(***************************************************************************)
(* What a run of hooks promises, whatever queues and threads carry it out: *)
(* a hook starts once, after everything it depends on has finished, never  *)
(* beyond the concurrency cap, and never after the run was halted by a     *)
(* failure under fail-fast or by an exception.  RunGraph implements it.    *)
(***************************************************************************)
EXTENDS Naturals, FiniteSets

CONSTANTS
    Node,     \* the hooks of the run
    Jobs,     \* the argument lists: dependencies, fail-fast, cap
    Outcome   \* what running a hook can produce

VARIABLES args, phase, outcome, halted
vars == <<args, phase, outcome, halted>>

DependsOn(i) == {args.deps[i][k] : k \in DOMAIN args.deps[i]}

InFlight == {i \in Node : phase[i] = "started"}

Halts(o) == o = "raised" \/ (args.failFast /\ o # "passed")

Init ==
    /\ args \in Jobs
    /\ phase = [i \in Node |-> "waiting"]
    /\ outcome = [i \in Node |-> "none"]
    /\ halted = FALSE

Start(i) ==
    /\ phase[i] = "waiting"
    /\ ~halted
    /\ \A d \in DependsOn(i) : phase[d] = "finished"
    /\ args.maxWorkers = 0 \/ Cardinality(InFlight) < args.maxWorkers
    /\ phase' = [phase EXCEPT ![i] = "started"]
    /\ UNCHANGED <<args, outcome, halted>>

Finish(i, o) ==
    /\ phase[i] = "started"
    /\ phase' = [phase EXCEPT ![i] = "finished"]
    /\ outcome' = [outcome EXCEPT ![i] = o]
    /\ halted' = (halted \/ Halts(o))
    /\ UNCHANGED args

Next == \E i \in Node : Start(i) \/ \E o \in Outcome : Finish(i, o)

Spec == Init /\ [][Next]_vars
=============================================================================
