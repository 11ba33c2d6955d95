--------------------------- MODULE EngineContract ---------------------------
(***************************************************************************)
(* Where the planner, the scheduler and the command meet: the graphs that  *)
(* run_graph is given, and what a run of them may come to.  Plan keeps the *)
(* first, RunGraph assumes the first and keeps the second, RunCommand      *)
(* relies on the second.  A cap of 0 is max_workers None.                  *)
(***************************************************************************)
EXTENDS Naturals, FiniteSets

\* A graph of n nodes that can be worked off: what a node depends on comes before it.
Workable(n, dependsOn) == \A i \in 1..n : dependsOn[i] \subseteq 1..(i - 1)

(***************************************************************************)
(* The hooks that ran are closed under dependencies.  They are all of them *)
(* unless fail-fast and a failure stopped the run, in which case nothing   *)
(* that depends on a failure ran, and of at most cap hooks in flight, all  *)
(* may fail.                                                               *)
(***************************************************************************)
MayReturn(hooks, dependsOn, failFast, cap, statuses) ==
    LET ran == DOMAIN statuses
        failing == {i \in ran : statuses[i] # "passed"}
    IN  /\ ran \subseteq hooks
        /\ \A i \in ran : dependsOn[i] \subseteq ran
        /\ ran # hooks => failFast /\ failing # {}
        /\ failFast => \A i \in ran : dependsOn[i] \cap failing = {}
        /\ failFast /\ cap # 0 => Cardinality(failing) <= cap
=============================================================================
