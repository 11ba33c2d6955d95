----------------------------- MODULE MCRunGraph -----------------------------
(***************************************************************************)
(* Instances of RunGraph for TLC: every dependency graph on N nodes that   *)
(* respects the input order and has at least MinEdges edges, each with     *)
(* fail-fast on and off and with every cap of Caps.                        *)
(***************************************************************************)
EXTENDS RunGraph, SequencesExt

CONSTANTS Caps, MinEdges

\* The dependencies of a node as the list the engine builds; S in ascending order.
ListOf(S) == SetToSortSeq(S, <)

Graphs == {g \in [Node -> SUBSET Node] :
              /\ \A i \in Node : \A d \in g[i] : d < i
              /\ Cardinality({e \in Node \X Node : e[2] \in g[e[1]]}) >= MinEdges}
AllDeps == {[i \in Node |-> ListOf(g[i])] : g \in Graphs}

\* depends-on may name the same hook twice: N depends on 1, listed twice, and on N - 1.
RepeatedDeps == {[i \in Node |-> IF i = N THEN <<1, N - 1, 1>> ELSE <<>>]}

UniqueIdJobs ==
    [ids : {[i \in Node |-> i]}, deps : AllDeps \cup RepeatedDeps,
     failFast : BOOLEAN, maxWorkers : Caps]

\* check.toml declared one id twice: the plan holds the last definition twice.
DuplicateIdJobs ==
    [ids : {[i \in Node |-> IF i = N THEN 1 ELSE i]}, deps : {[i \in Node |-> <<>>]},
     failFast : {FALSE}, maxWorkers : Caps]
=============================================================================
