----------------------------- MODULE MCEnvCache -----------------------------
(***************************************************************************)
(* Instances of EnvCache for TLC.                                          *)
(***************************************************************************)
EXTENDS EnvCache

CONSTANTS w1, w2, w3, k1, k2

Run(k, offline) == [kind |-> "run", keys |-> <<k>>, offline |-> offline]
Sync(keys) == [kind |-> "sync", keys |-> keys, offline |-> FALSE]

\* Hooks on k1, online or offline, and at most one sync of a config with a hook on each key.
ThreeWorkers ==
    LET Hooks == {Run(k1, FALSE), Run(k1, TRUE)}
        Both == Sync(<<k1, k2>>)
    IN  {cast \in [Workers -> Hooks \cup {Both}] :
            \A v, w \in Workers : cast[v] = Both /\ cast[w] = Both => v = w}

\* Two workers on k1 in any combination, or a sync with two hooks on k1, with a clear.
Nothing == [kind |-> "run", keys |-> <<>>, offline |-> FALSE]
TwoWorkers ==
    {cast \in [Workers -> {Run(k1, FALSE), Run(k1, TRUE), Sync(<<k1>>), Nothing}] :
        \A w \in Workers : cast[w] = Nothing <=> w = w3}
    \cup {[w \in Workers |-> IF w = w1 THEN Sync(<<k1, k1>>) ELSE Nothing]}

AllCasts == ThreeWorkers \cup TwoWorkers
=============================================================================
