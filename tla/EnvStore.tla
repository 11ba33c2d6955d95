------------------------------ MODULE EnvStore ------------------------------
(***************************************************************************)
(* What the shared cache promises, whatever processes build in it and      *)
(* whenever they are killed: it holds a set of environments.  One appears  *)
(* at once and complete, and stays until the cache is cleared; a hook is   *)
(* told of success only for an environment that is there, and of failure   *)
(* only for a reason of its own; a clear removes one after the other, and  *)
(* has ended when nothing is left.  Only a clear that meets a worker or is *)
(* interrupted ends all promises.  EnvCache implements it.                 *)
(***************************************************************************)
CONSTANTS
    Keys,    \* the keys of environments
    NoTool,  \* those whose environment lacks the tool that the hook names
    Workers  \* who asks for environments

VARIABLES
    held,   \* the environments that are there
    answer, \* by worker and key, the last answer
    phase,  \* of the clear: idle, clearing or done
    spoiled \* a clear met a worker or was interrupted

vars == <<held, answer, phase, spoiled>>

Init ==
    /\ held = {}
    /\ answer = [w \in Workers |-> [k \in Keys |-> "none"]]
    /\ phase = "idle"
    /\ spoiled = FALSE

Open == ~spoiled /\ phase # "clearing"

Build(k) ==
    /\ Open /\ k \notin held
    /\ held' = held \cup {k}
    /\ UNCHANGED <<answer, phase, spoiled>>

\* Pinning or the build failed, or what is there is as the answer says.
Truthful(k, o) ==
    \/ o \in {"registry", "uv", "download"}
    \/ o = "offline" /\ k \notin held
    \/ o = "cached" /\ k \in held
    \/ o \in {"built", "ran"} /\ k \in held \ NoTool
    \/ o = "notool" /\ k \in held \cap NoTool

Answer(w, k, o) ==
    /\ Open /\ Truthful(k, o)
    /\ answer' = [answer EXCEPT ![w][k] = o]
    /\ UNCHANGED <<held, phase, spoiled>>

StartClear ==
    /\ ~spoiled /\ phase = "idle"
    /\ phase' = "clearing"
    /\ UNCHANGED <<held, answer, spoiled>>

Remove(k) ==
    /\ ~spoiled /\ phase = "clearing"
    /\ held' = held \ {k}
    /\ UNCHANGED <<answer, phase, spoiled>>

\* Also a clear that finds nothing at all.
EndClear ==
    /\ ~spoiled /\ phase \in {"idle", "clearing"}
    /\ held = {}
    /\ phase' = "done"
    /\ UNCHANGED <<held, answer, spoiled>>

\* From then on everything may happen.
Spoil == phase' # "idle" /\ spoiled'

Next ==
    \/ \E k \in Keys : Build(k) \/ Remove(k)
    \/ \E w \in Workers, k \in Keys :
          \E o \in {"registry", "uv", "download", "offline", "cached", "built", "ran", "notool"} :
              Answer(w, k, o)
    \/ StartClear
    \/ EndClear
    \/ Spoil

Spec == Init /\ [][Next]_vars
=============================================================================
