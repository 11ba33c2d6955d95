--------------------------- MODULE EnvCacheProofs ---------------------------
(***************************************************************************)
(* The shared cache of environments, proved sound for every number of      *)
(* workers and keys, every config and every moment of a kill, of an        *)
(* interrupt or of a clear; and shown to implement EnvStore.               *)
(***************************************************************************)
EXTENDS EnvCache, SequenceTheorems, TLAPS

-----------------------------------------------------------------------------
(* The inductive invariant. *)

Preparing == {"idle", "explain", "resolve", "lookup", "mkdtemp"}
Building == {"venv", "install", "replace"}

\* A worker that has not ended has a key in hand.
ProgressInv ==
    \A w \in Workers :
        /\ Len(todo[w]) <= MaxHooks
        /\ pc[w] # "done" => todo[w] # <<>>

\* The directories that mkdtemp has still to make, and those that are not yet moved to a slot.
AwaitsStage(b, stages) ==
    \/ b[3] < Len(todo[b[1]])
    \/ b[3] = Len(todo[b[1]]) /\ pc[b[1]] \in stages
Unmade(b) == AwaitsStage(b, Preparing)
Unpublished(b) == AwaitsStage(b, Preparing \cup Building)

\* A directory is empty until it is made, in no slot until it is moved there, and in one place.
FreshInv ==
    \A b \in Builds :
        /\ Unmade(b) => parts[b] = {}
        /\ Unpublished(b) => entry[b[2]] # b
        /\ entry[b] # None => entry[b[2]] # b

\* What the clear has in hand.
RemovalInv ==
    /\ clear \in {"measure", "rmtree"} => removal.name \in Names
    /\ clear = "rmtree" => removal.dir \in Builds

BaseInv == TypeOK /\ ProgressInv /\ NoOrphans /\ FreshInv /\ RemovalInv

\* No clear has met a worker or was interrupted.
Quiet == ~overlapped /\ clear # "killed"

\* What a worker relies on at each stage.
StageInv(w) ==
    /\ pc[w] = "mkdtemp" => schemeDir
    /\ pc[w] \in Building => entry[Temp(w)] = Temp(w)
    /\ pc[w] = "venv" => parts[Temp(w)] = {}
    /\ pc[w] = "install" => parts[Temp(w)] = {"bin"}
    /\ pc[w] = "replace" => parts[Temp(w)] = BuiltParts(Key(w))
    /\ pc[w] \in {"check", "spawn", "running"} => entry[Key(w)] # None
    /\ program[w].offline =>
          /\ pc[w] \notin {"mkdtemp"} \cup Building
          /\ pc[w] = "lookup" => entry[Key(w)] # None

InHand(n) == clear \in {"measure", "rmtree"} /\ n = removal.name

\* A clear has every name before it, and what it deletes is as it found it.
ClearInv ==
    /\ Clearing => \A w \in Workers : ~Active(w)
    /\ Clearing => \A n \in Names : entry[n] # None => n \in targets \/ InHand(n)
    /\ clear = "measure" => entry[removal.name] # None
    /\ clear = "rmtree" =>
          entry[removal.name] = removal.dir /\ parts[removal.dir] = removal.left
    /\ clear = "rmdir" => \A n \in Names : entry[n] = None

\* Slots are sound, but for the one that is being deleted.
SlotInv == \A k \in Keys : entry[k] # None => Sound(k) \/ (clear = "rmtree" /\ k = removal.name)

QuietInv ==
    /\ ClearInv
    /\ SlotInv
    /\ \A w \in Workers : StageInv(w)
    /\ \A w \in Workers, k \in Keys : Blameless(w, k)

\* Before the clear nothing has met it, and what was reported as there is there.
WarmInv ==
    clear = "idle" =>
        /\ ~overlapped
        /\ \A w \in Workers, k \in Keys :
              outcome[w][k] \in {"built", "cached", "ran"} => entry[k] # None

CacheInv == BaseInv /\ (Quiet => QuietInv) /\ WarmInv

-----------------------------------------------------------------------------
(* Workers. *)

\* A worker that has not ended has a key, and a name for a directory of its own.
LEMMA KeyInHand ==
    ASSUME TypeOK, ProgressInv, NEW w \in Workers, pc[w] # "done"
    PROVE  /\ Key(w) \in Keys
           /\ Len(todo[w]) \in 1..MaxHooks
           /\ Temp(w) \in Builds
           /\ Tail(todo[w]) \in Seq(Keys)
           /\ Len(Tail(todo[w])) = Len(todo[w]) - 1
<1>1. todo[w] \in Seq(Keys) /\ todo[w] # <<>> /\ Len(todo[w]) <= MaxHooks
  BY DEF TypeOK, ProgressInv
<1>2. Len(todo[w]) \in 1..MaxHooks /\ Key(w) \in Keys
  BY <1>1, MaxHooksAssumption DEF Key
<1> QED  BY <1>1, <1>2 DEF Temp, Builds

\* What w does leaves the other workers where they are.
Alone(w) ==
    \A v \in Workers : v # w => pc'[v] = pc[v] /\ todo'[v] = todo[v] /\ outcome'[v] = outcome[v]

WorkersOK ==
    /\ todo \in [Workers -> Seq(Keys)]
    /\ pc \in [Workers -> Stages]
    /\ outcome \in [Workers -> [Keys -> Outcomes \cup {"none"}]]

\* A step to another stage, with the same key in hand.
LEMMA GotoMoves ==
    ASSUME TypeOK, ProgressInv, NEW w \in Workers, pc[w] # "done",
           NEW stage \in Stages, stage # "done", Goto(w, stage), UNCHANGED <<todo, outcome>>
    PROVE  WorkersOK' /\ ProgressInv' /\ Alone(w) /\ pc'[w] = stage
  BY DEF TypeOK, ProgressInv, WorkersOK, Alone, Goto

\* The next key, or the end.
LEMMA SettleMoves ==
    ASSUME TypeOK, ProgressInv, NEW w \in Workers, pc[w] # "done",
           NEW o \in Outcomes, Settle(w, o)
    PROVE  /\ WorkersOK' /\ ProgressInv' /\ Alone(w)
           /\ pc'[w] \in {"done", "explain"}
           /\ Len(todo'[w]) = Len(todo[w]) - 1
           /\ outcome'[w] = [outcome[w] EXCEPT ![Key(w)] = o]
<1> DEFINE next == IF Len(todo[w]) = 1 THEN "done" ELSE "explain"
<1>1. /\ Tail(todo[w]) \in Seq(Keys) /\ Len(Tail(todo[w])) = Len(todo[w]) - 1
      /\ Len(todo[w]) \in 1..MaxHooks /\ Key(w) \in Keys
  BY KeyInHand
<1>2. /\ pc' = [pc EXCEPT ![w] = next]
      /\ todo' = [todo EXCEPT ![w] = Tail(todo[w])]
      /\ outcome' = [outcome EXCEPT ![w] = [outcome[w] EXCEPT ![Key(w)] = o]]
  BY DEF Settle, Goto, TypeOK
<1>3. next \in Stages /\ next \in {"done", "explain"}
  BY DEF Stages
<1> HIDE DEF next
<1>4. WorkersOK'
  BY <1>1, <1>2, <1>3 DEF TypeOK, WorkersOK
<1>5. Alone(w) /\ pc'[w] = next /\ todo'[w] = Tail(todo[w])
      /\ outcome'[w] = [outcome[w] EXCEPT ![Key(w)] = o]
  BY <1>2 DEF Alone, TypeOK
<1>6. pc'[w] # "done" => todo'[w] # <<>>
  <2>1. CASE Len(todo[w]) = 1
    BY <1>5, <2>1 DEF next
  <2>2. CASE Len(todo[w]) # 1
    <3>1. Len(Tail(todo[w])) # 0
      BY <1>1, <2>2, MaxHooksAssumption
    <3>2. Tail(todo[w]) # <<>>
      BY <1>1, <3>1, EmptySeq
    <3> QED  BY <1>5, <3>2
  <2> QED  BY <2>1, <2>2
<1>7. ProgressInv'
  BY <1>1, <1>5, <1>6, MaxHooksAssumption DEF Alone, ProgressInv, TypeOK
<1> QED  BY <1>1, <1>3, <1>4, <1>5, <1>7

\* The end, with keys still to deal with.
LEMMA RaiseMoves ==
    ASSUME TypeOK, ProgressInv, NEW w \in Workers, pc[w] # "done",
           NEW o \in Outcomes, Raise(w, o)
    PROVE  /\ WorkersOK' /\ ProgressInv' /\ Alone(w)
           /\ pc'[w] = "done"
           /\ Len(todo'[w]) = 0
           /\ outcome'[w] = [outcome[w] EXCEPT ![Key(w)] = o]
<1>1. Key(w) \in Keys
  BY KeyInHand
<1>2. /\ pc' = [pc EXCEPT ![w] = "done"]
      /\ todo' = [todo EXCEPT ![w] = <<>>]
      /\ outcome' = [outcome EXCEPT ![w] = [outcome[w] EXCEPT ![Key(w)] = o]]
  BY DEF Raise, Goto, TypeOK
<1>3. WorkersOK'
  BY <1>1, <1>2 DEF TypeOK, WorkersOK, Stages
<1>4. /\ Alone(w) /\ pc'[w] = "done" /\ todo'[w] = <<>>
      /\ outcome'[w] = [outcome[w] EXCEPT ![Key(w)] = o]
  BY <1>2 DEF Alone, TypeOK
<1>5. ProgressInv'
  BY <1>4, MaxHooksAssumption DEF Alone, ProgressInv, TypeOK
<1> QED  BY <1>3, <1>4, <1>5

-----------------------------------------------------------------------------
(* What a worker's step does to the directories. *)

DirsOK ==
    /\ entry \in [Names -> Builds \cup {None}]
    /\ parts \in [Builds -> SUBSET Part]
    /\ schemeDir \in BOOLEAN
    /\ \A n \in Names : entry[n] # None => n = entry[n] \/ n = entry[n][2]
    /\ (\E n \in Names : entry[n] # None) => schemeDir

\* A worker goes on with its key, or leaves it.
Advances(w) ==
    \/ Len(todo'[w]) < Len(todo[w])
    \/ /\ todo'[w] = todo[w]
       /\ pc'[w] \in Preparing => pc[w] \in Preparing
       /\ pc'[w] \in Preparing \cup Building => pc[w] \in Preparing \cup Building

\* No directory is awaited anew.
LEMMA AwaitsLess ==
    ASSUME TypeOK, WorkersOK', NEW w \in Workers, Alone(w), Advances(w), NEW b \in Builds
    PROVE  (Unmade(b)' => Unmade(b)) /\ (Unpublished(b)' => Unpublished(b))
<1>1. b[1] \in Workers /\ b[3] \in Nat
  BY MaxHooksAssumption DEF Builds
<1>2. Len(todo[w]) \in Nat /\ Len(todo'[w]) \in Nat
  BY DEF TypeOK, WorkersOK
<1>3. CASE b[1] # w
  BY <1>1, <1>3 DEF Alone, Unmade, Unpublished, AwaitsStage
<1>4. CASE b[1] = w
  BY <1>1, <1>2, <1>4 DEF Advances, Unmade, Unpublished, AwaitsStage
<1> QED  BY <1>3, <1>4

\* A step that keeps to what a worker may do keeps the base invariant.
LEMMA WorkerBase ==
    ASSUME BaseInv, NEW w \in Workers,
           WorkersOK', ProgressInv', Alone(w), Advances(w),
           UNCHANGED <<program, clearVars>>, overlapped' \in BOOLEAN,
           DirsOK', NoOrphans',
           \A b \in Builds : Unmade(b)' => parts'[b] \in {parts[b], {}},
           \A b \in Builds : Unpublished(b)' /\ entry'[b[2]] = b => entry[b[2]] = b,
           \A b \in Builds : entry'[b] # None /\ entry'[b[2]] = b => entry[b] # None /\ entry[b[2]] = b
    PROVE  BaseInv'
<1>1. TypeOK'
  BY DEF BaseInv, TypeOK, WorkersOK, DirsOK, clearVars
<1>2. FreshInv'
  BY AwaitsLess DEF BaseInv, FreshInv
<1>3. RemovalInv'
  BY DEF BaseInv, RemovalInv, clearVars
<1> QED  BY <1>1, <1>2, <1>3 DEF BaseInv

\* Nothing happens to the directories.
LEMMA SameDirs ==
    ASSUME BaseInv, NEW w \in Workers,
           WorkersOK', ProgressInv', Alone(w), Advances(w),
           UNCHANGED <<program, dirVars, clearVars>>, overlapped' \in BOOLEAN,
           pc[w] # "stopped", pc[w] \notin Building \/ pc'[w] = "stopped"
    PROVE  BaseInv'
<1>1. DirsOK'
  BY DEF BaseInv, TypeOK, DirsOK, dirVars
<1>2. NoOrphans'
  <2> SUFFICES ASSUME NEW b \in Builds, entry[b] # None
               PROVE  pc'[b[1]] = "stopped" \/ (pc'[b[1]] \in Building /\ Temp(b[1])' = b)
    BY DEF NoOrphans, Building, dirVars
  <2>1. pc[b[1]] = "stopped" \/ (pc[b[1]] \in Building /\ Temp(b[1]) = b)
    BY DEF BaseInv, NoOrphans, Building
  <2>2. CASE b[1] # w
    BY <2>1, <2>2 DEF Alone, Temp, Key, Builds
  <2>3. CASE b[1] = w
    BY <2>1, <2>3
  <2> QED  BY <2>2, <2>3
<1> QED  BY <1>1, <1>2, WorkerBase DEF dirVars

\* The temporary directory of w is made, and filled.
LEMMA TempMade ==
    ASSUME BaseInv, NEW w \in Workers, pc[w] \in {"mkdtemp", "venv", "install"},
           WorkersOK', ProgressInv', Alone(w), Advances(w),
           UNCHANGED <<program, clearVars>>, overlapped' \in BOOLEAN,
           todo' = todo, pc'[w] \in Building, schemeDir',
           entry' = [entry EXCEPT ![Temp(w)] = Temp(w)],
           parts' \in [Builds -> SUBSET Part],
           \A b \in Builds : b # Temp(w) => parts'[b] = parts[b]
    PROVE  BaseInv'
<1>1. Temp(w) \in Builds /\ Temp(w)[1] = w /\ Temp(w)[3] = Len(todo[w])
  BY KeyInHand DEF BaseInv, Temp
<1>2. DirsOK'
  BY <1>1 DEF BaseInv, TypeOK, DirsOK, Names
<1>3. NoOrphans'
  <2> SUFFICES ASSUME NEW b \in Builds, entry'[b] # None
               PROVE  pc'[b[1]] = "stopped" \/ (pc'[b[1]] \in Building /\ Temp(b[1])' = b)
    BY DEF NoOrphans, Building
  <2>1. b = Temp(w) \/ entry[b] # None
    BY DEF BaseInv, TypeOK, Names
  <2>2. CASE b = Temp(w)
    BY <1>1, <2>2 DEF Temp, Key
  <2>3. CASE b # Temp(w)
    <3>1. pc[b[1]] = "stopped" \/ (pc[b[1]] \in Building /\ Temp(b[1]) = b)
      BY <2>1, <2>3 DEF BaseInv, NoOrphans, Building
    <3>2. b[1] # w
      BY <2>3, <3>1
    <3> QED  BY <3>1, <3>2 DEF Alone, Temp, Key, Builds
  <2> QED  BY <2>2, <2>3
<1>4. \A b \in Builds : Unmade(b)' => parts'[b] \in {parts[b], {}}
  <2> SUFFICES ASSUME NEW b \in Builds, Unmade(b)', parts'[b] # parts[b]
               PROVE  FALSE
    OBVIOUS
  <2>1. b = Temp(w)
    BY DEF BaseInv, TypeOK
  <2>2. Len(todo[w]) \in Nat
    BY DEF BaseInv, TypeOK
  <2> QED  BY <1>1, <2>1, <2>2 DEF Unmade, AwaitsStage, Preparing, Building
<1>5. \A b \in Builds : entry'[b[2]] = entry[b[2]]
  BY <1>1, NoneAssumption DEF BaseInv, TypeOK, Builds, Names
<1>6. entry[Temp(w)[2]] # Temp(w)
  BY <1>1 DEF BaseInv, FreshInv, Unpublished, AwaitsStage, Preparing, Building
<1>7. \A b \in Builds : b # Temp(w) => entry'[b] = entry[b]
  BY <1>1 DEF BaseInv, TypeOK, Names
<1> QED  BY <1>2, <1>3, <1>4, <1>5, <1>6, <1>7, WorkerBase

\* The temporary directory of w is discarded.
LEMMA TempDropped ==
    ASSUME BaseInv, NEW w \in Workers, pc[w] # "done",
           WorkersOK', ProgressInv', Alone(w), Advances(w),
           UNCHANGED <<program, clearVars, schemeDir>>, overlapped' \in BOOLEAN,
           pc[w] # "stopped", DropTemp(w)
    PROVE  BaseInv'
<1>1. Temp(w) \in Builds /\ Temp(w)[1] = w
  BY KeyInHand DEF BaseInv, Temp
<1>2. DirsOK'
  BY <1>1 DEF BaseInv, TypeOK, DirsOK, DropTemp, Names
<1>3. NoOrphans'
  <2> SUFFICES ASSUME NEW b \in Builds, entry'[b] # None
               PROVE  pc'[b[1]] = "stopped" \/ (pc'[b[1]] \in Building /\ Temp(b[1])' = b)
    BY DEF NoOrphans, Building
  <2>1. b # Temp(w) /\ entry[b] # None
    BY <1>1 DEF BaseInv, TypeOK, DropTemp, Names
  <2>2. pc[b[1]] = "stopped" \/ (pc[b[1]] \in Building /\ Temp(b[1]) = b)
    BY <2>1 DEF BaseInv, NoOrphans, Building
  <2>3. b[1] \in Workers
    BY DEF Builds
  <2>4. CASE b[1] # w
    BY <2>2, <2>3, <2>4 DEF Alone, Temp, Key, Building
  <2>5. CASE b[1] = w
    BY <2>1, <2>2, <2>5
  <2> QED  BY <2>4, <2>5
<1>4. \A b \in Builds : parts'[b] \in {parts[b], {}}
  BY <1>1 DEF BaseInv, TypeOK, DropTemp
<1>5. \A b \in Builds : entry'[b[2]] = entry[b[2]]
  BY <1>1, NoneAssumption DEF BaseInv, TypeOK, Builds, Names, DropTemp
<1>6. \A b \in Builds : entry'[b] # None => entry[b] # None
  BY <1>1 DEF BaseInv, TypeOK, Names, DropTemp
<1> QED  BY <1>2, <1>3, <1>4, <1>5, <1>6, WorkerBase

\* The temporary directory of w becomes the slot of its key.
LEMMA TempMoved ==
    ASSUME BaseInv, NEW w \in Workers, pc[w] = "replace",
           WorkersOK', ProgressInv', Alone(w), Advances(w),
           UNCHANGED <<program, clearVars, todo, parts, schemeDir>>, overlapped' \in BOOLEAN,
           entry[Temp(w)] = Temp(w), pc'[w] = "check",
           entry' = [entry EXCEPT ![Key(w)] = Temp(w), ![Temp(w)] = None]
    PROVE  BaseInv'
<1>1. /\ Key(w) \in Keys /\ Temp(w) \in Builds /\ Len(todo[w]) \in Nat
      /\ Temp(w)[1] = w /\ Temp(w)[2] = Key(w) /\ Temp(w)[3] = Len(todo[w])
  BY KeyInHand, MaxHooksAssumption DEF BaseInv, Temp
<1>2. /\ entry \in [Names -> Builds \cup {None}] /\ Keys \subseteq Names /\ Builds \subseteq Names
      /\ Keys \cap Builds = {} /\ None \notin Builds
  BY NoneAssumption DEF BaseInv, TypeOK, Names
<1>3. /\ entry' \in [Names -> Builds \cup {None}]
      /\ entry'[Key(w)] = Temp(w) /\ entry'[Temp(w)] = None
      /\ \A n \in Names : n \notin {Key(w), Temp(w)} => entry'[n] = entry[n]
  BY <1>1, <1>2
<1>4. schemeDir
  BY <1>1, <1>2 DEF BaseInv, TypeOK
<1>5. DirsOK'
  BY <1>1, <1>2, <1>3, <1>4 DEF BaseInv, TypeOK, DirsOK
<1>6. NoOrphans'
  <2> SUFFICES ASSUME NEW b \in Builds, entry'[b] # None
               PROVE  pc'[b[1]] = "stopped" \/ (pc'[b[1]] \in Building /\ Temp(b[1])' = b)
    BY DEF NoOrphans, Building
  <2>1. b # Temp(w) /\ entry[b] # None
    BY <1>1, <1>2, <1>3
  <2>2. pc[b[1]] = "stopped" \/ (pc[b[1]] \in Building /\ Temp(b[1]) = b)
    BY <2>1 DEF BaseInv, NoOrphans, Building
  <2>3. b[1] # w /\ b[1] \in Workers
    BY <2>1, <2>2 DEF Builds
  <2> QED  BY <2>2, <2>3 DEF Alone, Temp, Key, Building
<1>7. \A b \in Builds : Unpublished(b)' /\ entry'[b[2]] = b => entry[b[2]] = b
  <2> SUFFICES ASSUME NEW b \in Builds, Unpublished(b)', entry'[b[2]] = b, entry[b[2]] # b
               PROVE  FALSE
    OBVIOUS
  <2>1. b = Temp(w)
    BY <1>1, <1>2, <1>3 DEF Builds
  <2> QED  BY <1>1, <2>1 DEF Unpublished, AwaitsStage, Preparing, Building
<1>8. \A b \in Builds : entry'[b] # None /\ entry'[b[2]] = b => entry[b] # None /\ entry[b[2]] = b
  BY <1>1, <1>2, <1>3 DEF Builds
<1> QED  BY <1>5, <1>6, <1>7, <1>8, WorkerBase

-----------------------------------------------------------------------------
(* The base invariant, action by action. *)

\* At the start nothing is there.
LEMMA InitBase == Init => BaseInv
<1> SUFFICES ASSUME Init  PROVE BaseInv
  OBVIOUS
<1>1. \A w \in Workers : program[w].keys \in Seq(Keys) /\ Len(program[w].keys) <= MaxHooks
  BY CastsAssumption DEF Init, Program
<1>2. /\ todo \in [Workers -> Seq(Keys)]
      /\ \A w \in Workers : Len(todo[w]) <= MaxHooks
      /\ pc = [w \in Workers |-> IF todo[w] = <<>> THEN "done" ELSE "idle"]
  BY <1>1 DEF Init
<1>3. TypeOK
  <2>1. removal \in [name : Names \cup {None}, dir : Builds \cup {None}, left : SUBSET Part]
    BY DEF Init, NoRemoval
  <2>2. targets \in SUBSET Names /\ parts \in [Builds -> SUBSET Part]
        /\ entry \in [Names -> Builds \cup {None}] /\ \A n \in Names : entry[n] = None
    BY DEF Init
  <2> QED  BY <1>2, <2>1, <2>2 DEF Init, TypeOK, Stages
<1>4. ProgressInv
  BY <1>2 DEF ProgressInv
<1>5. NoOrphans /\ FreshInv
  BY NoneAssumption DEF Init, NoOrphans, FreshInv, Names, Builds
<1> QED  BY <1>3, <1>4, <1>5 DEF BaseInv, RemovalInv, Init

\* Steps that leave the directories alone.
LEMMA GotoBase ==
    ASSUME BaseInv, NEW w \in Workers, pc[w] \notin {"done", "stopped"},
           NEW stage \in Stages \ {"done"}, Goto(w, stage),
           UNCHANGED <<program, todo, outcome, dirVars, clearVars>>, overlapped' \in BOOLEAN,
           pc[w] \notin Building \/ stage = "stopped",
           stage \in Preparing => pc[w] \in Preparing,
           stage \notin Building
    PROVE  BaseInv'
<1>1. WorkersOK' /\ ProgressInv' /\ Alone(w) /\ pc'[w] = stage
  BY GotoMoves DEF BaseInv
<1> QED  BY <1>1, SameDirs DEF Advances

LEMMA SettleBase ==
    ASSUME BaseInv, NEW w \in Workers, pc[w] \notin {"done", "stopped"}, pc[w] \notin Building,
           NEW o \in Outcomes, Settle(w, o),
           UNCHANGED <<program, dirVars, clearVars, overlapped>>
    PROVE  BaseInv'
<1>1. /\ WorkersOK' /\ ProgressInv' /\ Alone(w)
      /\ Len(todo'[w]) = Len(todo[w]) - 1
  BY SettleMoves DEF BaseInv
<1>2. overlapped' \in BOOLEAN /\ Len(todo[w]) \in Nat
  BY DEF BaseInv, TypeOK
<1> QED  BY <1>1, <1>2, SameDirs DEF Advances

\* The steps that only read.
LEMMA QuietStepBase ==
    ASSUME BaseInv, NEW w \in Workers, Begin(w) \/ Explain(w) \/ PinFails(w) \/ Resolve(w)
           \/ Check(w) \/ Spawn(w) \/ Exit(w) \/ Stop(w)
    PROVE  BaseInv'
<1>1. overlapped \in BOOLEAN
  BY DEF BaseInv, TypeOK
<1>2. CASE Begin(w)
  <2>1. PICK stage \in {"explain", "resolve"} : Goto(w, stage)
    BY <1>2 DEF Begin
  <2>2. pc[w] = "idle" /\ overlapped' \in BOOLEAN
        /\ UNCHANGED <<program, todo, outcome, dirVars, clearVars>>
    BY <1>1, <1>2 DEF Begin
  <2> QED  BY <2>1, <2>2, GotoBase DEF Stages, Preparing, Building
<1>3. CASE Explain(w)
  <2>1. /\ pc[w] = "explain" /\ UNCHANGED <<program, dirVars, clearVars, overlapped>>
        /\ Settle(w, "cached") \/ (Goto(w, "resolve") /\ UNCHANGED <<todo, outcome>>)
    BY <1>3 DEF Explain
  <2>2. CASE Settle(w, "cached")
    BY <2>1, <2>2, SettleBase DEF Outcomes, Building
  <2>3. CASE Goto(w, "resolve") /\ UNCHANGED <<todo, outcome>>
    BY <1>1, <2>1, <2>3, GotoBase DEF Stages, Preparing, Building
  <2> QED  BY <2>1, <2>2, <2>3
<1>4. CASE PinFails(w)
  BY <1>4, SettleBase DEF PinFails, Outcomes, Building
<1>5. CASE Resolve(w)
  <2>1. /\ pc[w] = "resolve" /\ UNCHANGED <<program, dirVars, clearVars, overlapped>>
        /\ Settle(w, "offline") \/ (Goto(w, "lookup") /\ UNCHANGED <<todo, outcome>>)
    BY <1>5 DEF Resolve
  <2>2. CASE Settle(w, "offline")
    BY <2>1, <2>2, SettleBase DEF Outcomes, Building
  <2>3. CASE Goto(w, "lookup") /\ UNCHANGED <<todo, outcome>>
    BY <1>1, <2>1, <2>3, GotoBase DEF Stages, Preparing, Building
  <2> QED  BY <2>1, <2>2, <2>3
<1>6. CASE Check(w)
  <2>1. /\ pc[w] = "check" /\ UNCHANGED <<program, dirVars, clearVars, overlapped>>
        /\ \/ \E o \in {"notool", "built"} : Settle(w, o)
           \/ Goto(w, "spawn") /\ UNCHANGED <<todo, outcome>>
    BY <1>6 DEF Check
  <2>2. ASSUME NEW o \in {"notool", "built"}, Settle(w, o)
        PROVE  BaseInv'
    BY <2>1, <2>2, SettleBase DEF Outcomes, Building
  <2>3. CASE Goto(w, "spawn") /\ UNCHANGED <<todo, outcome>>
    BY <1>1, <2>1, <2>3, GotoBase DEF Stages, Preparing, Building
  <2> QED  BY <2>1, <2>2, <2>3
<1>7. CASE Spawn(w)
  <2>1. /\ pc[w] = "spawn" /\ UNCHANGED <<program, dirVars, clearVars, overlapped>>
        /\ Settle(w, "broken") \/ (Goto(w, "running") /\ UNCHANGED <<todo, outcome>>)
    BY <1>7 DEF Spawn
  <2>2. CASE Settle(w, "broken")
    BY <2>1, <2>2, SettleBase DEF Outcomes, Building
  <2>3. CASE Goto(w, "running") /\ UNCHANGED <<todo, outcome>>
    BY <1>1, <2>1, <2>3, GotoBase DEF Stages, Preparing, Building
  <2> QED  BY <2>1, <2>2, <2>3
<1>8. CASE Exit(w)
  <2>1. /\ pc[w] = "running" /\ UNCHANGED <<program, dirVars, clearVars, overlapped>>
        /\ \E o \in {"ran", "broken"} : Settle(w, o)
    BY <1>8 DEF Exit
  <2> QED  BY <2>1, SettleBase DEF Outcomes, Building
<1>9. CASE Stop(w)
  BY <1>1, <1>9, GotoBase DEF Stop, Active, Stages, Preparing, Building
<1> QED
  BY <1>2, <1>3, <1>4, <1>5, <1>6, <1>7, <1>8, <1>9

LEMMA LookupBase ==
    ASSUME BaseInv, NEW w \in Workers, Lookup(w)
    PROVE  BaseInv'
<1>1. PICK stage \in {"check", "mkdtemp"} : Goto(w, stage)
  BY DEF Lookup
<1>2. /\ pc[w] = "lookup" /\ schemeDir' \in {schemeDir, TRUE}
      /\ UNCHANGED <<program, todo, outcome, entry, parts, clearVars, overlapped>>
  BY DEF Lookup
<1>3. WorkersOK' /\ ProgressInv' /\ Alone(w) /\ pc'[w] = stage
  BY <1>1, <1>2, GotoMoves DEF BaseInv, Stages
<1>4. Advances(w) /\ overlapped' \in BOOLEAN
  BY <1>2, <1>3 DEF Advances, Preparing, BaseInv, TypeOK
<1>5. DirsOK'
  BY <1>2 DEF BaseInv, TypeOK, DirsOK
<1>6. NoOrphans'
  <2> SUFFICES ASSUME NEW b \in Builds, entry[b] # None
               PROVE  pc'[b[1]] = "stopped" \/ (pc'[b[1]] \in Building /\ Temp(b[1])' = b)
    BY <1>2 DEF NoOrphans, Building
  <2>1. pc[b[1]] = "stopped" \/ (pc[b[1]] \in Building /\ Temp(b[1]) = b)
    BY DEF BaseInv, NoOrphans, Building
  <2>2. b[1] # w /\ b[1] \in Workers
    BY <1>2, <2>1 DEF Builds, Building
  <2> QED  BY <1>3, <2>1, <2>2 DEF Alone, Temp, Key
<1> QED
  BY <1>2, <1>3, <1>4, <1>5, <1>6, WorkerBase

LEMMA MakeTempBase ==
    ASSUME BaseInv, NEW w \in Workers, MakeTemp(w)
    PROVE  BaseInv'
<1>1. /\ pc[w] = "mkdtemp" /\ overlapped' \in BOOLEAN /\ Len(todo[w]) \in 1..MaxHooks
      /\ UNCHANGED <<program, parts, schemeDir, clearVars, overlapped>>
  BY KeyInHand DEF MakeTemp, BaseInv, TypeOK
<1>2. CASE schemeDir
  <2>1. /\ entry' = [entry EXCEPT ![Temp(w)] = Temp(w)]
        /\ Goto(w, "venv") /\ UNCHANGED <<todo, outcome>>
    BY <1>2 DEF MakeTemp
  <2>2. WorkersOK' /\ ProgressInv' /\ Alone(w) /\ pc'[w] = "venv"
    BY <1>1, <2>1, GotoMoves DEF BaseInv, Stages
  <2>3. parts' \in [Builds -> SUBSET Part] /\ parts' = parts /\ schemeDir'
    BY <1>1, <1>2 DEF BaseInv, TypeOK
  <2>4. Advances(w)
    BY <1>1, <2>1, <2>2 DEF Advances, Preparing, Building
  <2> QED
    BY <1>1, <1>2, <2>1, <2>2, <2>3, <2>4, TempMade DEF Building
<1>3. CASE ~schemeDir
  <2>1. Raise(w, "raised") /\ UNCHANGED entry
    BY <1>3 DEF MakeTemp
  <2>2. WorkersOK' /\ ProgressInv' /\ Alone(w) /\ Len(todo'[w]) = 0
    BY <1>1, <2>1, RaiseMoves DEF BaseInv, Outcomes
  <2>3. Advances(w)
    BY <1>1, <2>2 DEF Advances
  <2> QED
    BY <1>1, <2>1, <2>2, <2>3, SameDirs DEF dirVars, Building
<1> QED  BY <1>2, <1>3

LEMMA CreateVenvBase ==
    ASSUME BaseInv, NEW w \in Workers, CreateVenv(w)
    PROVE  BaseInv'
<1>1. /\ pc[w] = "venv" /\ schemeDir' /\ Goto(w, "install")
      /\ entry' = [entry EXCEPT ![Temp(w)] = Temp(w)]
      /\ parts' = [parts EXCEPT ![Temp(w)] = @ \cup {"bin"}]
      /\ UNCHANGED <<program, todo, outcome, clearVars, overlapped>>
  BY DEF CreateVenv
<1>2. Temp(w) \in Builds /\ overlapped' \in BOOLEAN
  BY <1>1, KeyInHand DEF BaseInv, TypeOK
<1>3. parts' \in [Builds -> SUBSET Part] /\ \A b \in Builds : b # Temp(w) => parts'[b] = parts[b]
  BY <1>1, <1>2 DEF BaseInv, TypeOK, Part
<1>4. WorkersOK' /\ ProgressInv' /\ Alone(w) /\ pc'[w] = "install"
  BY <1>1, GotoMoves DEF BaseInv, Stages
<1>5. Advances(w)
  BY <1>1, <1>4 DEF Advances, Preparing, Building
<1> QED
  BY <1>1, <1>2, <1>3, <1>4, <1>5, TempMade DEF Building

\* The error of a build is recorded, and its directory discarded.
LEMMA SettleDropBase ==
    ASSUME BaseInv, NEW w \in Workers, pc[w] \in Building, NEW o \in Outcomes,
           DropTemp(w), Settle(w, o) \/ Raise(w, o),
           UNCHANGED <<program, schemeDir, clearVars, overlapped>>
    PROVE  BaseInv'
<1>1. pc[w] \notin {"done", "stopped"} /\ overlapped' \in BOOLEAN /\ Len(todo[w]) \in 1..MaxHooks
  BY KeyInHand DEF BaseInv, TypeOK, Building
<1>2. WorkersOK' /\ ProgressInv' /\ Alone(w) /\ Len(todo'[w]) < Len(todo[w])
  <2>1. CASE Settle(w, o)
    <3>1. WorkersOK' /\ ProgressInv' /\ Alone(w) /\ Len(todo'[w]) = Len(todo[w]) - 1
      BY <1>1, <2>1, SettleMoves DEF BaseInv
    <3> QED  BY <1>1, <3>1, MaxHooksAssumption
  <2>2. CASE Raise(w, o)
    <3>1. WorkersOK' /\ ProgressInv' /\ Alone(w) /\ Len(todo'[w]) = 0
      BY <1>1, <2>2, RaiseMoves DEF BaseInv
    <3> QED  BY <1>1, <3>1, MaxHooksAssumption
  <2> QED  BY <2>1, <2>2
<1> QED
  BY <1>1, <1>2, TempDropped DEF Advances

LEMMA InstallBase ==
    ASSUME BaseInv, NEW w \in Workers, Install(w)
    PROVE  BaseInv'
<1>1. pc[w] = "install" /\ UNCHANGED <<program, schemeDir, clearVars, overlapped>>
  BY DEF Install
<1>2. CASE entry[Temp(w)] = Temp(w) /\ "bin" \in parts[Temp(w)]
  <2>1. /\ parts' = [parts EXCEPT ![Temp(w)] = @ \cup BuiltParts(Key(w))]
        /\ Goto(w, "replace") /\ UNCHANGED <<todo, outcome, entry>>
    BY <1>2 DEF Install
  <2>2. Temp(w) \in Builds /\ Temp(w) \in Names /\ overlapped' \in BOOLEAN
    BY <1>1, KeyInHand DEF BaseInv, TypeOK, Names
  <2>3. entry' = [entry EXCEPT ![Temp(w)] = Temp(w)] /\ schemeDir'
    BY <1>1, <1>2, <2>1, <2>2, NoneAssumption DEF BaseInv, TypeOK
  <2>4. parts' \in [Builds -> SUBSET Part] /\ \A b \in Builds : b # Temp(w) => parts'[b] = parts[b]
    BY <2>1, <2>2 DEF BaseInv, TypeOK, BuiltParts, Part
  <2>5. WorkersOK' /\ ProgressInv' /\ Alone(w) /\ pc'[w] = "replace"
    BY <1>1, <2>1, GotoMoves DEF BaseInv, Stages
  <2>6. Advances(w)
    BY <1>1, <2>1, <2>5 DEF Advances, Preparing, Building
  <2> QED
    BY <1>1, <2>1, <2>2, <2>3, <2>4, <2>5, <2>6, TempMade DEF Building
<1>3. CASE ~(entry[Temp(w)] = Temp(w) /\ "bin" \in parts[Temp(w)])
  BY <1>1, <1>3, SettleDropBase DEF Install, Building, Outcomes
<1> QED  BY <1>2, <1>3

LEMMA BuildErrorBase ==
    ASSUME BaseInv, NEW w \in Workers, BuildFails(w) \/ DownloadFails(w)
    PROVE  BaseInv'
  BY SettleDropBase DEF BuildFails, DownloadFails, Building, Outcomes

LEMMA InterruptBase ==
    ASSUME BaseInv, NEW w \in Workers, Interrupt(w)
    PROVE  BaseInv'
<1>1. /\ pc[w] \in {"venv", "install"} /\ DropTemp(w) /\ Goto(w, "interrupted")
      /\ UNCHANGED <<program, todo, outcome, schemeDir, clearVars, overlapped>>
      /\ overlapped' \in BOOLEAN
  BY DEF Interrupt, BaseInv, TypeOK
<1>2. WorkersOK' /\ ProgressInv' /\ Alone(w) /\ pc'[w] = "interrupted"
  BY <1>1, GotoMoves DEF BaseInv, Stages
<1>3. Advances(w)
  BY <1>1, <1>2 DEF Advances, Preparing, Building
<1> QED
  BY <1>1, <1>2, <1>3, TempDropped

\* What is left of the temporary directory is left to nobody.
LEMMA StopCleaningBase ==
    ASSUME BaseInv, NEW w \in Workers, StopCleaning(w)
    PROVE  BaseInv'
<1>1. /\ pc[w] \in Building /\ Goto(w, "stopped")
      /\ UNCHANGED <<program, todo, outcome, entry, schemeDir, clearVars, overlapped>>
      /\ overlapped' \in BOOLEAN
  BY DEF StopCleaning, DropPartly, BaseInv, TypeOK, Building
<1>2. Temp(w) \in Builds /\ Temp(w)[1] = w /\ Temp(w)[3] = Len(todo[w]) /\ Len(todo[w]) \in Nat
  BY <1>1, KeyInHand, MaxHooksAssumption DEF BaseInv, Temp, Building
<1>3. PICK left \in SUBSET parts[Temp(w)] : parts' = [parts EXCEPT ![Temp(w)] = left]
  BY DEF StopCleaning, DropPartly
<1>4. WorkersOK' /\ ProgressInv' /\ Alone(w) /\ pc'[w] = "stopped"
  BY <1>1, GotoMoves DEF BaseInv, Stages, Building
<1>5. Advances(w)
  BY <1>1, <1>4 DEF Advances, Preparing, Building
<1>6. parts' \in [Builds -> SUBSET Part] /\ \A b \in Builds : b # Temp(w) => parts'[b] = parts[b]
  BY <1>2, <1>3 DEF BaseInv, TypeOK
<1>7. DirsOK'
  BY <1>1, <1>6 DEF BaseInv, TypeOK, DirsOK
<1>8. NoOrphans'
  <2> SUFFICES ASSUME NEW b \in Builds, entry[b] # None
               PROVE  pc'[b[1]] = "stopped" \/ (pc'[b[1]] \in Building /\ Temp(b[1])' = b)
    BY <1>1 DEF NoOrphans, Building
  <2>1. pc[b[1]] = "stopped" \/ (pc[b[1]] \in Building /\ Temp(b[1]) = b)
    BY DEF BaseInv, NoOrphans, Building
  <2> QED  BY <1>1, <1>4, <2>1 DEF Alone, Temp, Key, Builds
<1>9. \A b \in Builds : Unmade(b)' => parts'[b] \in {parts[b], {}}
  <2> SUFFICES ASSUME NEW b \in Builds, Unmade(b)', b = Temp(w)
               PROVE  FALSE
    BY <1>6
  <2> QED  BY <1>1, <1>2, <1>4 DEF Unmade, AwaitsStage, Preparing
<1> QED  BY <1>1, <1>4, <1>5, <1>7, <1>8, <1>9, WorkerBase

LEMMA ReplaceBase ==
    ASSUME BaseInv, NEW w \in Workers, Replace(w)
    PROVE  BaseInv'
<1>1. /\ pc[w] = "replace" /\ Goto(w, "check") /\ overlapped' \in BOOLEAN
      /\ UNCHANGED <<program, todo, outcome, schemeDir, clearVars, overlapped>>
  BY DEF Replace, BaseInv, TypeOK
<1>2. WorkersOK' /\ ProgressInv' /\ Alone(w) /\ pc'[w] = "check"
  BY <1>1, GotoMoves DEF BaseInv, Stages
<1>3. Advances(w)
  BY <1>1, <1>2 DEF Advances, Preparing, Building
<1>4. CASE entry[Temp(w)] = Temp(w) /\ MayReplace(Key(w))
  <2>1. entry' = [entry EXCEPT ![Key(w)] = Temp(w), ![Temp(w)] = None] /\ UNCHANGED parts
    BY <1>4 DEF Replace
  <2> QED
    BY <1>1, <1>2, <1>3, <1>4, <2>1, TempMoved
<1>5. CASE ~(entry[Temp(w)] = Temp(w) /\ MayReplace(Key(w)))
  <2>1. DropTemp(w)
    BY <1>5 DEF Replace
  <2> QED
    BY <1>1, <1>2, <1>3, <2>1, TempDropped
<1> QED  BY <1>4, <1>5

LEMMA WorkerStepBase ==
    ASSUME BaseInv, NEW w \in Workers, Begin(w) \/ Work(w) \/ Fails(w)
    PROVE  BaseInv'
  BY QuietStepBase, LookupBase, MakeTempBase, CreateVenvBase, InstallBase, ReplaceBase,
     BuildErrorBase, InterruptBase, StopCleaningBase
  DEF Work, Fails

\* A clear takes things away, and nothing else.
LEMMA ClearBase ==
    ASSUME BaseInv, UNCHANGED workerVars, TypeOK', RemovalInv',
           \A n \in Names : entry'[n] \in {entry[n], None},
           \A b \in Builds : parts'[b] \subseteq parts[b]
    PROVE  BaseInv'
<1>1. Builds \subseteq Names /\ Keys \subseteq Names /\ None \notin Builds
  BY NoneAssumption DEF Names
<1>2. ProgressInv'
  BY DEF BaseInv, ProgressInv, workerVars
<1>3. NoOrphans'
  BY <1>1 DEF BaseInv, NoOrphans, workerVars, Temp, Key
<1>4. FreshInv'
  <2>1. \A b \in Builds : (Unmade(b)' <=> Unmade(b)) /\ (Unpublished(b)' <=> Unpublished(b))
    BY DEF Unmade, Unpublished, AwaitsStage, workerVars
  <2>2. \A b \in Builds : b[2] \in Names
    BY <1>1 DEF Builds
  <2> QED  BY <1>1, <2>1, <2>2 DEF BaseInv, FreshInv
<1> QED  BY <1>2, <1>3, <1>4 DEF BaseInv

\* The steps of a clear.
LEMMA ClearStepBase ==
    ASSUME BaseInv, ClearStart \/ Sweep \/ ClearKilled
    PROVE  BaseInv'
<1>1. /\ TypeOK /\ RemovalInv /\ NoRemoval \in [name : {None}, dir : {None}, left : {{}}]
      /\ {None} \subseteq Names \cup {None} /\ {None} \subseteq Builds \cup {None}
  BY DEF BaseInv, NoRemoval
<1>2. CASE ClearStart
  <2>1. TypeOK' /\ RemovalInv'
    BY <1>1, <1>2 DEF ClearStart, TypeOK, RemovalInv, Listed, workerVars, dirVars
  <2> QED  BY <1>2, <2>1, ClearBase DEF ClearStart, dirVars
<1>3. ASSUME NEW n \in Names, Visit(n)
      PROVE  BaseInv'
  <2>1. RemovalInv' /\ removal' \in [name : Names \cup {None}, dir : Builds \cup {None}, left : SUBSET Part]
    BY <1>1, <1>3 DEF Visit, TypeOK, RemovalInv, NoRemoval
  <2>2. TypeOK'
    BY <1>1, <1>3, <2>1 DEF Visit, TypeOK, workerVars, dirVars
  <2> QED  BY <1>3, <2>1, <2>2, ClearBase DEF Visit, dirVars
<1>4. CASE Measure
  <2>1. removal.name \in Names
    BY <1>1, <1>4 DEF Measure, RemovalInv
  <2>2. RemovalInv' /\ removal' \in [name : Names \cup {None}, dir : Builds \cup {None}, left : SUBSET Part]
    <3> DEFINE d == entry[removal.name]
    <3>1. CASE d # None
      <4>1. clear' = "rmtree" /\ removal' = [removal EXCEPT !.dir = d, !.left = parts[d]]
        BY <1>4, <3>1 DEF Measure
      <4>2. d \in Builds /\ parts[d] \in SUBSET Part
        BY <1>1, <2>1, <3>1 DEF TypeOK
      <4> HIDE DEF d
      <4> QED  BY <1>1, <2>1, <4>1, <4>2 DEF TypeOK, RemovalInv
    <3>2. CASE d = None
      BY <1>1, <1>4, <3>2 DEF Measure, RemovalInv, NoRemoval
    <3> QED  BY <3>1, <3>2
  <2>3. TypeOK'
    BY <1>1, <1>4, <2>2 DEF Measure, TypeOK, workerVars, dirVars
  <2> QED  BY <1>4, <2>2, <2>3, ClearBase DEF Measure, dirVars
<1>5. ASSUME NEW p \in Part, RemovePart(p)
      PROVE  BaseInv'
  <2>1. removal.dir \in Builds /\ UNCHANGED <<workerVars, entry, schemeDir, clear, targets, overlapped>>
    BY <1>1, <1>5 DEF RemovePart, RemovalInv
  <2>2. RemovalInv' /\ removal' \in [name : Names \cup {None}, dir : Builds \cup {None}, left : SUBSET Part]
    BY <1>1, <1>5 DEF RemovePart, TypeOK, RemovalInv
  <2>3. parts' \in [Builds -> SUBSET Part] /\ \A b \in Builds : parts'[b] \subseteq parts[b]
    BY <1>1, <1>5, <2>1 DEF RemovePart, TypeOK
  <2>4. TypeOK'
    BY <1>1, <2>1, <2>2, <2>3 DEF TypeOK, workerVars
  <2> QED  BY <2>1, <2>2, <2>3, <2>4, ClearBase
<1>6. CASE RemoveDir
  <2>1. removal.name \in Names /\ UNCHANGED <<workerVars, parts, schemeDir, targets, overlapped>>
    BY <1>1, <1>6 DEF RemoveDir, RemovalInv
  <2>2. RemovalInv' /\ removal' \in [name : Names \cup {None}, dir : Builds \cup {None}, left : SUBSET Part]
    BY <1>1, <1>6 DEF RemoveDir, TypeOK, RemovalInv
  <2>3. entry' \in [Names -> Builds \cup {None}] /\ \A n \in Names : entry'[n] \in {entry[n], None}
    BY <1>1, <1>6, <2>1 DEF RemoveDir, TypeOK
  <2>4. TypeOK'
    BY <1>1, <1>6, <2>1, <2>2, <2>3 DEF RemoveDir, TypeOK, workerVars
  <2> QED  BY <2>1, <2>2, <2>3, <2>4, ClearBase
<1>7. CASE SweepEnds \/ ClearKilled
  <2>1. RemovalInv' /\ removal' \in [name : Names \cup {None}, dir : Builds \cup {None}, left : SUBSET Part]
    BY <1>1, <1>7 DEF SweepEnds, ClearKilled, TypeOK, RemovalInv
  <2>2. TypeOK'
    BY <1>1, <1>7, <2>1 DEF SweepEnds, ClearKilled, TypeOK, workerVars, dirVars
  <2> QED  BY <1>7, <2>1, <2>2, ClearBase DEF SweepEnds, ClearKilled, dirVars
<1>8. CASE RemoveScheme
  <2>1. TypeOK' /\ RemovalInv'
    BY <1>1, <1>8 DEF RemoveScheme, TypeOK, RemovalInv, workerVars, SchemeDirEmpty
  <2> QED  BY <1>8, <2>1, ClearBase DEF RemoveScheme
<1> QED
  BY <1>2, <1>3, <1>4, <1>5, <1>6, <1>7, <1>8 DEF Sweep

LEMMA StepBase == BaseInv /\ [Next]_vars => BaseInv'
<1> SUFFICES ASSUME BaseInv, [Next]_vars  PROVE BaseInv'
  OBVIOUS
<1>1. CASE UNCHANGED vars
  BY <1>1, ClearBase DEF vars, clearVars, dirVars, BaseInv, TypeOK, RemovalInv, workerVars
<1> QED
  BY <1>1, WorkerStepBase, ClearStepBase DEF Next

(***************************************************************************)
(* The cache directory keeps its shape, whatever workers and a clear do: a *)
(* name leads to a build directory of its own key, and env-v1 exists as    *)
(* long as anything is in it.                                              *)
(***************************************************************************)
THEOREM CacheTypeCorrect == Spec => []TypeOK
  BY InitBase, StepBase, PTL DEF Spec, BaseInv

LEMMA AlwaysBase == Spec => []BaseInv
  BY InitBase, StepBase, PTL DEF Spec

(***************************************************************************)
(* publish_atomically leaves no temporary directory behind when a build or *)
(* a download fails, a race is lost or Control-C comes during build(), and *)
(* whenever a clear runs; only a process does that is killed, or           *)
(* interrupted in the statements around build().                           *)
(***************************************************************************)
THEOREM NeverAnOrphan == Spec => []NoOrphans
  BY AlwaysBase, PTL DEF BaseInv

-----------------------------------------------------------------------------
(* No slot is swapped. *)

\* Of all steps, only a rename and the end of a removal touch a slot, and both want it empty.
LEMMA SwapStep ==
    ASSUME BaseInv, [Next]_vars, NEW k \in Keys, entry[k] # None, parts[entry[k]] # {}
    PROVE  entry'[k] = entry[k]
<1>1. k \in Names /\ k \notin Builds
  BY NoneAssumption DEF Names
<1>2. ASSUME NEW w \in Workers, pc[w] # "done",
             entry' = [entry EXCEPT ![Temp(w)] = Temp(w)] \/ DropTemp(w)
      PROVE  entry'[k] = entry[k]
  <2>1. Temp(w) # k
    BY <1>1, <1>2, KeyInHand DEF BaseInv
  <2> QED  BY <1>1, <1>2, <2>1 DEF BaseInv, TypeOK, DropTemp
<1>3. ASSUME NEW w \in Workers, Begin(w) \/ Work(w) \/ Fails(w)
      PROVE  entry'[k] = entry[k]
  <2>1. CASE UNCHANGED entry
    BY <2>1
  <2>2. CASE MakeTemp(w) \/ CreateVenv(w)
    BY <1>2, <2>1, <2>2 DEF MakeTemp, CreateVenv
  <2>3. CASE Install(w) \/ BuildFails(w) \/ DownloadFails(w) \/ Interrupt(w)
    BY <1>2, <2>1, <2>3 DEF Install, BuildFails, DownloadFails, Interrupt
  <2>4. CASE Replace(w)
    <3>1. CASE entry[Temp(w)] = Temp(w) /\ MayReplace(Key(w))
      <4>1. entry' = [entry EXCEPT ![Key(w)] = Temp(w), ![Temp(w)] = None] /\ pc[w] # "done"
        BY <2>4, <3>1 DEF Replace
      <4>2. Temp(w) # k /\ Key(w) # k
        BY <1>1, <3>1, <4>1, KeyInHand DEF BaseInv, MayReplace
      <4> QED  BY <1>1, <4>1, <4>2 DEF BaseInv, TypeOK
    <3>2. CASE ~(entry[Temp(w)] = Temp(w) /\ MayReplace(Key(w)))
      BY <1>2, <2>4, <3>2 DEF Replace
    <3> QED  BY <3>1, <3>2
  <2>5. CASE Begin(w) \/ Explain(w) \/ PinFails(w) \/ Resolve(w) \/ Lookup(w)
             \/ Check(w) \/ Spawn(w) \/ Exit(w) \/ Stop(w) \/ StopCleaning(w)
    BY <2>1, <2>5
    DEF Begin, Explain, PinFails, Resolve, Lookup, Check, Spawn, Exit, Stop, StopCleaning, DropPartly,
        dirVars
  <2> QED
    BY <1>3, <2>2, <2>3, <2>4, <2>5 DEF Work, Fails
<1>4. CASE RemoveDir
  BY <1>1, <1>4 DEF RemoveDir, BaseInv, TypeOK
<1>5. CASE ClearStart \/ ClearKilled
  BY <1>5 DEF ClearStart, ClearKilled, dirVars
<1>6. CASE Sweep /\ ~RemoveDir
  BY <1>6 DEF Sweep, Visit, Measure, RemovePart, SweepEnds, RemoveScheme, dirVars
<1>7. CASE UNCHANGED vars
  BY <1>7 DEF vars, dirVars
<1> QED
  BY <1>3, <1>4, <1>5, <1>6, <1>7 DEF Next, Sweep

(***************************************************************************)
(* os.replace never puts one environment in the place of another, and a    *)
(* clear removes a slot only when it is empty: what a hook runs from is    *)
(* not swapped under it.                                                   *)
(***************************************************************************)
THEOREM SlotsNeverSwapped == Spec => NeverSwapped
<1>1. BaseInv /\ [Next]_vars
      => [\A k \in Keys : entry[k] # None /\ parts[entry[k]] # {} => entry'[k] = entry[k]]_vars
  BY SwapStep
<1> QED
  BY <1>1, AlwaysBase, PTL DEF Spec, NeverSwapped

-----------------------------------------------------------------------------
(* A worker at work, with no clear in progress. *)

\* Every slot is sound, every worker has what it relies on, and no hook failed for the cache.
Calm ==
    /\ \A k \in Keys : entry[k] # None => Sound(k)
    /\ \A w \in Workers : StageInv(w)
    /\ \A w \in Workers, k \in Keys : Blameless(w, k)

\* What was reported as there is there.
Warm == \A w \in Workers, k \in Keys : outcome[w][k] \in {"built", "cached", "ran"} => entry[k] # None

\* w touches its own directories only, and fills slots with sound ones.
DirsKeep(w) ==
    /\ \A b \in Builds : b[1] # w => entry'[b] = entry[b] /\ parts'[b] = parts[b]
    /\ \A k \in Keys : entry[k] # None => entry'[k] # None
    /\ \A k \in Keys : entry'[k] # None => Sound(k)'
    /\ schemeDir => schemeDir'

\* An outcome that the state justifies.
Honest(w, o) ==
    /\ o \notin {"broken", "raised"}
    /\ o = "notool" => Key(w) \in NoTool
    /\ o \in {"built", "cached", "ran"} => entry[Key(w)] # None
Records(w) ==
    \/ outcome' = outcome
    \/ \E o \in Outcomes : Honest(w, o) /\ outcome'[w] = [outcome[w] EXCEPT ![Key(w)] = o]

\* The others still have what they rely on.
LEMMA OthersKeepStage ==
    ASSUME BaseInv, NEW w \in Workers, Alone(w), DirsKeep(w), UNCHANGED program,
           NEW v \in Workers, v # w, StageInv(v)
    PROVE  StageInv(v)'
<1>1. pc'[v] = pc[v] /\ Temp(v)' = Temp(v) /\ Key(v)' = Key(v)
  BY DEF Alone, Temp, Key
<1>2. CASE pc[v] = "done"
  BY <1>1, <1>2 DEF StageInv, Building
<1>3. CASE pc[v] # "done"
  <2>1. Temp(v) \in Builds /\ Temp(v)[1] = v /\ Key(v) \in Keys
    BY <1>3, KeyInHand DEF BaseInv, Temp
  <2>2. entry'[Temp(v)] = entry[Temp(v)] /\ parts'[Temp(v)] = parts[Temp(v)]
    BY <2>1 DEF DirsKeep
  <2>3. entry[Key(v)] # None => entry'[Key(v)] # None
    BY <2>1 DEF DirsKeep
  <2>4. schemeDir => schemeDir'
    BY DEF DirsKeep
  <2> QED
    BY <1>1, <2>2, <2>3, <2>4 DEF StageInv
<1> QED  BY <1>2, <1>3

\* A step that keeps the directories and records what the state justifies.
LEMMA WorkerCalm ==
    ASSUME BaseInv, BaseInv', Calm, NEW w \in Workers, pc[w] # "done", Alone(w),
           UNCHANGED program, DirsKeep(w), StageInv(w)', Records(w)
    PROVE  Calm' /\ (Warm => Warm')
<1>1. \A v \in Workers : StageInv(v)'
  BY OthersKeepStage DEF Calm
<1>2. \A k \in Keys : entry'[k] # None => Sound(k)'
  BY DEF DirsKeep
<1>3. CASE outcome' = outcome
  <2>1. \A v \in Workers, k \in Keys : Blameless(v, k)'
    BY <1>3 DEF Calm, Blameless
  <2>2. Warm => Warm'
    BY <1>3 DEF Warm, DirsKeep
  <2> QED  BY <1>1, <1>2, <2>1, <2>2 DEF Calm
<1>4. ASSUME NEW o \in Outcomes, Honest(w, o), outcome'[w] = [outcome[w] EXCEPT ![Key(w)] = o]
      PROVE  Calm' /\ (Warm => Warm')
  <2>1. Key(w) \in Keys
    BY KeyInHand DEF BaseInv
  <2>2. ASSUME NEW v \in Workers, NEW k \in Keys
        PROVE  outcome'[v][k] = outcome[v][k] \/ (outcome'[v][k] = o /\ k = Key(w))
    BY <1>4, <2>1 DEF Alone, BaseInv, TypeOK
  <2>3. \A v \in Workers, k \in Keys : Blameless(v, k)'
    BY <1>4, <2>2 DEF Calm, Blameless, Honest
  <2>4. Warm => Warm'
    BY <1>4, <2>2 DEF Warm, DirsKeep, Honest
  <2> QED  BY <1>1, <1>2, <2>3, <2>4 DEF Calm
<1> QED  BY <1>3, <1>4 DEF Records

\* Three ways to keep the directories.
LEMMA SameDirsKeep ==
    ASSUME Calm, NEW w \in Workers, UNCHANGED <<entry, parts>>, schemeDir => schemeDir'
    PROVE  DirsKeep(w)
  BY DEF Calm, DirsKeep, Sound

LEMMA OwnTempKeep ==
    ASSUME BaseInv, Calm, NEW w \in Workers, pc[w] \in {"mkdtemp"} \cup Building,
           \A n \in Names : n # Temp(w) => entry'[n] = entry[n],
           \A b \in Builds : b # Temp(w) => parts'[b] = parts[b],
           schemeDir => schemeDir'
    PROVE  DirsKeep(w)
<1>1. /\ Temp(w) \in Builds /\ Temp(w)[1] = w /\ Temp(w)[2] = Key(w) /\ Temp(w)[3] = Len(todo[w])
      /\ Key(w) \in Keys /\ Builds \subseteq Names /\ Keys \subseteq Names /\ Keys \cap Builds = {}
  BY KeyInHand, NoneAssumption DEF BaseInv, Temp, Names, Building
<1>2. \A k \in Keys : entry'[k] = entry[k] /\ entry[k] # Temp(w)
  <2>1. Unpublished(Temp(w))
    BY <1>1 DEF Unpublished, AwaitsStage, Preparing, Building
  <2>2. entry[Key(w)] # Temp(w)
    BY <1>1, <2>1 DEF BaseInv, FreshInv
  <2>3. ASSUME NEW k \in Keys, entry[k] = Temp(w)
        PROVE  k = Key(w)
    BY <1>1, <2>3, NoneAssumption DEF BaseInv, TypeOK
  <2> QED  BY <1>1, <2>2, <2>3
<1>3. \A k \in Keys : entry[k] # None => entry[k] \in Builds /\ parts'[entry[k]] = parts[entry[k]]
  BY <1>1, <1>2 DEF BaseInv, TypeOK
<1>4. \A k \in Keys : entry'[k] # None => Sound(k)'
  BY <1>2, <1>3 DEF Calm, Sound
<1> QED  BY <1>1, <1>2, <1>4 DEF DirsKeep

LEMMA PublishKeep ==
    ASSUME BaseInv, Calm, NEW w \in Workers, pc[w] = "replace", entry[Temp(w)] = Temp(w),
           entry' = [entry EXCEPT ![Key(w)] = Temp(w), ![Temp(w)] = None],
           UNCHANGED <<parts, schemeDir>>
    PROVE  DirsKeep(w)
<1>1. /\ Temp(w) \in Builds /\ Temp(w)[1] = w
      /\ Key(w) \in Keys /\ Builds \subseteq Names /\ Keys \subseteq Names
      /\ Keys \cap Builds = {} /\ None \notin Builds
  BY KeyInHand, NoneAssumption DEF BaseInv, Temp, Names
<1>2. /\ entry'[Key(w)] = Temp(w)
      /\ \A n \in Names : n \notin {Key(w), Temp(w)} => entry'[n] = entry[n]
  BY <1>1 DEF BaseInv, TypeOK
<1>3. parts[Temp(w)] = BuiltParts(Key(w))
  BY DEF Calm, StageInv
<1>4. \A k \in Keys : entry'[k] # None => Sound(k)'
  BY <1>1, <1>2, <1>3 DEF Calm, Sound
<1> QED  BY <1>1, <1>2, <1>4 DEF DirsKeep

\* What is recorded of a key, when it is justified.
LEMMA SettleCalm ==
    ASSUME BaseInv, BaseInv', Calm, NEW w \in Workers, pc[w] # "done", NEW o \in Outcomes,
           Settle(w, o) \/ Raise(w, o), Honest(w, o), UNCHANGED program, DirsKeep(w)
    PROVE  Calm' /\ (Warm => Warm')
<1>1. /\ Alone(w) /\ pc'[w] \in {"done", "explain"}
      /\ outcome'[w] = [outcome[w] EXCEPT ![Key(w)] = o]
  BY SettleMoves, RaiseMoves DEF BaseInv
<1>2. StageInv(w)'
  BY <1>1 DEF StageInv, Building
<1> QED  BY <1>1, <1>2, WorkerCalm DEF Records

\* A step to a stage whose needs are met.
LEMMA GotoCalm ==
    ASSUME BaseInv, BaseInv', Calm, NEW w \in Workers, pc[w] # "done",
           NEW stage \in Stages \ {"done"}, Goto(w, stage), UNCHANGED <<program, todo, outcome>>,
           DirsKeep(w), pc'[w] = stage => StageInv(w)'
    PROVE  Calm' /\ (Warm => Warm')
  BY GotoMoves, WorkerCalm DEF BaseInv, Records

\* The stages in which nothing is built: what comes out of each is justified by the slot.
LEMMA ReadingCalm ==
    ASSUME BaseInv, BaseInv', Calm, NEW w \in Workers,
           Begin(w) \/ Explain(w) \/ PinFails(w) \/ Resolve(w) \/ Lookup(w)
           \/ Check(w) \/ Spawn(w) \/ Exit(w) \/ Stop(w)
    PROVE  Calm' /\ (Warm => Warm')
<1>1. UNCHANGED <<program, entry, parts>> /\ (schemeDir => schemeDir')
  BY DEF Begin, Explain, PinFails, Resolve, Lookup, Check, Spawn, Exit, Stop, dirVars
<1>2. DirsKeep(w)
  BY <1>1, SameDirsKeep
<1>3. pc[w] # "done"
  BY DEF Begin, Explain, PinFails, Resolve, Lookup, Check, Spawn, Exit, Stop, Active
<1>4. Key(w) \in Keys /\ StageInv(w)
  BY <1>3, KeyInHand DEF BaseInv, Calm
<1>5. ASSUME NEW o \in Outcomes, Settle(w, o), Honest(w, o)
      PROVE  Calm' /\ (Warm => Warm')
  BY <1>1, <1>2, <1>3, <1>5, SettleCalm
<1>6. ASSUME NEW stage \in Stages \ {"done"}, Goto(w, stage), UNCHANGED <<todo, outcome>>,
             pc'[w] = stage => StageInv(w)'
      PROVE  Calm' /\ (Warm => Warm')
  BY <1>1, <1>2, <1>3, <1>6, GotoCalm
<1>7. \A stage \in {"explain", "resolve", "interrupted", "stopped"} :
         stage \in Stages \ {"done"} /\ (pc'[w] = stage => StageInv(w)')
  BY DEF StageInv, Stages, Building
<1>8. CASE Begin(w)
  BY <1>6, <1>7, <1>8 DEF Begin
<1>9. CASE Explain(w)
  BY <1>5, <1>6, <1>7, <1>9 DEF Explain, Healthy, Honest, Outcomes
<1>10. CASE PinFails(w)
  BY <1>5, <1>10 DEF PinFails, Honest, Outcomes
<1>11. CASE Resolve(w)
  <2>1. CASE program[w].offline /\ ~Healthy(Key(w))
    BY <1>5, <1>11, <2>1 DEF Resolve, Honest, Outcomes
  <2>2. CASE ~(program[w].offline /\ ~Healthy(Key(w)))
    <3>1. Goto(w, "lookup") /\ UNCHANGED <<todo, outcome>>
      BY <1>11, <2>2 DEF Resolve
    <3>2. pc'[w] = "lookup" => StageInv(w)'
      BY <1>1, <2>2, <3>1 DEF StageInv, Building, Healthy, Key
    <3> QED  BY <1>6, <3>1, <3>2 DEF Stages
  <2> QED  BY <2>1, <2>2
<1>12. CASE Lookup(w)
  <2>1. CASE Healthy(Key(w))
    <3>1. Goto(w, "check") /\ UNCHANGED <<todo, outcome>>
      BY <1>12, <2>1 DEF Lookup
    <3>2. pc'[w] = "check" => StageInv(w)'
      BY <1>1, <2>1, <3>1 DEF StageInv, Building, Healthy, Key
    <3> QED  BY <1>6, <3>1, <3>2 DEF Stages
  <2>2. CASE ~Healthy(Key(w))
    <3>1. Goto(w, "mkdtemp") /\ UNCHANGED <<todo, outcome>> /\ schemeDir' = TRUE /\ pc[w] = "lookup"
      BY <1>12, <2>2 DEF Lookup
    <3>2. ~program[w].offline
      <4>1. entry[Key(w)] = None
        BY <1>4, <2>2 DEF Calm, Sound, Healthy, BuiltParts, Part
      <4> QED  BY <1>4, <3>1, <4>1 DEF StageInv
    <3>3. pc'[w] = "mkdtemp" => StageInv(w)'
      BY <1>1, <3>1, <3>2 DEF StageInv, Building
    <3> QED  BY <1>6, <3>1, <3>3 DEF Stages
  <2> QED  BY <2>1, <2>2
<1>13. ASSUME pc[w] \in {"check", "spawn", "running"}
       PROVE  entry[Key(w)] # None /\ Sound(Key(w))
  BY <1>4, <1>13 DEF StageInv, Calm
<1>14. CASE Check(w)
  <2>1. entry[Key(w)] # None /\ Sound(Key(w))
    BY <1>13, <1>14 DEF Check
  <2>2. CASE ~HasTool(Key(w))
    <3>1. Key(w) \in NoTool
      BY <2>1, <2>2 DEF Sound, HasTool, BuiltParts, Part
    <3> QED  BY <1>5, <1>14, <2>2, <3>1 DEF Check, Honest, Outcomes
  <2>3. CASE HasTool(Key(w)) /\ program[w].kind = "sync"
    BY <1>5, <1>14, <2>1, <2>3 DEF Check, Honest, Outcomes
  <2>4. CASE HasTool(Key(w)) /\ program[w].kind # "sync"
    <3>1. Goto(w, "spawn") /\ UNCHANGED <<todo, outcome>>
      BY <1>14, <2>4 DEF Check
    <3>2. pc'[w] = "spawn" => StageInv(w)'
      BY <1>1, <2>1, <3>1 DEF StageInv, Building, Key
    <3> QED  BY <1>6, <3>1, <3>2 DEF Stages
  <2> QED  BY <2>2, <2>3, <2>4
<1>15. CASE Spawn(w)
  <2>1. entry[Key(w)] # None /\ Goto(w, "running") /\ UNCHANGED <<todo, outcome>>
    BY <1>13, <1>15 DEF Spawn
  <2>2. pc'[w] = "running" => StageInv(w)'
    BY <1>1, <2>1 DEF StageInv, Building, Key
  <2> QED  BY <1>6, <2>1, <2>2 DEF Stages
<1>16. CASE Exit(w)
  BY <1>5, <1>13, <1>16 DEF Exit, Honest, Outcomes
<1>17. CASE Stop(w)
  BY <1>6, <1>7, <1>17 DEF Stop
<1> QED
  BY <1>8, <1>9, <1>10, <1>11, <1>12, <1>14, <1>15, <1>16, <1>17

\* The stages of a build: each finds what the one before it left.
LEMMA BuildingCalm ==
    ASSUME BaseInv, BaseInv', Calm, NEW w \in Workers,
           MakeTemp(w) \/ CreateVenv(w) \/ Install(w) \/ BuildFails(w) \/ DownloadFails(w)
           \/ Interrupt(w) \/ StopCleaning(w)
    PROVE  Calm' /\ (Warm => Warm')
<1>1. pc[w] \in {"mkdtemp", "venv", "install", "replace"} /\ UNCHANGED program
  BY DEF MakeTemp, CreateVenv, Install, BuildFails, DownloadFails, Interrupt, StopCleaning
<1>2. /\ pc[w] # "done" /\ StageInv(w) /\ Temp(w) \in Builds /\ Temp(w) \in Names /\ Key(w) \in Keys
      /\ Len(todo[w]) \in 1..MaxHooks /\ Temp(w)[1] = w /\ Temp(w)[3] = Len(todo[w])
  BY <1>1, KeyInHand DEF BaseInv, Calm, Names, Temp
<1>3. ASSUME \A n \in Names : n # Temp(w) => entry'[n] = entry[n],
             \A b \in Builds : b # Temp(w) => parts'[b] = parts[b],
             schemeDir => schemeDir'
      PROVE  DirsKeep(w)
  BY <1>1, <1>3, OwnTempKeep DEF Building
<1>4. ~program[w].offline
  BY <1>1, <1>2 DEF StageInv, Building
<1>5. CASE MakeTemp(w)
  <2>1. /\ pc[w] = "mkdtemp" /\ schemeDir
        /\ entry' = [entry EXCEPT ![Temp(w)] = Temp(w)]
        /\ Goto(w, "venv") /\ UNCHANGED <<todo, outcome, parts, schemeDir>>
    BY <1>2, <1>5 DEF MakeTemp, StageInv
  <2>2. DirsKeep(w) /\ entry'[Temp(w)] = Temp(w)
    BY <1>2, <1>3, <2>1 DEF BaseInv, TypeOK
  <2>3. parts[Temp(w)] = {}
    BY <1>2, <2>1 DEF BaseInv, FreshInv, Unmade, AwaitsStage, Preparing
  <2>4. pc'[w] = "venv" => StageInv(w)'
    BY <1>1, <1>4, <2>1, <2>2, <2>3 DEF StageInv, Building, Temp, Key
  <2> QED  BY <1>1, <1>2, <2>1, <2>2, <2>4, GotoCalm DEF Stages
<1>6. CASE CreateVenv(w)
  <2>1. /\ pc[w] = "venv" /\ schemeDir'
        /\ entry' = [entry EXCEPT ![Temp(w)] = Temp(w)]
        /\ parts' = [parts EXCEPT ![Temp(w)] = @ \cup {"bin"}]
        /\ Goto(w, "install") /\ UNCHANGED <<todo, outcome>>
    BY <1>6 DEF CreateVenv
  <2>2. parts[Temp(w)] = {}
    BY <1>2, <2>1 DEF StageInv
  <2>3. DirsKeep(w) /\ entry'[Temp(w)] = Temp(w) /\ parts'[Temp(w)] = {"bin"}
    BY <1>2, <1>3, <2>1, <2>2 DEF BaseInv, TypeOK
  <2>4. pc'[w] = "install" => StageInv(w)'
    BY <1>1, <1>4, <2>1, <2>3 DEF StageInv, Building, Temp, Key
  <2> QED  BY <1>1, <1>2, <2>1, <2>3, <2>4, GotoCalm DEF Stages
<1>7. CASE Install(w)
  <2>1. pc[w] = "install" /\ entry[Temp(w)] = Temp(w) /\ parts[Temp(w)] = {"bin"}
    BY <1>2, <1>7 DEF StageInv, Building, Install
  <2>2. /\ parts' = [parts EXCEPT ![Temp(w)] = @ \cup BuiltParts(Key(w))]
        /\ Goto(w, "replace") /\ UNCHANGED <<todo, outcome, entry, schemeDir>>
    BY <1>7, <2>1 DEF Install
  <2>3. DirsKeep(w) /\ parts'[Temp(w)] = BuiltParts(Key(w))
    BY <1>2, <1>3, <2>1, <2>2 DEF BaseInv, TypeOK, BuiltParts, Part
  <2>4. pc'[w] = "replace" => StageInv(w)'
    BY <1>1, <1>4, <2>1, <2>2, <2>3 DEF StageInv, Building, Temp, Key
  <2> QED  BY <1>1, <1>2, <2>2, <2>3, <2>4, GotoCalm DEF Stages
<1>8. ASSUME DropTemp(w), UNCHANGED schemeDir
      PROVE  DirsKeep(w)
  BY <1>2, <1>3, <1>8 DEF DropTemp, BaseInv, TypeOK
<1>9. CASE BuildFails(w)
  BY <1>1, <1>2, <1>8, <1>9, SettleCalm DEF BuildFails, Honest, Outcomes
<1>10. CASE DownloadFails(w)
  BY <1>1, <1>2, <1>8, <1>10, SettleCalm DEF DownloadFails, Honest, Outcomes
<1>11. CASE Interrupt(w)
  <2>1. pc'[w] = "interrupted" => StageInv(w)'
    BY DEF StageInv, Building
  <2> QED  BY <1>1, <1>2, <1>8, <1>11, <2>1, GotoCalm DEF Interrupt, Stages
<1>12. CASE StopCleaning(w)
  <2>1. /\ Goto(w, "stopped") /\ UNCHANGED <<todo, outcome, entry, schemeDir>>
        /\ \E left : parts' = [parts EXCEPT ![Temp(w)] = left]
    BY <1>12 DEF StopCleaning, DropPartly
  <2>2. DirsKeep(w)
    BY <1>2, <1>3, <2>1 DEF BaseInv, TypeOK
  <2>3. pc'[w] = "stopped" => StageInv(w)'
    BY <1>1, <1>4 DEF StageInv, Building
  <2> QED  BY <1>1, <1>2, <2>1, <2>2, <2>3, GotoCalm DEF Stages
<1> QED
  BY <1>5, <1>6, <1>7, <1>9, <1>10, <1>11, <1>12

\* The rename: the winner fills the slot, a loser finds it filled.
LEMMA ReplaceCalm ==
    ASSUME BaseInv, BaseInv', Calm, NEW w \in Workers, Replace(w)
    PROVE  Calm' /\ (Warm => Warm')
<1>1. /\ pc[w] = "replace" /\ Goto(w, "check")
      /\ UNCHANGED <<program, todo, outcome, schemeDir>>
  BY DEF Replace
<1>2. /\ StageInv(w) /\ Temp(w) \in Names /\ Temp(w) \in Builds /\ Key(w) \in Names /\ Key(w) # Temp(w)
      /\ entry[Temp(w)] = Temp(w) /\ Temp(w) # None /\ ~program[w].offline
  BY <1>1, KeyInHand, NoneAssumption DEF BaseInv, Calm, Names, StageInv, Building
<1>3. CASE MayReplace(Key(w))
  <2>1. entry' = [entry EXCEPT ![Key(w)] = Temp(w), ![Temp(w)] = None] /\ UNCHANGED parts
    BY <1>2, <1>3 DEF Replace
  <2>2. entry'[Key(w)] # None
    BY <1>2, <2>1 DEF BaseInv, TypeOK
  <2>3. pc'[w] = "check" => StageInv(w)'
    BY <1>1, <1>2, <2>2 DEF StageInv, Building, Key
  <2> QED  BY <1>1, <1>2, <2>1, <2>3, PublishKeep, GotoCalm DEF Stages
<1>4. CASE ~MayReplace(Key(w))
  <2>1. DropTemp(w)
    BY <1>4 DEF Replace
  <2>2. DirsKeep(w)
    BY <1>1, <1>2, <2>1, OwnTempKeep DEF DropTemp, BaseInv, TypeOK, Building
  <2>3. entry'[Key(w)] # None
    BY <1>2, <1>4, <2>1 DEF MayReplace, DropTemp, BaseInv, TypeOK
  <2>4. pc'[w] = "check" => StageInv(w)'
    BY <1>1, <1>2, <2>3 DEF StageInv, Building, Key
  <2> QED  BY <1>1, <1>2, <2>2, <2>4, GotoCalm DEF Stages
<1> QED  BY <1>3, <1>4

-----------------------------------------------------------------------------
(* The whole invariant. *)

LEMMA InitCache == Init => CacheInv
<1> SUFFICES ASSUME Init  PROVE CacheInv
  OBVIOUS
<1>1. BaseInv
  BY InitBase
<1>2. \A n \in Names : entry[n] = None
  BY DEF Init
<1>3. \A w \in Workers : pc[w] \in {"idle", "done"}
  BY DEF Init
<1>4. QuietInv
  BY <1>2, <1>3 DEF Init, QuietInv, ClearInv, Clearing, SlotInv, Names, StageInv, Building, Blameless
<1>5. WarmInv
  BY DEF Init, WarmInv
<1> QED  BY <1>1, <1>4, <1>5 DEF CacheInv

\* A worker's step keeps the whole invariant.
LEMMA WorkerStepCache ==
    ASSUME CacheInv, NEW w \in Workers, Begin(w) \/ Work(w) \/ Fails(w)
    PROVE  CacheInv'
<1>1. BaseInv /\ BaseInv'
  BY WorkerStepBase DEF CacheInv
<1>2. UNCHANGED <<clear, targets, removal>> /\ overlapped' \in {overlapped, overlapped \/ Clearing}
  BY DEF Work, Fails, Begin, Explain, PinFails, Resolve, Lookup, MakeTemp, CreateVenv, Install,
         BuildFails, DownloadFails, Interrupt, Replace, Check, Spawn, Exit, Stop, StopCleaning, clearVars
<1>3. Begin(w) \/ Active(w)
  BY DEF Work, Fails, Begin, Explain, PinFails, Resolve, Lookup, MakeTemp, CreateVenv, Install,
         BuildFails, DownloadFails, Interrupt, Replace, Check, Spawn, Exit, Stop, StopCleaning, Active
<1>4. ASSUME Quiet'
      PROVE  Quiet /\ ~Clearing /\ Calm
  <2>1. Quiet /\ QuietInv
    BY <1>2, <1>4 DEF Quiet, CacheInv
  <2>2. ~Clearing
    BY <1>3, <1>4, <2>1 DEF Begin, Quiet, QuietInv, ClearInv
  <2> QED  BY <2>1, <2>2 DEF QuietInv, SlotInv, Calm, Clearing
<1>5. ASSUME Quiet'
      PROVE  Calm' /\ (Warm => Warm')
  BY <1>1, <1>4, <1>5, ReadingCalm, BuildingCalm, ReplaceCalm DEF Work, Fails
<1>6. Quiet' => QuietInv'
  BY <1>2, <1>4, <1>5 DEF Calm, QuietInv, SlotInv, ClearInv, Clearing
<1>7. WarmInv'
  <2> SUFFICES ASSUME clear' = "idle"  PROVE ~overlapped' /\ Warm'
    BY DEF WarmInv, Warm
  <2>1. clear = "idle" /\ ~overlapped /\ Warm
    BY <1>2 DEF CacheInv, WarmInv, Warm
  <2>2. ~overlapped'
    BY <1>2, <2>1 DEF Clearing
  <2> QED  BY <1>5, <2>1, <2>2 DEF Quiet
<1> QED  BY <1>1, <1>6, <1>7 DEF CacheInv

\* A directory that a clear has in hand is in no other place.
LEMMA OnePlace ==
    ASSUME BaseInv, NEW n \in Names, NEW m \in Names, entry[n] # None, entry[n] = entry[m]
    PROVE  n = m
<1>1. entry[n] \in Builds
  BY DEF BaseInv, TypeOK
<1>2. (n = entry[n] \/ n = entry[n][2]) /\ (m = entry[n] \/ m = entry[n][2])
  BY DEF BaseInv, TypeOK
<1> QED  BY <1>1, <1>2 DEF BaseInv, FreshInv

\* So does a step of the clear, which is alone as long as the invariant speaks of it.
LEMMA ClearStepCache ==
    ASSUME CacheInv, ClearStart \/ Sweep \/ ClearKilled
    PROVE  CacheInv'
<1>1. BaseInv /\ BaseInv' /\ TypeOK /\ RemovalInv
  BY ClearStepBase DEF CacheInv, BaseInv
<1>2. UNCHANGED workerVars /\ clear' # "idle"
  BY DEF ClearStart, Sweep, Visit, Measure, RemovePart, RemoveDir, SweepEnds, RemoveScheme, ClearKilled
<1> SUFFICES ASSUME Quiet'  PROVE QuietInv'
  BY <1>1, <1>2 DEF CacheInv, WarmInv
<1>3. ~ClearKilled
  BY DEF ClearKilled, Quiet
<1>4. Quiet /\ QuietInv
  <2>1. clear # "killed"
    BY <1>3 DEF ClearStart, Sweep, Visit, Measure, RemovePart, RemoveDir, SweepEnds, RemoveScheme
  <2>2. ~overlapped
    BY <1>3 DEF ClearStart, Sweep, Visit, Measure, RemovePart, RemoveDir, SweepEnds, RemoveScheme,
                Quiet
  <2> QED  BY <2>1, <2>2 DEF Quiet, CacheInv
<1>5. \A w \in Workers : ~Active(w) /\ ~Active(w)'
  BY <1>2, <1>3, <1>4
  DEF ClearStart, Sweep, Visit, Measure, RemovePart, RemoveDir, SweepEnds, RemoveScheme,
      Quiet, QuietInv, ClearInv, Clearing, Active, workerVars
<1>6. \A w \in Workers : StageInv(w)'
  BY <1>5 DEF Active, StageInv, Building
<1>7. \A w \in Workers, k \in Keys : Blameless(w, k)'
  BY <1>2, <1>4 DEF QuietInv, Blameless, workerVars
<1> SUFFICES ClearInv' /\ SlotInv'
  BY <1>6, <1>7 DEF QuietInv
<1>8. /\ clear = "sweep" => \A n \in Names : entry[n] # None => n \in targets
      /\ clear = "measure" => entry[removal.name] # None
      /\ clear \in {"measure", "rmtree"} =>
            \A n \in Names : entry[n] # None => n \in targets \/ n = removal.name
  BY <1>4 DEF QuietInv, ClearInv, Clearing, InHand
<1>9. CASE ClearStart
  BY <1>4, <1>5, <1>9
  DEF ClearStart, ClearInv, Clearing, InHand, Listed, QuietInv, SlotInv, Sound, dirVars
<1>10. ASSUME NEW n \in Names, Visit(n)
       PROVE  ClearInv' /\ SlotInv'
  <2>1. SlotInv'
    BY <1>4, <1>10 DEF Visit, QuietInv, SlotInv, Sound, dirVars
  <2>2. CASE entry[n] = None
    BY <1>5, <1>8, <1>10, <2>1, <2>2 DEF Visit, ClearInv, Clearing, InHand, dirVars
  <2>3. CASE entry[n] # None
    <3>1. clear' = "measure" /\ removal'.name = n
      BY <1>10, <2>3 DEF Visit, NoRemoval
    <3>2. entry' = entry /\ targets' = targets \ {n} /\ clear = "sweep"
      BY <1>10 DEF Visit, dirVars
    <3> QED  BY <1>5, <1>8, <2>1, <2>3, <3>1, <3>2 DEF ClearInv, Clearing, InHand
  <2> QED  BY <2>2, <2>3
<1>11. CASE Measure
  <2>1. /\ clear' = "rmtree" /\ removal' = [removal EXCEPT !.dir = entry[removal.name],
                                                        !.left = parts[entry[removal.name]]]
        /\ UNCHANGED <<entry, parts, targets>> /\ clear = "measure"
    BY <1>8, <1>11 DEF Measure, dirVars
  <2>2. removal'.name = removal.name /\ removal'.dir = entry[removal.name]
        /\ removal'.left = parts[entry[removal.name]]
    BY <1>1, <2>1 DEF TypeOK
  <2>3. ClearInv'
    BY <1>5, <1>8, <2>1, <2>2 DEF ClearInv, Clearing, InHand
  <2>4. SlotInv'
    BY <1>4, <2>1 DEF QuietInv, SlotInv, Sound
  <2> QED  BY <2>3, <2>4
<1>12. ASSUME NEW p \in Part, RemovePart(p)
       PROVE  ClearInv' /\ SlotInv'
  <2>1. /\ clear = "rmtree" /\ removal.name \in Names /\ removal.dir \in Builds
        /\ entry[removal.name] = removal.dir /\ parts[removal.dir] = removal.left
        /\ UNCHANGED <<entry, clear, targets>>
    BY <1>1, <1>4, <1>12 DEF RemovePart, RemovalInv, QuietInv, ClearInv
  <2>2. parts' = [parts EXCEPT ![removal.dir] = @ \ {p}]
    BY <1>12, <2>1 DEF RemovePart
  <2>3. /\ removal'.name = removal.name /\ removal'.dir = removal.dir
        /\ removal'.left = removal.left \ {p}
    BY <1>1, <1>12 DEF RemovePart, TypeOK
  <2>4. parts'[removal.dir] = removal.left \ {p}
    BY <1>1, <2>1, <2>2 DEF TypeOK
  <2>5. ClearInv'
    BY <1>5, <1>8, <2>1, <2>3, <2>4 DEF ClearInv, Clearing, InHand
  <2>6. ASSUME NEW k \in Keys, entry[k] # None, k # removal.name
        PROVE  Sound(k)'
    <3>1. k \in Names /\ entry[k] \in Builds
      BY <1>1, <2>6 DEF TypeOK, Names
    <3>2. entry[k] # removal.dir
      BY <1>1, <2>1, <2>6, <3>1, OnePlace
    <3>3. Sound(k)
      BY <1>4, <2>6 DEF QuietInv, SlotInv
    <3> QED  BY <1>1, <2>1, <2>2, <3>1, <3>2, <3>3 DEF Sound, TypeOK
  <2> QED  BY <2>1, <2>3, <2>5, <2>6 DEF SlotInv
<1>13. CASE RemoveDir
  <2>1. /\ clear = "rmtree" /\ removal.name \in Names
        /\ entry[removal.name] = removal.dir /\ parts[removal.dir] = {}
        /\ clear' = "sweep" /\ UNCHANGED <<parts, targets>>
    BY <1>1, <1>4, <1>13 DEF RemoveDir, RemovalInv, QuietInv, ClearInv
  <2>2. entry' = [entry EXCEPT ![removal.name] = None]
    BY <1>13, <2>1 DEF RemoveDir
  <2>3. \A n \in Names : entry'[n] = IF n = removal.name THEN None ELSE entry[n]
    BY <1>1, <2>1, <2>2 DEF TypeOK
  <2>4. ClearInv'
    BY <1>5, <1>8, <2>1, <2>3 DEF ClearInv, Clearing, InHand
  <2>5. SlotInv'
    BY <1>4, <2>1, <2>3 DEF QuietInv, SlotInv, Sound, Names
  <2> QED  BY <2>4, <2>5
<1>14. CASE SweepEnds
  <2>1. SchemeDirEmpty /\ UNCHANGED dirVars
    BY <1>8, <1>14 DEF SweepEnds, SchemeDirEmpty
  <2>2. clear' = "rmdir" /\ entry' = entry
    BY <1>14, <2>1 DEF SweepEnds, dirVars
  <2> QED  BY <1>5, <2>1, <2>2 DEF ClearInv, Clearing, SlotInv, SchemeDirEmpty, Names
<1>15. CASE RemoveScheme
  BY <1>4, <1>15 DEF RemoveScheme, QuietInv, ClearInv, Clearing, SchemeDirEmpty, SlotInv, Names
<1> QED
  BY <1>3, <1>9, <1>10, <1>11, <1>12, <1>13, <1>14, <1>15 DEF Sweep

LEMMA StepCache == CacheInv /\ [Next]_vars => CacheInv'
<1> SUFFICES ASSUME CacheInv, [Next]_vars  PROVE CacheInv'
  OBVIOUS
<1>1. CASE UNCHANGED vars
  <2>1. BaseInv'
    BY <1>1, StepBase DEF CacheInv
  <2>2. (Quiet' => QuietInv') /\ WarmInv'
    BY <1>1 DEF vars, workerVars, dirVars, clearVars, CacheInv, Quiet, QuietInv, WarmInv, ClearInv,
                Clearing, Active, InHand, SlotInv, Sound, StageInv, Temp, Key, Blameless
  <2> QED  BY <2>1, <2>2 DEF CacheInv
<1> QED
  BY <1>1, WorkerStepCache, ClearStepCache DEF Next

LEMMA AlwaysCache == Spec => []CacheInv
  BY InitCache, StepCache, PTL DEF Spec

-----------------------------------------------------------------------------
(* What follows. *)

(***************************************************************************)
(* A slot of the cache holds a complete environment or does not exist,     *)
(* however many processes build, fail and are killed at whatever moment,   *)
(* until a clear meets a worker or is interrupted.                         *)
(***************************************************************************)
THEOREM NeverAPartialSlot == Spec => []NoPartialSlot
<1>1. CacheInv => NoPartialSlot
  BY DEF CacheInv, QuietInv, SlotInv, Quiet, Undisturbed, NoPartialSlot
<1> QED  BY <1>1, AlwaysCache, PTL

(***************************************************************************)
(* However many processes race for a key, none fails because of what       *)
(* another one did to the cache: a loser gets the winner's environment.    *)
(***************************************************************************)
THEOREM HooksFailForTheirOwnReasons == Spec => []OwnReasonsOnly
<1>1. CacheInv => OwnReasonsOnly
  BY DEF CacheInv, QuietInv, Quiet, OwnReasonsOnly
<1> QED  BY <1>1, AlwaysCache, PTL

(***************************************************************************)
(* Offline, no build is begun, although resolve and publish_atomically     *)
(* look at the slot one after the other.                                   *)
(***************************************************************************)
THEOREM OfflineNeverAsksUv == Spec => []OfflineNeverBuilds
<1>1. CacheInv => OfflineNeverBuilds
  BY DEF CacheInv, QuietInv, StageInv, Building, Quiet, OfflineNeverBuilds
<1> QED  BY <1>1, AlwaysCache, PTL

WarmStaysWarm ==
    clear = "idle" =>
        \A w \in Workers, k \in Keys :
            outcome[w][k] \in {"built", "cached", "ran"} => Healthy(k) /\ Sound(k)

(***************************************************************************)
(* What sync reported as built or cached, and what a hook ran from, is a   *)
(* sound hit for every later command until a clear.                        *)
(***************************************************************************)
THEOREM AlwaysStaysWarm == Spec => []WarmStaysWarm
<1>1. CacheInv => WarmStaysWarm
  BY DEF CacheInv, QuietInv, SlotInv, WarmInv, Quiet, WarmStaysWarm, Healthy, Sound, BuiltParts, Part
<1> QED  BY <1>1, AlwaysCache, PTL

\* A clear ends when env-v1 is empty.
LEMMA ClearEndsEmpty ==
    ASSUME CacheInv, [Next]_vars, clear # "done", clear' = "done", ~overlapped
    PROVE  \A n \in Names : entry'[n] = None
<1>1. \A w \in Workers : ~(Begin(w) \/ Work(w) \/ Fails(w))
  BY DEF Work, Fails, Begin, Explain, PinFails, Resolve, Lookup, MakeTemp, CreateVenv, Install,
         BuildFails, DownloadFails, Interrupt, Replace, Check, Spawn, Exit, Stop, StopCleaning, clearVars
<1>2. CASE ClearStart
  BY <1>2 DEF ClearStart, dirVars, CacheInv, BaseInv, TypeOK
<1>3. CASE SweepEnds
  <2>1. clear = "sweep" /\ targets = {} /\ entry' = entry /\ ~SchemeDirEmpty
    BY <1>3 DEF SweepEnds, dirVars
  <2>2. \A n \in Names : entry[n] = None
    BY <2>1 DEF CacheInv, Quiet, QuietInv, ClearInv, Clearing, InHand
  <2> QED  BY <2>1, <2>2
<1>4. CASE RemoveScheme
  BY <1>4 DEF RemoveScheme, SchemeDirEmpty
<1> QED
  BY <1>1, <1>2, <1>3, <1>4
  DEF Next, Sweep, Visit, Measure, RemovePart, RemoveDir, ClearKilled, vars, clearVars

(***************************************************************************)
(* A clear that is not interrupted and meets no worker empties the cache,  *)
(* the directories of killed builds included.                              *)
(***************************************************************************)
THEOREM ClearAlwaysLeavesNothing == Spec => ClearLeavesNothing
<1>1. CacheInv /\ [Next]_vars
      => [clear # "done" /\ clear' = "done" /\ ~overlapped => \A n \in Names : entry'[n] = None]_vars
  BY ClearEndsEmpty
<1> QED  BY <1>1, AlwaysCache, PTL DEF Spec, ClearLeavesNothing

-----------------------------------------------------------------------------
(* EnvCache implements EnvStore. *)

\* A hook is spawned from an environment that has its tool.
ToolInv == Quiet => \A w \in Workers : pc[w] \in {"spawn", "running"} => Key(w) \notin NoTool

\* Of an environment that a clear has in hand, what is left was built for its key.
LeftInv ==
    Quiet /\ clear = "rmtree" /\ removal.name \in Keys => removal.left \subseteq BuiltParts(removal.name)

\* What the steps of a worker find when no clear has met it.
AtWork == BaseInv /\ Calm /\ ToolInv /\ Quiet /\ ~Clearing

\* What is held is what is there, for slots are sound.
LEMMA HeldNow == ASSUME Calm PROVE Held = {k \in Keys : entry[k] # None}
  BY DEF Calm, Held, Sound

LEMMA HeldThen == ASSUME Calm' PROVE Held' = {k \in Keys : entry'[k] # None}
  BY DEF Calm, Held, Sound

\* A step of a worker that starts in a quiet state, and ends in one.
LEMMA WorkerQuiet ==
    ASSUME CacheInv, NEW w \in Workers, Begin(w) \/ Work(w) \/ Fails(w), Quiet'
    PROVE  /\ Quiet /\ ~Clearing /\ Calm /\ Calm' /\ BaseInv /\ BaseInv'
           /\ UNCHANGED <<clear, overlapped>>
<1>1. BaseInv /\ BaseInv'
  BY WorkerStepBase DEF CacheInv
<1>2. UNCHANGED clear /\ overlapped' \in {overlapped, overlapped \/ Clearing}
  BY DEF Work, Fails, Begin, Explain, PinFails, Resolve, Lookup, MakeTemp, CreateVenv, Install,
         BuildFails, DownloadFails, Interrupt, Replace, Check, Spawn, Exit, Stop, StopCleaning, clearVars
<1>3. Begin(w) \/ Active(w)
  BY DEF Work, Fails, Begin, Explain, PinFails, Resolve, Lookup, MakeTemp, CreateVenv, Install,
         BuildFails, DownloadFails, Interrupt, Replace, Check, Spawn, Exit, Stop, StopCleaning, Active
<1>4. Quiet /\ QuietInv
  BY <1>2 DEF Quiet, CacheInv
<1>5. ~Clearing
  BY <1>3, <1>4 DEF Begin, Quiet, QuietInv, ClearInv
<1>6. Calm
  BY <1>4, <1>5 DEF QuietInv, SlotInv, Calm, Clearing
<1>7. Calm'
  BY <1>1, <1>6, ReadingCalm, BuildingCalm, ReplaceCalm DEF Work, Fails
<1>8. overlapped' = overlapped
  <2>1. overlapped = FALSE /\ Clearing = FALSE
    BY <1>1, <1>4, <1>5 DEF Quiet, BaseInv, TypeOK, Clearing
  <2> QED  BY <1>2, <2>1
<1> QED  BY <1>1, <1>2, <1>4, <1>5, <1>6, <1>7, <1>8

\* The answers that the cache gives.
Answers == {"registry", "uv", "download", "offline", "cached", "built", "ran", "notool"}
Told(w) == \E o \in Answers : Store!Truthful(Key(w), o) /\ outcome' = [outcome EXCEPT ![w][Key(w)] = o]

\* What a worker tells without building is as the slot is.
LEMMA ReadingTells ==
    ASSUME AtWork, NEW w \in Workers,
           Begin(w) \/ Explain(w) \/ PinFails(w) \/ Resolve(w) \/ Lookup(w)
           \/ Check(w) \/ Spawn(w) \/ Exit(w) \/ Stop(w)
    PROVE  UNCHANGED <<entry, parts>> /\ (outcome' = outcome \/ Told(w))
<1> USE DEF AtWork
<1>1. UNCHANGED <<entry, parts>>
  BY DEF Begin, Explain, PinFails, Resolve, Lookup, Check, Spawn, Exit, Stop, dirVars
<1>2. pc[w] # "done"
  BY DEF Begin, Explain, PinFails, Resolve, Lookup, Check, Spawn, Exit, Stop, Active
<1>3. Key(w) \in Keys /\ StageInv(w)
  BY <1>2, KeyInHand DEF BaseInv, Calm
<1>4. Sound(Key(w)) <=> Healthy(Key(w))
  BY <1>3 DEF Calm, Sound, Healthy, BuiltParts, Part
<1>5. Key(w) \in Held <=> Healthy(Key(w))
  BY <1>3, <1>4 DEF Held
<1>6. ASSUME NEW o \in Answers, Settle(w, o), Store!Truthful(Key(w), o)
      PROVE  Told(w)
  BY <1>6 DEF Told, Settle
<1>7. CASE Begin(w) \/ Lookup(w) \/ Stop(w)
  BY <1>1, <1>7 DEF Begin, Lookup, Stop
<1>8. CASE Explain(w)
  BY <1>1, <1>5, <1>6, <1>8 DEF Explain, Answers, Store!Truthful
<1>9. CASE PinFails(w)
  BY <1>1, <1>6, <1>9 DEF PinFails, Answers, Store!Truthful
<1>10. CASE Resolve(w)
  BY <1>1, <1>5, <1>6, <1>10 DEF Resolve, Answers, Store!Truthful
<1>11. ASSUME pc[w] \in {"check", "spawn", "running"}
       PROVE  Sound(Key(w)) /\ Key(w) \in Held
  BY <1>3, <1>11 DEF StageInv, Calm, Held
<1>12. CASE Check(w)
  <2>1. Sound(Key(w)) /\ Key(w) \in Held
    BY <1>11, <1>12 DEF Check
  <2>2. HasTool(Key(w)) <=> Key(w) \notin NoTool
    BY <2>1 DEF Sound, HasTool, BuiltParts, Part
  <2> QED
    BY <1>1, <1>6, <1>12, <2>1, <2>2 DEF Check, Answers, Store!Truthful
<1>13. CASE Spawn(w)
  BY <1>1, <1>11, <1>13 DEF Spawn
<1>14. CASE Exit(w)
  <2>1. Sound(Key(w)) /\ Key(w) \in Held /\ Key(w) \notin NoTool
    BY <1>11, <1>14 DEF Exit, ToolInv
  <2> QED
    BY <1>1, <1>6, <1>14, <2>1 DEF Exit, Answers, Store!Truthful
<1> QED
  BY <1>7, <1>8, <1>9, <1>10, <1>12, <1>13, <1>14

\* A build touches no slot.
LEMMA BuildingTells ==
    ASSUME AtWork, NEW w \in Workers,
           MakeTemp(w) \/ CreateVenv(w) \/ Install(w) \/ BuildFails(w) \/ DownloadFails(w)
           \/ Interrupt(w) \/ StopCleaning(w)
    PROVE  (\A k \in Keys : entry'[k] = entry[k]) /\ (outcome' = outcome \/ Told(w))
<1> USE DEF AtWork
<1>1. pc[w] \in {"mkdtemp", "venv", "install", "replace"}
  BY DEF MakeTemp, CreateVenv, Install, BuildFails, DownloadFails, Interrupt, StopCleaning
<1>2. Temp(w) \in Builds /\ Key(w) \in Keys /\ StageInv(w)
  BY <1>1, KeyInHand DEF BaseInv, Calm
<1>3. entry' = entry \/ \E d : entry' = [entry EXCEPT ![Temp(w)] = d]
  BY DEF MakeTemp, CreateVenv, Install, BuildFails, DownloadFails, Interrupt, DropTemp,
     StopCleaning, DropPartly
<1>4. \A k \in Keys : entry'[k] = entry[k]
  BY <1>2, <1>3, NoneAssumption DEF BaseInv, TypeOK, Names
<1>5. CASE MakeTemp(w)
  BY <1>2, <1>4, <1>5 DEF MakeTemp, StageInv
<1>6. CASE CreateVenv(w) \/ Interrupt(w) \/ StopCleaning(w)
  BY <1>4, <1>6 DEF CreateVenv, Interrupt, StopCleaning
<1>7. CASE Install(w)
  BY <1>2, <1>4, <1>7 DEF Install, StageInv, Building
<1>8. CASE BuildFails(w)
  BY <1>4, <1>8 DEF BuildFails, Settle, Told, Answers, Store!Truthful
<1>9. CASE DownloadFails(w)
  BY <1>4, <1>9 DEF DownloadFails, Raise, Told, Answers, Store!Truthful
<1> QED
  BY <1>5, <1>6, <1>7, <1>8, <1>9

\* The winner's rename adds one environment, a loser's adds none.
LEMMA ReplaceAdds ==
    ASSUME AtWork, NEW w \in Workers, Replace(w)
    PROVE  /\ outcome' = outcome
           /\ \/ \A k \in Keys : entry'[k] = entry[k]
              \/ /\ Key(w) \in Keys /\ entry[Key(w)] = None /\ entry'[Key(w)] # None
                 /\ \A k \in Keys : k # Key(w) => entry'[k] = entry[k]
<1> USE DEF AtWork
<1>1. /\ Temp(w) \in Builds /\ Key(w) \in Keys /\ Temp(w) # None
      /\ Keys \cap Builds = {} /\ Keys \subseteq Names /\ Builds \subseteq Names
  BY KeyInHand, NoneAssumption DEF BaseInv, Replace, Names
<1>2. outcome' = outcome
  BY DEF Replace
<1>3. CASE entry[Temp(w)] = Temp(w) /\ MayReplace(Key(w))
  <2>1. entry' = [entry EXCEPT ![Key(w)] = Temp(w), ![Temp(w)] = None]
    BY <1>3 DEF Replace
  <2>2. entry[Key(w)] = None
    BY <1>1, <1>3 DEF MayReplace, Calm, Sound, BuiltParts, Part
  <2> QED
    BY <1>1, <1>2, <2>1, <2>2 DEF BaseInv, TypeOK
<1>4. CASE ~(entry[Temp(w)] = Temp(w) /\ MayReplace(Key(w)))
  BY <1>1, <1>2, <1>4 DEF Replace, DropTemp, BaseInv, TypeOK
<1> QED  BY <1>3, <1>4

\* Every step of a worker is an answer, the appearance of an environment, or invisible.
LEMMA WorkerRefines ==
    ASSUME CacheInv, ToolInv, NEW w \in Workers, Begin(w) \/ Work(w) \/ Fails(w), Quiet'
    PROVE  Store!Next \/ UNCHANGED Store!vars
<1>1. /\ AtWork /\ Calm /\ Calm' /\ BaseInv
      /\ UNCHANGED <<clear, overlapped>>
  BY WorkerQuiet DEF AtWork
<1>2. ClearPhase' = ClearPhase /\ ClearPhase # "clearing" /\ (overlapped \/ clear = "killed") = FALSE
  BY <1>1 DEF AtWork, ClearPhase, Clearing, Quiet
<1>3. ASSUME \A k \in Keys : entry'[k] = entry[k], outcome' = outcome \/ Told(w)
      PROVE  Store!Next \/ UNCHANGED Store!vars
  <2>1. Held' = Held
    BY <1>1, <1>3, HeldNow, HeldThen
  <2>2. CASE outcome' = outcome
    BY <1>1, <1>2, <2>1, <2>2 DEF Store!vars
  <2>3. CASE Told(w)
    <3>1. PICK o \in Answers : Store!Truthful(Key(w), o) /\ outcome' = [outcome EXCEPT ![w][Key(w)] = o]
      BY <2>3 DEF Told
    <3>2. Key(w) \in Keys
      BY <1>1, KeyInHand DEF BaseInv, Begin, Work, Fails, Explain, PinFails, Resolve, Lookup, MakeTemp,
         CreateVenv, Install, BuildFails, DownloadFails, Interrupt, Replace, Check, Spawn, Exit, Stop, StopCleaning, Active
    <3>3. Store!Answer(w, Key(w), o)
      BY <1>1, <1>2, <2>1, <3>1 DEF Store!Answer, Store!Open
    <3> QED
      BY <3>1, <3>2, <3>3 DEF Store!Next, Answers
  <2> QED  BY <1>3, <2>2, <2>3
<1>4. ASSUME Replace(w)
      PROVE  Store!Next \/ UNCHANGED Store!vars
  <2>1. CASE \A k \in Keys : entry'[k] = entry[k]
    BY <1>1, <1>3, <1>4, <2>1, ReplaceAdds
  <2>2. CASE ~(\A k \in Keys : entry'[k] = entry[k])
    <3>1. /\ outcome' = outcome /\ Key(w) \in Keys /\ entry[Key(w)] = None /\ entry'[Key(w)] # None
          /\ \A k \in Keys : k # Key(w) => entry'[k] = entry[k]
      BY <1>1, <1>4, <2>2, ReplaceAdds
    <3>2. Key(w) \notin Held /\ Held' = Held \cup {Key(w)}
      BY <1>1, <3>1, HeldNow, HeldThen
    <3>3. Store!Build(Key(w))
      BY <1>1, <1>2, <3>1, <3>2 DEF Store!Build, Store!Open
    <3> QED
      BY <3>1, <3>3 DEF Store!Next
  <2> QED  BY <2>1, <2>2
<1> QED
  BY <1>1, <1>3, <1>4, ReadingTells, BuildingTells DEF Work, Fails

\* So is every step of a clear that meets nobody: it removes one environment, or begins or ends.
LEMMA ClearRefines ==
    ASSUME CacheInv, LeftInv, ClearStart \/ Sweep \/ ClearKilled, Quiet'
    PROVE  Store!Next \/ UNCHANGED Store!vars
<1>1. UNCHANGED outcome /\ ~ClearKilled
  BY DEF ClearStart, Sweep, Visit, Measure, RemovePart, RemoveDir, SweepEnds, RemoveScheme,
         ClearKilled, Quiet, workerVars
<1>2. clear # "killed" /\ Quiet
  <2>1. clear # "killed"
    BY <1>1 DEF ClearStart, Sweep, Visit, Measure, RemovePart, RemoveDir, SweepEnds, RemoveScheme
  <2>2. ~overlapped
    BY <1>1 DEF ClearStart, Sweep, Visit, Measure, RemovePart, RemoveDir, SweepEnds, RemoveScheme,
                Quiet
  <2> QED  BY <2>1, <2>2 DEF Quiet
<1>3. /\ (overlapped \/ clear = "killed") = FALSE
      /\ (overlapped \/ clear = "killed")' = FALSE
  BY <1>2 DEF Quiet
<1>4. QuietInv /\ BaseInv /\ TypeOK /\ RemovalInv
  BY <1>2 DEF CacheInv, BaseInv
<1>5. ASSUME SchemeDirEmpty PROVE Held = {}
  BY <1>5 DEF SchemeDirEmpty, Held, Sound, Names
<1>6. ASSUME UNCHANGED <<entry, parts>> PROVE Held' = Held
  BY <1>6 DEF Held, Sound
<1>7. CASE ClearStart
  <2>1. Held' = Held /\ clear = "idle" /\ clear' = IF schemeDir THEN "sweep" ELSE "done"
    BY <1>6, <1>7 DEF ClearStart, dirVars
  <2>2. CASE schemeDir
    <3>1. ClearPhase = "idle" /\ ClearPhase' = "clearing"
      BY <2>1, <2>2 DEF ClearPhase, Clearing
    <3>2. Store!StartClear
      BY <1>1, <1>3, <2>1, <3>1 DEF Store!StartClear
    <3> QED  BY <3>2 DEF Store!Next
  <2>3. CASE ~schemeDir
    <3>1. ClearPhase = "idle" /\ ClearPhase' = "done"
      BY <2>1, <2>3 DEF ClearPhase, Clearing
    <3>2. Held = {}
      BY <1>4, <1>5, <2>3 DEF TypeOK, SchemeDirEmpty
    <3>3. Store!EndClear
      BY <1>1, <1>3, <2>1, <3>1, <3>2 DEF Store!EndClear
    <3> QED  BY <3>3 DEF Store!Next
  <2> QED  BY <2>2, <2>3
<1>8. ASSUME Clearing, Clearing', Held' = Held
      PROVE  UNCHANGED Store!vars
  <2>1. ClearPhase' = ClearPhase
    BY <1>8 DEF ClearPhase, Clearing
  <2> QED  BY <1>1, <1>3, <1>8, <2>1 DEF Store!vars
<1>9. ASSUME NEW n \in Names, Visit(n)
      PROVE  UNCHANGED Store!vars
  BY <1>6, <1>8, <1>9 DEF Visit, Clearing, dirVars
<1>10. CASE Measure
  <2>1. clear = "measure" /\ clear' = "rmtree" /\ UNCHANGED dirVars
    BY <1>4, <1>10 DEF Measure, QuietInv, ClearInv
  <2> QED  BY <1>6, <1>8, <2>1 DEF Clearing, dirVars
<1>11. ASSUME NEW p \in Part, RemovePart(p)
       PROVE  Store!Next \/ UNCHANGED Store!vars
  <2>1. /\ clear = "rmtree" /\ clear' = "rmtree" /\ entry' = entry
        /\ removal.name \in Names /\ removal.dir \in Builds /\ entry[removal.name] = removal.dir
        /\ removal.dir # None
    BY <1>4, <1>11, NoneAssumption DEF RemovePart, RemovalInv, QuietInv, ClearInv
  <2>2. \A b \in Builds : b # removal.dir => parts'[b] = parts[b]
    BY <1>4, <1>11, <2>1 DEF RemovePart, TypeOK
  <2>3. parts'[removal.dir] \subseteq parts[removal.dir] \ {p} \/ parts' = parts
    BY <1>4, <1>11, <2>1 DEF RemovePart, TypeOK
  <2>4. \A k \in Keys : k # removal.name => (Sound(k)' <=> Sound(k))
    <3> SUFFICES ASSUME NEW k \in Keys, k # removal.name PROVE Sound(k)' <=> Sound(k)
      OBVIOUS
    <3>1. CASE entry[k] = None
      BY <2>1, <3>1 DEF Sound
    <3>2. CASE entry[k] # None
      <4>1. k \in Names /\ entry[k] \in Builds /\ entry[k] # removal.dir
        BY <1>4, <2>1, <3>2, OnePlace DEF TypeOK, Names
      <4> QED  BY <2>1, <2>2, <4>1 DEF Sound
    <3> QED  BY <3>1, <3>2
  <2>5. ASSUME NEW k \in Keys, Sound(k)', ~Sound(k)
        PROVE  FALSE
    <3>1. k = removal.name
      BY <2>4, <2>5
    <3>2. parts'[removal.dir] = BuiltParts(k) /\ parts[removal.dir] # BuiltParts(k)
      BY <2>1, <2>5, <3>1 DEF Sound
    <3>3. removal.left = parts[removal.dir]
      BY <1>4, <2>1 DEF QuietInv, ClearInv
    <3>4. parts[removal.dir] \subseteq BuiltParts(k)
      BY <1>2, <2>1, <2>5, <3>1, <3>3 DEF LeftInv
    <3>5. parts'[removal.dir] \subseteq parts[removal.dir]
      BY <2>3
    <3> QED  BY <3>2, <3>4, <3>5
  <2>10. /\ Held \subseteq Keys /\ Held' \subseteq Keys
         /\ \A k \in Keys : (k \in Held <=> Sound(k)) /\ (k \in Held' <=> Sound(k)')
    BY DEF Held
  <2>6. Held' = Held \/ \E k \in Keys : Held' = Held \ {k}
    <3>1. ASSUME NEW k \in Keys, Sound(k), ~Sound(k)'
          PROVE  Held' = Held \ {k}
      <4>1. \A j \in Keys : j # k => (Sound(j)' <=> Sound(j))
        BY <2>4, <3>1
      <4> QED  BY <2>10, <3>1, <4>1
    <3>2. CASE \A k \in Keys : Sound(k) => Sound(k)'
      <4>1. \A k \in Keys : Sound(k)' <=> Sound(k)
        BY <2>5, <3>2
      <4>2. Held' = Held
        BY <2>10, <4>1
      <4> QED  BY <4>2
    <3> QED  BY <3>1, <3>2
  <2>7. ClearPhase = "clearing" /\ ClearPhase' = "clearing"
    BY <2>1 DEF ClearPhase, Clearing
  <2>8. ASSUME NEW k \in Keys, Held' = Held \ {k}
        PROVE  Store!Next
    <3>1. Store!Remove(k)
      BY <1>1, <1>3, <2>7, <2>8 DEF Store!Remove
    <3> QED  BY <3>1 DEF Store!Next
  <2>9. Held' = Held => UNCHANGED Store!vars
    BY <1>8, <2>1 DEF Clearing
  <2> QED  BY <2>6, <2>8, <2>9
<1>12. CASE RemoveDir
  <2>1. /\ clear = "rmtree" /\ clear' = "sweep" /\ parts' = parts
        /\ removal.name \in Names /\ removal.dir \in Builds /\ entry[removal.name] = removal.dir
        /\ parts[removal.dir] = {}
    BY <1>4, <1>12 DEF RemoveDir, RemovalInv, QuietInv, ClearInv
  <2>2. entry' = [entry EXCEPT ![removal.name] = None]
    BY <1>12, <2>1 DEF RemoveDir
  <2>3. \A n \in Names : entry'[n] = IF n = removal.name THEN None ELSE entry[n]
    BY <1>4, <2>1, <2>2 DEF TypeOK
  <2>4. \A k \in Keys : Sound(k)' <=> Sound(k)
    <3> SUFFICES ASSUME NEW k \in Keys PROVE Sound(k)' <=> Sound(k)
      OBVIOUS
    <3>1. CASE k = removal.name
      BY <2>1, <2>3, <3>1 DEF Sound, BuiltParts, Part
    <3>2. CASE k # removal.name
      BY <2>1, <2>3, <3>2 DEF Sound, Names
    <3> QED  BY <3>1, <3>2
  <2>5. Held' = Held
    BY <2>4 DEF Held
  <2> QED  BY <1>8, <2>1, <2>5 DEF Clearing
<1>13. CASE SweepEnds
  <2>1. SchemeDirEmpty
    BY <1>4, <1>13 DEF SweepEnds, QuietInv, ClearInv, Clearing, InHand, SchemeDirEmpty
  <2> QED  BY <1>6, <1>8, <1>13, <2>1 DEF SweepEnds, Clearing, dirVars
<1>14. CASE RemoveScheme
  <2>1. SchemeDirEmpty
    BY <1>4, <1>14 DEF RemoveScheme, QuietInv, ClearInv, SchemeDirEmpty
  <2>2. clear = "rmdir" /\ clear' = "done" /\ Held' = Held /\ Held = {}
    BY <1>5, <1>6, <1>14, <2>1 DEF RemoveScheme
  <2>3. ClearPhase = "clearing" /\ ClearPhase' = "done"
    BY <2>2 DEF ClearPhase, Clearing
  <2>4. Store!EndClear
    BY <1>1, <1>3, <2>2, <2>3 DEF Store!EndClear
  <2> QED  BY <2>4 DEF Store!Next
<1> QED
  BY <1>1, <1>7, <1>9, <1>10, <1>11, <1>12, <1>13, <1>14 DEF Sweep

\* What a clear has still to delete of an environment is part of it.
LEMMA LeftStep == CacheInv /\ LeftInv /\ [Next]_vars => LeftInv'
<1> SUFFICES ASSUME CacheInv, LeftInv, [Next]_vars, Quiet', clear' = "rmtree", removal'.name \in Keys
             PROVE  removal'.left \subseteq BuiltParts(removal'.name)
  BY DEF LeftInv
<1>1. TypeOK
  BY DEF CacheInv, BaseInv
<1>2. CASE Quiet /\ clear' = clear /\ removal' = removal
  BY <1>2 DEF LeftInv
<1>3. ASSUME NEW w \in Workers, Begin(w) \/ Work(w) \/ Fails(w)
      PROVE  Quiet /\ clear' = clear /\ removal' = removal
  <2>1. UNCHANGED clearVars
    BY <1>3 DEF Work, Fails, Begin, Explain, PinFails, Resolve, Lookup, MakeTemp, CreateVenv, Install,
       BuildFails, DownloadFails, Interrupt, Replace, Check, Spawn, Exit, Stop, StopCleaning
  <2> QED  BY <1>3, <2>1, WorkerQuiet DEF clearVars
<1>4. CASE UNCHANGED vars
  BY <1>2, <1>4 DEF vars, clearVars, Quiet
<1>5. CASE Measure
  <2>1. Quiet /\ clear = "measure"
    BY <1>5 DEF Measure, Quiet
  <2>2. removal' = [removal EXCEPT !.dir = entry[removal.name], !.left = parts[entry[removal.name]]]
        /\ entry[removal.name] # None
    BY <1>5, <2>1 DEF Measure
  <2>3. removal'.name = removal.name /\ removal'.left = parts[entry[removal.name]]
    BY <1>1, <2>2 DEF TypeOK
  <2>4. Sound(removal.name)
    BY <2>1, <2>2, <2>3 DEF CacheInv, QuietInv, SlotInv
  <2> QED  BY <2>3, <2>4 DEF Sound
<1>6. ASSUME NEW p \in Part, RemovePart(p)
      PROVE  removal'.left \subseteq BuiltParts(removal'.name)
  <2>1. Quiet /\ clear = "rmtree"
    BY <1>6 DEF RemovePart, Quiet
  <2>2. removal'.name = removal.name /\ removal'.left = removal.left \ {p}
    BY <1>1, <1>6 DEF RemovePart, TypeOK
  <2> QED  BY <2>1, <2>2 DEF LeftInv
<1> QED
  BY <1>2, <1>3, <1>4, <1>5, <1>6
  DEF Next, Sweep, ClearStart, Visit, RemoveDir, SweepEnds, RemoveScheme, ClearKilled

\* The tool that was checked is still the one of the key in hand.
LEMMA ToolStep == CacheInv /\ ToolInv /\ [Next]_vars => ToolInv'
<1> SUFFICES ASSUME CacheInv, ToolInv, [Next]_vars, Quiet', NEW v \in Workers,
                    pc'[v] \in {"spawn", "running"}
             PROVE  Key(v)' \notin NoTool
  BY DEF ToolInv
<1>1. CASE Quiet /\ pc'[v] = pc[v] /\ todo'[v] = todo[v]
  BY <1>1 DEF ToolInv, Key
<1>2. CASE UNCHANGED vars
  BY <1>1, <1>2 DEF vars, workerVars, clearVars, Quiet
<1>3. CASE ClearStart \/ Sweep \/ ClearKilled
  BY <1>1, <1>3 DEF ClearStart, Sweep, Visit, Measure, RemovePart, RemoveDir, SweepEnds,
     RemoveScheme, ClearKilled, Quiet, workerVars
<1>4. ASSUME NEW w \in Workers, Begin(w) \/ Work(w) \/ Fails(w)
      PROVE  Key(v)' \notin NoTool
  <2>1. Quiet /\ Calm /\ BaseInv
    BY <1>4, WorkerQuiet
  <2>2. pc[w] # "done"
    BY <1>4 DEF Begin, Work, Fails, Explain, PinFails, Resolve, Lookup, MakeTemp,
       CreateVenv, Install, BuildFails, DownloadFails, Interrupt, Replace, Check, Spawn, Exit, Stop, StopCleaning, Active
  <2>3. Key(w) \in Keys /\ StageInv(w)
    BY <2>1, <2>2, KeyInHand DEF BaseInv, Calm
  <2>4. ASSUME NEW o \in Outcomes, Settle(w, o) \/ Raise(w, o)
        PROVE  Key(v)' \notin NoTool
    <3>1. Alone(w) /\ pc'[w] \in {"done", "explain"}
      BY <2>1, <2>2, <2>4, SettleMoves, RaiseMoves DEF BaseInv
    <3>2. v # w
      BY <3>1
    <3> QED  BY <1>1, <2>1, <3>1, <3>2 DEF Alone
  <2>5. ASSUME NEW stage \in Stages \ {"done"}, Goto(w, stage), UNCHANGED <<todo, outcome>>,
               stage \in {"spawn", "running"} => Key(w) \notin NoTool
        PROVE  Key(v)' \notin NoTool
    <3>1. Alone(w) /\ pc'[w] = stage /\ todo' = todo
      BY <2>1, <2>2, <2>5, GotoMoves DEF BaseInv
    <3>2. CASE v = w
      BY <2>5, <3>1, <3>2 DEF Key
    <3>3. CASE v # w
      BY <1>1, <2>1, <3>1, <3>3 DEF Alone
    <3> QED  BY <3>2, <3>3
  <2>6. CASE Begin(w) \/ Lookup(w) \/ MakeTemp(w) \/ CreateVenv(w) \/ Replace(w) \/ Interrupt(w)
            \/ Stop(w) \/ StopCleaning(w)
    BY <2>4, <2>5, <2>6
    DEF Begin, Lookup, MakeTemp, CreateVenv, Replace, Interrupt, Stop, StopCleaning, Stages, Outcomes
  <2>7. CASE Explain(w) \/ PinFails(w) \/ Resolve(w) \/ Install(w) \/ BuildFails(w) \/ DownloadFails(w) \/ Exit(w)
    BY <2>4, <2>5, <2>7 DEF Explain, PinFails, Resolve, Install, BuildFails, DownloadFails, Exit, Stages, Outcomes
  <2>8. CASE Check(w)
    <3>1. HasTool(Key(w)) => Key(w) \notin NoTool
      BY <2>1, <2>3 DEF HasTool, Calm, Sound, BuiltParts
    <3> QED  BY <2>4, <2>5, <2>8, <3>1 DEF Check, Stages, Outcomes
  <2>9. CASE Spawn(w)
    <3>1. Key(w) \notin NoTool
      BY <2>1, <2>9 DEF Spawn, ToolInv
    <3> QED  BY <2>4, <2>5, <2>9, <3>1 DEF Spawn, Stages, Outcomes
  <2> QED
    BY <1>4, <2>6, <2>7, <2>8, <2>9 DEF Work, Fails
<1> QED
  BY <1>2, <1>3, <1>4 DEF Next

\* The store is empty before the first step.
LEMMA InitRefines == Init => Store!Init /\ ToolInv /\ LeftInv
<1> SUFFICES ASSUME Init PROVE Store!Init /\ ToolInv /\ LeftInv
  OBVIOUS
<1>1. Held = {}
  BY DEF Init, Held, Sound, Names
<1>2. ClearPhase = "idle" /\ (overlapped \/ clear = "killed") = FALSE
  BY DEF Init, ClearPhase
<1>3. ToolInv /\ LeftInv
  BY DEF Init, ToolInv, LeftInv
<1> QED  BY <1>1, <1>2, <1>3 DEF Init, Store!Init

(***************************************************************************)
(* The cache implements a set of environments whose answers are true: each *)
(* appears at once and complete and stays until a clear, however workers   *)
(* race, fail and are killed, and a clear that meets none of them ends     *)
(* with nothing held.                                                      *)
(***************************************************************************)
THEOREM CacheImplementsStore == Spec => ImplementsStore
<1>1. CacheInv /\ CacheInv' /\ ToolInv /\ LeftInv /\ [Next]_vars => [Store!Next]_Store!vars
  <2> SUFFICES ASSUME CacheInv, CacheInv', ToolInv, LeftInv, [Next]_vars
               PROVE  Store!Next \/ UNCHANGED Store!vars
    OBVIOUS
  <2>1. CASE ~Quiet'
    <3>1. (overlapped \/ clear = "killed")' /\ clear' # "idle"
      BY <2>1 DEF Quiet, CacheInv, WarmInv
    <3>2. ClearPhase' # "idle"
      BY <3>1 DEF ClearPhase
    <3>3. Store!Spoil
      BY <3>1, <3>2 DEF Store!Spoil
    <3> QED  BY <3>3 DEF Store!Next
  <2>2. CASE UNCHANGED vars
    BY <2>2 DEF vars, workerVars, dirVars, clearVars, Store!vars, Held, Sound, ClearPhase, Clearing
  <2>3. CASE Quiet' /\ ~UNCHANGED vars
    BY <2>3, WorkerRefines, ClearRefines DEF Next
  <2> QED  BY <2>1, <2>2, <2>3
<1> QED
  BY <1>1, InitRefines, ToolStep, LeftStep, AlwaysCache, PTL DEF Spec, ImplementsStore, Store!Spec
=============================================================================
