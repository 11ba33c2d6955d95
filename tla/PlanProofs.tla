----------------------------- MODULE PlanProofs -----------------------------
(***************************************************************************)
(* Theorems about the planner: for every set of configs and contexts, what *)
(* build_plan hands to run_graph is a graph that the scheduler can work    *)
(* off, with every running hook in it once, as wide as it can be; and a    *)
(* cycle is reported exactly when there is one.                            *)
(***************************************************************************)
EXTENDS Plan, ConfigProofs

-----------------------------------------------------------------------------
(* The inductive invariant. *)

Verdicts == {"run", "offline", "env", "env-not", "on-ci", "branch", "files-match", "no files"}

StageInv ==
    /\ request \in Requests
    /\ context \in Contexts
    /\ stage \in {"select", "filter", "check", "sort"} \cup Ended
    /\ selected \in Seq(ToSet(request.hooks))
    /\ verdicts \in Seq(Verdicts)
    /\ Len(verdicts) <= Len(selected)
    /\ stage \in {"select", "unknown group", "unknown hook"} => verdicts = <<>>
    /\ stage \in {"check", "sort"} \cup (Ended \ {"unknown group", "unknown hook"}) =>
           Len(verdicts) = Len(selected)
    /\ levels # <<>> => stage \in {"sort", "planned", "cycle"}

VerdictInv == \A p \in DOMAIN verdicts : verdicts[p] = Verdict(selected[p])

\* The ids placed in the levels before l, and the hooks that are ready once some ids are done.
DoneBefore(l) == {selected[p].id : p \in UNION {levels[k] : k \in 1..(l - 1)}}
ReadyAfter(done) ==
    {p \in Running : /\ selected[p].id \notin done
                     /\ Deps(selected[p].id) \subseteq done}

\* A level holds all that was ready when it was made, and something was.
LevelInv ==
    /\ levels \in Seq(SUBSET Running)
    /\ \A l \in DOMAIN levels : levels[l] = ReadyAfter(DoneBefore(l)) /\ levels[l] # {}

EndInv ==
    /\ stage = "planned" => Remaining = {}
    /\ stage = "cycle" => Remaining # {} /\ Ready = {}

PlanInv == StageInv /\ VerdictInv /\ LevelInv /\ EndInv

-----------------------------------------------------------------------------
(* What the invariant says of the running hooks. *)

LEMMA RequestFacts ==
    ASSUME NEW r \in Requests
    PROVE  /\ r.hooks \in Seq(ToSet(r.hooks))
           /\ \A g \in DOMAIN r.groups : r.groups[g] \in Seq(ToSet(r.groups[g]))
BY RequestsAssumption

LEMMA RunningFacts ==
    ASSUME StageInv
    PROVE  /\ Len(selected) \in Nat /\ DOMAIN selected = 1..Len(selected)
           /\ Len(verdicts) \in Nat /\ DOMAIN verdicts = 1..Len(verdicts)
           /\ Running \subseteq 1..Len(selected) /\ Running \subseteq Nat
<1>1. selected \in Seq(ToSet(request.hooks)) /\ verdicts \in Seq(Verdicts)
  BY DEF StageInv
<1>2. Len(selected) \in Nat /\ DOMAIN selected = 1..Len(selected)
  BY <1>1
<1>3. Len(verdicts) \in Nat /\ DOMAIN verdicts = 1..Len(verdicts)
  BY <1>1
<1>4. Len(verdicts) <= Len(selected)
  BY DEF StageInv
<1>5. Running \subseteq 1..Len(verdicts)
  BY <1>3 DEF Running
<1>. QED
  BY <1>2, <1>3, <1>4, <1>5

\* What a verdict says: "run" when there is no hurdle, else which one was met.
LEMMA VerdictSays ==
    ASSUME NEW h
    PROVE  /\ Verdict(h) \in Verdicts
           /\ Verdict(h) = "run" => \A i \in 1..7 : ~Hurdles(h)[i][2]
<1> DEFINE I == {i \in 1..7 : Hurdles(h)[i][2]}
<1>1. I \subseteq 1..7 /\ Len(Hurdles(h)) = 7
  BY DEF Hurdles
<1>2. Verdict(h) = IF I # {} THEN Hurdles(h)[Min(I)][1] ELSE "run"
  BY <1>1, MinOfPositions DEF Verdict, SelectInSeq
<1>3. CASE I = {}
  BY <1>2, <1>3 DEF Verdicts
<1>4. CASE I # {}
  <2>1. Min(I) \in 1..7
    BY <1>1, <1>4, MinOfPositions
  <2>2. \A i \in 1..7 : Hurdles(h)[i][1] \in Verdicts \ {"run"}
    <3> SUFFICES ASSUME NEW i \in 1..7 PROVE Hurdles(h)[i][1] \in Verdicts \ {"run"}
      OBVIOUS
    <3>1. i = 1 \/ i = 2 \/ i = 3 \/ i = 4 \/ i = 5 \/ i = 6 \/ i = 7
      OBVIOUS
    <3>2. /\ Hurdles(h)[1][1] = "offline" /\ Hurdles(h)[2][1] = "env"
          /\ Hurdles(h)[3][1] = "env-not" /\ Hurdles(h)[4][1] = "on-ci"
          /\ Hurdles(h)[5][1] = "branch" /\ Hurdles(h)[6][1] = "files-match"
          /\ Hurdles(h)[7][1] = "no files"
      BY DEF Hurdles
    <3>. QED
      BY <3>1, <3>2 DEF Verdicts
  <2>. QED
    BY <1>2, <1>4, <2>1, <2>2
<1>. QED
  BY <1>3, <1>4

\* A verdict is a matter of the hook and the context.
LEMMA VerdictKeeps ==
    ASSUME context' = context, NEW h
    PROVE  Verdict(h)' = Verdict(h)
<1>1. Hurdles(h)' = Hurdles(h)
  BY DEF Hurdles, IsSet, Offline, OnCi, BranchForbids, FilesForbid, NothingRouted, RoutedFiles
<1>. QED
  BY <1>1 DEF Verdict, SelectInSeq

\* The definition that stands for a running id is that of a running hook with the id.
LEMMA RunningDefinitionFound ==
    ASSUME StageInv, NEW id \in RunningIds
    PROVE  \E p \in Running : selected[p].id = id /\ RunningDefinition(id) = selected[p]
<1> DEFINE P == {p \in Running : selected[p].id = id}
<1>1. P \subseteq 1..Len(selected) /\ P # {} /\ Len(selected) \in Nat
  BY RunningFacts DEF RunningIds
<1>2. Max(P) \in P
  BY <1>1, MaxOfPositions
<1>. QED
  BY <1>2 DEF RunningDefinition

LEMMA DoneIsDoneBefore ==
    ASSUME LevelInv
    PROVE  /\ Len(levels) \in Nat /\ DOMAIN levels = 1..Len(levels)
           /\ Done = DoneBefore(Len(levels) + 1)
<1>1. Len(levels) \in Nat /\ DOMAIN levels = 1..Len(levels)
  BY DEF LevelInv
<1>2. UNION Range(levels) = UNION {levels[k] : k \in 1..((Len(levels) + 1) - 1)}
  BY <1>1 DEF Range
<1>. QED
  BY <1>1, <1>2 DEF Done, DoneBefore

LEMMA ReadyIsReadyAfter == Ready = ReadyAfter(Done)
BY DEF Ready, ReadyAfter, IsReady, Remaining, RunningIds

-----------------------------------------------------------------------------
(* The invariant is inductive. *)

LEMMA PlanInit == Init => PlanInv
<1> SUFFICES ASSUME Init PROVE PlanInv
  OBVIOUS
<1>1. StageInv
  BY DEF Init, StageInv, Ended
<1>2. VerdictInv
  BY DEF Init, VerdictInv
<1>3. LevelInv
  BY DEF Init, LevelInv
<1>4. EndInv
  BY DEF Init, EndInv
<1>. QED
  BY <1>1, <1>2, <1>3, <1>4 DEF PlanInv

\* What a step that selects, filters and sorts nothing leaves as it is.
LEMMA LevelsKeep ==
    ASSUME LevelInv, UNCHANGED <<selected, verdicts, levels>>
    PROVE  LevelInv'
<1>1. Running' = Running /\ RunningIds' = RunningIds
  BY DEF Running, RunningIds
<1>2. \A l : DoneBefore(l)' = DoneBefore(l)
  BY DEF DoneBefore
<1>3. \A id : Deps(id)' = Deps(id)
  BY <1>1 DEF Deps, RunningDefinition
<1>4. \A done : ReadyAfter(done)' = ReadyAfter(done)
  BY <1>1, <1>3 DEF ReadyAfter
<1>. QED
  BY <1>1, <1>2, <1>4 DEF LevelInv

LEMMA SelectKeeps == PlanInv /\ Select => PlanInv'
<1> SUFFICES ASSUME PlanInv, Select PROVE PlanInv'
  OBVIOUS
<1> USE DEF PlanInv
<1>1. stage = "select" /\ verdicts = <<>> /\ levels = <<>>
  BY DEF Select, StageInv, Ended
<1>2. UNCHANGED <<request, context, verdicts, levels>>
  BY DEF Select
<1>3. /\ selected' \in Seq(ToSet(request.hooks))
      /\ stage' \in {"filter", "unknown group", "unknown hook"}
  <2> DEFINE listed == request.groups[request.group]
  <2>1. CASE request.group = None
    BY <2>1, RequestFacts DEF Select, StageInv
  <2>2. CASE request.group # None /\ request.group \notin DOMAIN request.groups
    BY <2>2 DEF Select, StageInv
  <2>3. CASE /\ request.group # None /\ request.group \in DOMAIN request.groups
             /\ ToSet(listed) \subseteq IdsOf(request.hooks)
    <3> DEFINE ids == FirstMentions(listed)
    <3>1. /\ selected' = [p \in DOMAIN ids |-> Definition(request.hooks, ids[p])]
          /\ stage' = "filter"
      BY <2>3 DEF Select
    <3>2. listed \in Seq(ToSet(listed)) /\ request.hooks \in Seq(ToSet(request.hooks))
      BY <2>3, RequestFacts DEF StageInv
    <3>3. ids \in Seq(ToSet(listed))
      BY <3>2, FirstMentionsOnce
    <3> HIDE DEF ids
    <3>4. \A p \in DOMAIN ids : Definition(request.hooks, ids[p]) \in ToSet(request.hooks)
      BY <2>3, <3>2, <3>3, DefinitionFound
    <3>. QED
      BY <3>1, <3>3, <3>4
  <2>4. CASE /\ request.group # None /\ request.group \in DOMAIN request.groups
             /\ ~(ToSet(listed) \subseteq IdsOf(request.hooks))
    BY <2>4 DEF Select, StageInv
  <2>. QED
    BY <2>1, <2>2, <2>3, <2>4
<1>4. StageInv'
  <2>1. verdicts' = <<>> /\ levels' = <<>>
    BY <1>1, <1>2
  <2>2. verdicts' \in Seq(Verdicts) /\ Len(verdicts') = 0
    BY <2>1, EmptySeq
  <2>3. Len(selected') \in Nat
    <3>1. selected' \in Seq(ToSet(request.hooks))
      BY <1>3
    <3>. QED
      BY <3>1, LenProperties
  <2>4. Len(verdicts') <= Len(selected')
    BY <2>2, <2>3
  <2>5. selected' \in Seq(ToSet(request'.hooks))
    BY <1>2, <1>3
  <2>6. request' \in Requests /\ context' \in Contexts
    BY <1>2 DEF StageInv
  <2>. QED
    BY <1>3, <2>1, <2>2, <2>4, <2>5, <2>6 DEF StageInv, Ended
<1>5. VerdictInv'
  BY <1>1, <1>2 DEF VerdictInv
<1>6. LevelInv'
  BY <1>1, <1>2 DEF LevelInv
<1>7. EndInv'
  BY <1>3 DEF EndInv
<1>. QED
  BY <1>4, <1>5, <1>6, <1>7

LEMMA FilterKeeps == PlanInv /\ Filter => PlanInv'
<1> SUFFICES ASSUME PlanInv, Filter PROVE PlanInv'
  OBVIOUS
<1> USE DEF PlanInv
<1> DEFINE next == Len(verdicts) + 1
<1>1. stage = "filter" /\ levels = <<>> /\ UNCHANGED <<request, context, selected, levels>>
  BY DEF Filter, StageInv, Ended
<1>2. \A h : Verdict(h)' = Verdict(h)
  BY <1>1, VerdictKeeps
<1>3. CASE Len(verdicts) < Len(selected)
  <2>1. verdicts' = Append(verdicts, Verdict(selected[next])) /\ stage' = stage
    BY <1>3 DEF Filter
  <2>2. /\ verdicts' \in Seq(Verdicts) /\ DOMAIN verdicts' = 1..next
        /\ Len(verdicts') = next /\ next <= Len(selected)
        /\ verdicts'[next] = Verdict(selected[next])
        /\ \A p \in DOMAIN verdicts : verdicts'[p] = verdicts[p]
    <3>1. Verdict(selected[next]) \in Verdicts /\ verdicts \in Seq(Verdicts)
      BY VerdictSays DEF StageInv
    <3>2. /\ Len(selected) \in Nat /\ Len(verdicts) \in Nat
          /\ DOMAIN verdicts = 1..Len(verdicts)
      BY RunningFacts
    <3>. QED
      BY <1>3, <2>1, <3>1, <3>2
  <2>3. StageInv'
    BY <1>1, <2>1, <2>2 DEF StageInv, Ended
  <2>4. VerdictInv'
    <3> SUFFICES ASSUME NEW p \in 1..next PROVE verdicts'[p] = Verdict(selected[p])
      BY <1>1, <1>2, <2>2 DEF VerdictInv
    <3>. QED
      BY <2>2, RunningFacts DEF VerdictInv
  <2>. QED
    BY <1>1, <2>1, <2>3, <2>4 DEF EndInv, LevelInv
<1>4. CASE ~(Len(verdicts) < Len(selected))
  <2>1. stage' = "check" /\ verdicts' = verdicts /\ Len(verdicts) = Len(selected)
    BY <1>4, RunningFacts DEF Filter, StageInv
  <2>2. StageInv'
    BY <1>1, <2>1 DEF StageInv, Ended
  <2>3. VerdictInv'
    BY <1>1, <1>2, <2>1 DEF VerdictInv
  <2>. QED
    BY <1>1, <2>1, <2>2, <2>3 DEF EndInv, LevelInv
<1>. QED
  BY <1>3, <1>4

LEMMA CheckKeeps == PlanInv /\ CheckDependencies => PlanInv'
<1> SUFFICES ASSUME PlanInv, CheckDependencies PROVE PlanInv'
  OBVIOUS
<1> USE DEF PlanInv
<1>1. /\ stage = "check" /\ stage' \in {"sort", "unknown dependency"} /\ levels = <<>>
      /\ UNCHANGED <<request, context, selected, verdicts, levels>>
  BY DEF CheckDependencies, StageInv, Ended
<1>2. StageInv' /\ VerdictInv'
  BY <1>1, VerdictKeeps DEF StageInv, VerdictInv, Ended
<1>. QED
  BY <1>1, <1>2, LevelsKeep DEF EndInv

LEMMA SortKeeps == PlanInv /\ Sort => PlanInv'
<1> SUFFICES ASSUME PlanInv, Sort PROVE PlanInv'
  OBVIOUS
<1> USE DEF PlanInv
<1>1. stage = "sort" /\ UNCHANGED <<request, context, selected, verdicts>>
  BY DEF Sort
<1>2. stage' \in {"sort", "planned", "cycle"}
  BY DEF Sort
<1>3. StageInv' /\ VerdictInv'
  BY <1>1, <1>2, VerdictKeeps DEF StageInv, VerdictInv, Ended
<1>4. Running' = Running /\ RunningIds' = RunningIds
  BY <1>1 DEF Running, RunningIds
<1>5. \A id : Deps(id)' = Deps(id)
  BY <1>1, <1>4 DEF Deps, RunningDefinition
<1>6. CASE Remaining = {} \/ Ready = {}
  <2>1. UNCHANGED levels /\ stage' = IF Remaining = {} THEN "planned" ELSE "cycle"
    BY <1>6 DEF Sort
  <2>2. LevelInv'
    BY <1>1, <2>1, LevelsKeep
  <2>3. Remaining' = Remaining /\ Ready' = Ready
    BY <1>1, <1>4, <1>5, <2>1 DEF Remaining, Done, Ready, IsReady
  <2>. QED
    BY <1>3, <1>6, <2>1, <2>2, <2>3 DEF EndInv
<1>7. CASE Remaining # {} /\ Ready # {}
  <2>1. levels' = Append(levels, Ready) /\ stage' = "sort"
    BY <1>1, <1>7 DEF Sort
  <2>2. LevelInv'
    <3> DEFINE last == Len(levels) + 1
    <3>1. Ready \subseteq Running /\ levels \in Seq(SUBSET Running) /\ Len(levels) \in Nat
      BY DEF LevelInv, Ready
    <3>2. /\ levels' \in Seq(SUBSET Running) /\ DOMAIN levels' = 1..last
          /\ \A k \in 1..Len(levels) : levels'[k] = levels[k]
          /\ levels'[last] = Ready
      BY <2>1, <3>1
    <3>3. ASSUME NEW l \in 1..last PROVE DoneBefore(l)' = DoneBefore(l)
      <4>1. \A k \in 1..(l - 1) : levels'[k] = levels[k]
        BY <3>1, <3>2
      <4>. QED
        BY <1>1, <4>1 DEF DoneBefore
    <3>4. \A done : ReadyAfter(done)' = ReadyAfter(done)
      BY <1>1, <1>4, <1>5 DEF ReadyAfter
    <3>5. ASSUME NEW l \in 1..last
          PROVE  levels'[l] = ReadyAfter(DoneBefore(l))' /\ levels'[l] # {}
      <4>1. CASE l = last
        BY <1>7, <3>2, <3>3, <3>4, <4>1, ReadyIsReadyAfter, DoneIsDoneBefore
      <4>2. CASE l # last
        <5>1. l \in DOMAIN levels
          BY <3>1, <4>2
        <5>2. levels[l] = ReadyAfter(DoneBefore(l)) /\ levels[l] # {}
          BY <5>1 DEF LevelInv
        <5>. QED
          BY <3>1, <3>2, <3>3, <3>4, <4>2, <5>2
      <4>. QED
        BY <4>1, <4>2
    <3>. QED
      BY <1>4, <3>2, <3>5 DEF LevelInv
  <2>. QED
    BY <1>3, <2>1, <2>2 DEF EndInv
<1>. QED
  BY <1>6, <1>7

LEMMA PlanStep == PlanInv /\ [Next]_vars => PlanInv'
<1> SUFFICES ASSUME PlanInv, [Next]_vars PROVE PlanInv'
  OBVIOUS
<1>1. CASE UNCHANGED vars
  <2> USE DEF PlanInv
  <2>1. UNCHANGED <<request, context, stage, selected, verdicts, levels>>
    BY <1>1 DEF vars
  <2>2. StageInv' /\ VerdictInv'
    BY <2>1, VerdictKeeps DEF StageInv, VerdictInv
  <2>3. LevelInv'
    BY <2>1, LevelsKeep
  <2>4. EndInv'
    <3>1. Running' = Running /\ RunningIds' = RunningIds /\ Done' = Done
      BY <2>1 DEF Running, RunningIds, Done
    <3>2. \A id : Deps(id)' = Deps(id)
      BY <2>1, <3>1 DEF Deps, RunningDefinition
    <3>. QED
      BY <2>1, <3>1, <3>2 DEF EndInv, Remaining, Ready, IsReady
  <2>. QED
    BY <2>2, <2>3, <2>4
<1>2. CASE Terminated
  BY <1>1, <1>2 DEF Terminated
<1>. QED
  BY <1>1, <1>2, SelectKeeps, FilterKeeps, CheckKeeps, SortKeeps DEF Next

\* What the invariant says is true of every plan in the making.
THEOREM PlannerInvariant == Spec => []PlanInv
BY PlanInit, PlanStep, PTL DEF Spec

(***************************************************************************)
(* The variables keep their types: what is selected are hooks of the       *)
(* config, and what the levels hold are running hooks.                     *)
(***************************************************************************)
THEOREM PlannerTypeCorrect == Spec => []TypeOK
<1>1. PlanInv => TypeOK
  <2> SUFFICES ASSUME PlanInv PROVE TypeOK
    OBVIOUS
  <2> USE DEF PlanInv
  <2>1. ASSUME NEW p \in DOMAIN selected PROVE selected[p].id \in IdsOf(request.hooks)
    <3>1. selected[p] \in ToSet(request.hooks)
      BY RunningFacts, ElementOfSeq DEF StageInv
    <3>. QED
      BY <3>1 DEF ToSet, IdsOf
  <2>2. IdsOf(selected) \subseteq IdsOf(request.hooks)
    BY <2>1 DEF IdsOf
  <2>3. \A l \in DOMAIN levels : levels[l] \subseteq Running
    BY DEF LevelInv, ReadyAfter
  <2>. QED
    BY <2>2, <2>3 DEF TypeOK, StageInv, Range
<1>. QED
  BY <1>1, PlannerInvariant, PTL

-----------------------------------------------------------------------------
(* Where the running hooks are. *)

\* The hooks of one id are in one level, and only in that one.
LEMMA OneLevel ==
    ASSUME PlanInv, NEW k \in DOMAIN levels, NEW p \in levels[k],
           NEW l \in DOMAIN levels, NEW q \in levels[l], selected[p].id = selected[q].id
    PROVE  k = l
<1> USE DEF PlanInv
<1>1. k \in Nat /\ l \in Nat
  BY DoneIsDoneBefore
<1>2. selected[p].id \notin DoneBefore(k) /\ selected[q].id \notin DoneBefore(l)
  BY DEF LevelInv, ReadyAfter
<1>3. ~(k < l)
  <2> SUFFICES ASSUME k < l PROVE FALSE
    OBVIOUS
  <2>1. k \in 1..(l - 1)
    BY <1>1, DoneIsDoneBefore
  <2>. QED
    BY <1>2, <2>1 DEF DoneBefore
<1>4. ~(l < k)
  <2> SUFFICES ASSUME l < k PROVE FALSE
    OBVIOUS
  <2>1. l \in 1..(k - 1)
    BY <1>1, DoneIsDoneBefore
  <2>. QED
    BY <1>2, <2>1 DEF DoneBefore
<1>. QED
  BY <1>1, <1>3, <1>4

\* What a placed hook depends on is placed in an earlier level.
LEMMA DepsAreLower ==
    ASSUME PlanInv, NEW l \in DOMAIN levels, NEW p \in levels[l], NEW d \in Deps(selected[p].id)
    PROVE  \E k \in 1..(l - 1) : k \in DOMAIN levels /\ \E q \in levels[k] : selected[q].id = d
<1> USE DEF PlanInv
<1>1. d \in DoneBefore(l)
  BY DEF LevelInv, ReadyAfter
<1>2. PICK k \in 1..(l - 1) : \E q \in levels[k] : selected[q].id = d
  BY <1>1 DEF DoneBefore
<1>3. k \in DOMAIN levels
  BY DoneIsDoneBefore
<1>. QED
  BY <1>2, <1>3

\* When planning is over, every running hook is placed.
LEMMA AllPlaced ==
    ASSUME PlanInv, stage = "planned", NEW p \in Running
    PROVE  \E l \in DOMAIN levels : p \in levels[l]
<1> USE DEF PlanInv
<1>1. selected[p].id \in Done
  BY DEF EndInv, Remaining, RunningIds
<1>2. PICK l \in DOMAIN levels : \E q \in levels[l] : selected[q].id = selected[p].id
  BY <1>1 DEF Done, Range
<1>3. p \in ReadyAfter(DoneBefore(l))
  BY <1>2 DEF LevelInv, ReadyAfter
<1>. QED
  BY <1>3 DEF LevelInv

(***************************************************************************)
(* Levels are as wide as they can be: a hook has a dependency in the level *)
(* before its own, or it would have been ready earlier.                    *)
(***************************************************************************)
THEOREM LevelsAlwaysAsEarlyAsPossible == Spec => []LevelsAsEarlyAsPossible
<1>1. PlanInv => LevelsAsEarlyAsPossible
  <2> SUFFICES ASSUME PlanInv, NEW l \in DOMAIN levels, NEW p \in levels[l], l > 1
               PROVE  \E q \in levels[l - 1] : selected[q].id \in Deps(selected[p].id)
    BY DEF LevelsAsEarlyAsPossible
  <2> USE DEF PlanInv
  <2>1. l \in Nat /\ l - 1 \in DOMAIN levels
    BY DoneIsDoneBefore
  <2>2. /\ p \in Running /\ selected[p].id \notin DoneBefore(l)
        /\ Deps(selected[p].id) \subseteq DoneBefore(l)
    BY DEF LevelInv, ReadyAfter
  <2>3. DoneBefore(l) = DoneBefore(l - 1) \cup {selected[q].id : q \in levels[l - 1]}
    <3>1. 1..(l - 1) = (1..((l - 1) - 1)) \cup {l - 1}
      BY <2>1
    <3>. QED
      BY <3>1 DEF DoneBefore
  <2>4. CASE Deps(selected[p].id) \subseteq DoneBefore(l - 1)
    <3>1. p \in levels[l - 1]
      BY <2>1, <2>2, <2>3, <2>4 DEF LevelInv, ReadyAfter
    <3>. QED
      BY <2>2, <2>3, <3>1
  <2>5. CASE ~(Deps(selected[p].id) \subseteq DoneBefore(l - 1))
    BY <2>2, <2>3, <2>5
  <2>. QED
    BY <2>4, <2>5
<1>. QED
  BY <1>1, PlannerInvariant, PTL

(***************************************************************************)
(* build_plan reports a cycle exactly when there is one: when nothing is   *)
(* ready, each remaining id depends on a remaining one; and when all is    *)
(* placed, a set in which each depends on a member would have no member of *)
(* the lowest level.                                                       *)
(***************************************************************************)
THEOREM CyclesAlwaysReported == Spec => []CyclesReported
<1>1. PlanInv /\ stage = "cycle" => HasCycle
  <2> SUFFICES ASSUME PlanInv, stage = "cycle" PROVE HasCycle
    OBVIOUS
  <2> USE DEF PlanInv
  <2>1. Remaining # {} /\ Ready = {} /\ Remaining \in (SUBSET RunningIds) \ {{}}
    BY DEF EndInv, Remaining
  <2>2. ASSUME NEW id \in Remaining PROVE RunningDefinition(id).dependsOn \cap Remaining # {}
    <3>1. PICK p \in Running : selected[p].id = id
      BY DEF Remaining, RunningIds
    <3>2. ~(Deps(id) \subseteq Done)
      BY <2>1, <3>1 DEF Ready, IsReady
    <3>. QED
      BY <3>2 DEF Deps, Remaining
  <2>. QED
    BY <2>1, <2>2 DEF HasCycle
<1>2. PlanInv /\ stage = "planned" => ~HasCycle
  <2> SUFFICES ASSUME PlanInv, stage = "planned", NEW S \in (SUBSET RunningIds) \ {{}},
                      \A id \in S : RunningDefinition(id).dependsOn \cap S # {}
               PROVE  FALSE
    BY DEF HasCycle
  <2> USE DEF PlanInv
  <2> DEFINE lvls == {l \in DOMAIN levels : \E p \in levels[l] : selected[p].id \in S}
  <2>1. lvls \subseteq 1..Len(levels) /\ Len(levels) \in Nat
    BY DoneIsDoneBefore
  <2>2. lvls # {}
    <3>1. PICK p \in Running : selected[p].id \in S
      BY DEF RunningIds
    <3>. QED
      BY <3>1, AllPlaced
  <2>3. Min(lvls) \in lvls /\ \A l \in lvls : Min(lvls) <= l
    BY <2>1, <2>2, MinOfPositions
  <2>4. PICK p \in levels[Min(lvls)] : selected[p].id \in S
    BY <2>3
  <2>5. PICK d \in Deps(selected[p].id) : d \in S
    BY <2>4 DEF Deps
  <2>6. PICK k \in 1..(Min(lvls) - 1) : k \in DOMAIN levels /\ \E q \in levels[k] : selected[q].id = d
    BY <2>3, <2>4, <2>5, DepsAreLower
  <2>7. k \in lvls
    BY <2>5, <2>6
  <2> HIDE DEF lvls
  <2>. QED
    BY <2>1, <2>3, <2>6, <2>7
<1>. QED
  BY <1>1, <1>2, PlannerInvariant, PTL DEF CyclesReported

(***************************************************************************)
(* A planned hook that takes files is given at least one whenever the      *)
(* changeset is known: the last hurdle would have skipped it.              *)
(***************************************************************************)
THEOREM NeverOnNothing == Spec => []NeverRunsOnNothing
<1>1. PlanInv => NeverRunsOnNothing
  <2> SUFFICES ASSUME PlanInv, context.changed # None, NEW id \in RunningIds,
                      RunningDefinition(id).passFiles
               PROVE  RoutedFiles(RunningDefinition(id)) # {}
    BY DEF NeverRunsOnNothing
  <2> USE DEF PlanInv
  <2>1. PICK p \in Running : RunningDefinition(id) = selected[p]
    BY RunningDefinitionFound
  <2>2. Verdict(selected[p]) = "run"
    BY DEF VerdictInv, Running
  <2>3. ~Hurdles(selected[p])[7][2]
    BY <2>2, VerdictSays
  <2>4. ~NothingRouted(selected[p])
    BY <2>3 DEF Hurdles
  <2>. QED
    BY <2>1, <2>4 DEF NothingRouted
<1>. QED
  BY <1>1, PlannerInvariant, PTL

-----------------------------------------------------------------------------
(* The graph. *)

LEMMA PlaceFacts ==
    ASSUME PlanInv
    PROVE  /\ Places \subseteq (1..Len(levels)) \X (1..Len(selected))
           /\ Places \subseteq Nat \X Nat
           /\ \A e \in Places : e[1] \in DOMAIN levels /\ e[2] \in levels[e[1]] /\ e[2] \in Running
           /\ IsFiniteSet(Places)
           /\ StrictTotalOrder(Places, PlaceOrder)
<1> USE DEF PlanInv
<1>1. ASSUME NEW e \in Places
      PROVE  /\ e = <<e[1], e[2]>> /\ e[1] \in DOMAIN levels /\ e[2] \in levels[e[1]]
             /\ e[2] \in Running
  <2>1. PICK l \in DOMAIN levels : e \in {l} \X levels[l]
    BY DEF Places
  <2>2. levels[l] \subseteq Running
    BY DEF LevelInv, ReadyAfter
  <2>. QED
    BY <2>1, <2>2
<1>2. Places \in SUBSET ((1..Len(levels)) \X (1..Len(selected)))
  BY <1>1, DoneIsDoneBefore, RunningFacts
<1>3. Len(levels) \in Nat /\ Len(selected) \in Nat
  BY DoneIsDoneBefore, RunningFacts
<1>4. IsFiniteSet((1..Len(levels)) \X (1..Len(selected)))
  <2>1. IsFiniteSet(1..Len(levels)) /\ IsFiniteSet(1..Len(selected))
    BY <1>3, FS_Interval
  <2>. QED
    BY <2>1, FS_Product
<1>5. IsFiniteSet(Places)
  BY <1>2, <1>4, FS_Subset
<1>6. StrictTotalOrder(Places, PlaceOrder)
  <2>1. \A e \in Places : e = <<e[1], e[2]>> /\ e[1] \in Nat /\ e[2] \in Nat
    BY <1>2, <1>3
  <2>2. \A d, e \in Places :
           <<d, e>> \in PlaceOrder <=> d[1] < e[1] \/ (d[1] = e[1] /\ d[2] < e[2])
    BY DEF PlaceOrder
  <2>. QED
    BY <2>1, <2>2 DEF StrictTotalOrder
<1>. QED
  BY <1>1, <1>2, <1>3, <1>5, <1>6

\* The nodes are the hooks of the places, which come in the order of the places.
PlaceOf(i) == InOrder(Places, PlaceOrder)[i]

LEMMA NodeFacts ==
    ASSUME PlanInv
    PROVE  /\ Cardinality(Places) \in Nat
           /\ Nodes \in Seq(Running)
           /\ Len(Nodes) = Cardinality(Places) /\ DOMAIN Nodes = 1..Cardinality(Places)
           /\ \A i \in DOMAIN Nodes : PlaceOf(i) \in Places /\ Nodes[i] = PlaceOf(i)[2]
           /\ \A e \in Places : \E i \in DOMAIN Nodes : PlaceOf(i) = e
           /\ \A i, j \in DOMAIN Nodes : PlaceOf(i)[1] < PlaceOf(j)[1] => i < j
<1> DEFINE n == Cardinality(Places)
<1>1. n \in Nat
  BY PlaceFacts, FS_CardinalityType
<1>2. Nodes = [i \in 1..n |-> PlaceOf(i)[2]]
  BY DEF Nodes, PlaceOf
<1>3. /\ \A i \in 1..n : PlaceOf(i) \in Places
      /\ \A e \in Places : \E i \in 1..n : PlaceOf(i) = e
      /\ \A i, j \in 1..n : i < j <=> <<PlaceOf(i), PlaceOf(j)>> \in PlaceOrder
  <2>1. IsFiniteSet(Places) /\ StrictTotalOrder(Places, PlaceOrder)
    BY PlaceFacts
  <2> DEFINE s == InOrder(Places, PlaceOrder)
  <2>2. /\ s \in [1..n -> Places]
        /\ \A e \in Places : \E i \in 1..n : s[i] = e
        /\ \A i, j \in 1..n : i < j <=> <<s[i], s[j]>> \in PlaceOrder
    BY <2>1, InOrderSorts
  <2> HIDE DEF s
  <2>3. \A i : PlaceOf(i) = s[i]
    BY DEF PlaceOf, s
  <2>. QED
    BY <2>2, <2>3
<1>4. \A i \in 1..n : PlaceOf(i)[2] \in Running
  BY <1>3, PlaceFacts
<1>5. Nodes \in [1..n -> Running]
  BY <1>2, <1>4
<1>6. Nodes \in Seq(Running) /\ Len(Nodes) = n
  BY <1>1, <1>5
<1>7. \A i, j \in 1..n : PlaceOf(i)[1] < PlaceOf(j)[1] => i < j
  BY <1>3 DEF PlaceOrder
<1>. QED
  BY <1>1, <1>2, <1>3, <1>5, <1>6, <1>7

(***************************************************************************)
(* Every selected hook that no condition skips is a node of the graph,     *)
(* exactly once: its place is the only one that holds it.                  *)
(***************************************************************************)
THEOREM EveryRunningHookAlwaysPlanned == Spec => []EveryRunningHookPlanned
<1>1. PlanInv => EveryRunningHookPlanned
  <2> SUFFICES ASSUME PlanInv, stage = "planned"
               PROVE  /\ Len(verdicts) = Len(selected)
                      /\ ToSet(Nodes) = Running
                      /\ Len(Nodes) = Cardinality(Running)
    BY DEF EveryRunningHookPlanned
  <2>1. Len(verdicts) = Len(selected)
    BY DEF PlanInv, StageInv, Ended
  <2>2. ASSUME NEW p \in Running PROVE \E e \in Places : e[2] = p
    <3>1. PICK l \in DOMAIN levels : p \in levels[l]
      BY AllPlaced
    <3>2. <<l, p>> \in Places
      BY <3>1 DEF Places
    <3>. QED
      BY <3>2
  <2>3. ToSet(Nodes) = Running
    <3>1. ASSUME NEW p \in Running PROVE p \in ToSet(Nodes)
      <4>1. PICK e \in Places : e[2] = p
        BY <2>2
      <4>2. PICK i \in DOMAIN Nodes : PlaceOf(i) = e
        BY NodeFacts
      <4>. QED
        BY <4>1, <4>2, NodeFacts DEF ToSet
    <3>2. ASSUME NEW i \in DOMAIN Nodes PROVE Nodes[i] \in Running
      BY NodeFacts, PlaceFacts
    <3>. QED
      BY <3>1, <3>2 DEF ToSet
  <2>4. Len(Nodes) = Cardinality(Running)
    <3> DEFINE hookAt == [e \in Places |-> e[2]]
    <3>1. hookAt \in [Places -> Running]
      BY PlaceFacts
    <3>2. ASSUME NEW d \in Places, NEW e \in Places, d[2] = e[2] PROVE d = e
      <4>1. d[1] = e[1]
        BY <3>2, PlaceFacts, OneLevel
      <4>2. d = <<d[1], d[2]>> /\ e = <<e[1], e[2]>>
        BY PlaceFacts
      <4>. QED
        BY <3>2, <4>1, <4>2
    <3>3. hookAt \in Bijection(Places, Running)
      BY <2>2, <3>1, <3>2 DEF Bijection, Injection, IsInjective, Surjection
    <3>4. Cardinality(Running) = Cardinality(Places)
      BY <3>3, PlaceFacts, FS_Bijection DEF ExistsBijection
    <3>. QED
      BY <3>4, NodeFacts
  <2>. QED
    BY <2>1, <2>3, <2>4
<1>. QED
  BY <1>1, PlannerInvariant, PTL

(***************************************************************************)
(* Each dependency of a node has a smaller index, which is what RunGraph   *)
(* assumes of its arguments: a dependency is placed in an earlier level,   *)
(* and so are all nodes that carry its id.                                 *)
(***************************************************************************)
THEOREM DependenciesAlwaysAscend == Spec => []DependenciesAscend
<1>1. PlanInv => DependenciesAscend
  <2> SUFFICES ASSUME PlanInv, NEW i \in DOMAIN Nodes,
                      NEW id \in RunningDefinition(selected[Nodes[i]].id).dependsOn \cap RunningIds
               PROVE  IndexOf(id) \in 1..(i - 1)
    BY DEF DependenciesAscend, Workable, DepIndexes
  <2> DEFINE place == PlaceOf(i)
             I == {j \in 1..Len(Nodes) : selected[Nodes[j]].id = id}
  <2>1. /\ place \in Places /\ Nodes[i] = place[2]
        /\ place[1] \in DOMAIN levels /\ place[2] \in levels[place[1]]
    BY NodeFacts, PlaceFacts
  <2>2. id \in Deps(selected[place[2]].id)
    BY <2>1 DEF Deps
  <2>3. PICK k \in 1..(place[1] - 1) :
               k \in DOMAIN levels /\ \E q \in levels[k] : selected[q].id = id
    BY <2>1, <2>2, DepsAreLower
  <2>4. PICK q \in levels[k] : selected[q].id = id
    BY <2>3
  <2>5. <<k, q>> \in Places
    BY <2>3 DEF Places
  <2>6. PICK j \in DOMAIN Nodes : PlaceOf(j) = <<k, q>>
    BY <2>5, NodeFacts
  <2>7. I # {} /\ I \subseteq 1..Len(Nodes) /\ Len(Nodes) \in Nat
    BY <2>4, <2>6, NodeFacts
  <2>8. IndexOf(id) = Max(I) /\ Max(I) \in I
    BY <2>7, MaxOfPositions DEF IndexOf, SelectLastInSeq
  <2>9. Max(I) \in DOMAIN Nodes /\ selected[Nodes[Max(I)]].id = id
    BY <2>8, NodeFacts
  <2> DEFINE m == Max(I)
  <2> HIDE DEF m
  <2>10. /\ PlaceOf(m) \in Places /\ Nodes[m] = PlaceOf(m)[2]
         /\ PlaceOf(m)[1] \in DOMAIN levels /\ PlaceOf(m)[2] \in levels[PlaceOf(m)[1]]
         /\ m \in DOMAIN Nodes /\ selected[Nodes[m]].id = id
    BY <2>9, NodeFacts, PlaceFacts DEF m
  <2>11. PlaceOf(m)[1] = k
    BY <2>3, <2>4, <2>10, OneLevel
  <2>12. place[1] \in Nat
    BY <2>1, PlaceFacts
  <2>13. PlaceOf(m)[1] < PlaceOf(i)[1]
    BY <2>11, <2>12
  <2>14. m < i
    BY <2>10, <2>13, NodeFacts
  <2>15. m \in Nat /\ m >= 1 /\ i \in Nat
    BY <2>10, NodeFacts
  <2>. QED
    BY <2>8, <2>14, <2>15 DEF m
<1>. QED
  BY <1>1, PlannerInvariant, PTL
=============================================================================
