--------------------------- MODULE RunGraphProofs ---------------------------
(***************************************************************************)
(* Proofs about RunGraph, for every graph, every cap, every pool and every *)
(* choice of fail-fast.                                                    *)
(***************************************************************************)
EXTENDS RunGraph, FiniteSetTheorems, WellFoundedInduction, TLAPS

\* The graph is finite, and so is every set of its nodes.
LEMMA NodeFinite == IsFiniteSet(Node) /\ Node \subseteq Nat \ {0}
  BY NodesAssumption, FS_Interval DEF Node

(***************************************************************************)
(* Facts about the two queues: what a pop, a push and an appended batch do *)
(* to the elements of a sequence without repetitions.                      *)
(***************************************************************************)

\* Popping the head removes exactly that element.
LEMMA PopFacts ==
    ASSUME NEW S, NEW s \in Seq(S), s # <<>>, Distinct(s)
    PROVE  /\ Head(s) \in S
           /\ Holds(s, Head(s))
           /\ Tail(s) \in Seq(S)
           /\ Distinct(Tail(s))
           /\ \A i : Holds(Tail(s), i) <=> Holds(s, i) /\ i # Head(s)
<1>1. /\ Len(s) \in Nat \ {0}
      /\ DOMAIN s = 1..Len(s)
      /\ Head(s) = s[1]
      /\ Head(s) \in S
      /\ Tail(s) \in Seq(S)
      /\ Len(Tail(s)) = Len(s) - 1
      /\ DOMAIN Tail(s) = 1..(Len(s) - 1)
      /\ \A p \in 1..(Len(s) - 1) : Tail(s)[p] = s[p + 1]
  OBVIOUS
<1>2. Holds(s, Head(s))
  BY <1>1 DEF Holds
<1>3. Distinct(Tail(s))
  BY <1>1 DEF Distinct
<1>4. ASSUME NEW i
      PROVE  Holds(Tail(s), i) <=> Holds(s, i) /\ i # Head(s)
  <2>1. ASSUME Holds(Tail(s), i) PROVE Holds(s, i) /\ i # Head(s)
    <3>1. PICK p \in 1..(Len(s) - 1) : s[p + 1] = i
      BY <1>1, <2>1 DEF Holds
    <3>2. p + 1 \in DOMAIN s /\ 1 \in DOMAIN s /\ p + 1 # 1
      BY <1>1
    <3>. QED
      BY <1>1, <3>1, <3>2 DEF Holds, Distinct
  <2>2. ASSUME Holds(s, i), i # Head(s) PROVE Holds(Tail(s), i)
    <3>1. PICK p \in 1..Len(s) : s[p] = i
      BY <1>1, <2>2 DEF Holds
    <3>2. p # 1
      BY <1>1, <2>2, <3>1
    <3>3. p - 1 \in 1..(Len(s) - 1) /\ Tail(s)[p - 1] = s[p]
      BY <1>1, <3>2
    <3>. QED
      BY <1>1, <3>1, <3>3 DEF Holds
  <2>. QED
    BY <2>1, <2>2
<1>. QED
  BY <1>1, <1>2, <1>3, <1>4

\* Appending a new element adds exactly that element.
LEMMA PushFacts ==
    ASSUME NEW S, NEW s \in Seq(S), NEW e \in S, Distinct(s), ~Holds(s, e)
    PROVE  /\ Append(s, e) \in Seq(S)
           /\ Distinct(Append(s, e))
           /\ \A i : Holds(Append(s, e), i) <=> Holds(s, i) \/ i = e
<1>1. /\ Len(s) \in Nat
      /\ DOMAIN s = 1..Len(s)
      /\ Append(s, e) \in Seq(S)
      /\ DOMAIN Append(s, e) = 1..(Len(s) + 1)
      /\ \A p \in 1..Len(s) : Append(s, e)[p] = s[p]
      /\ Append(s, e)[Len(s) + 1] = e
  OBVIOUS
<1>2. Distinct(Append(s, e))
  BY <1>1 DEF Distinct, Holds
<1>3. \A i : Holds(Append(s, e), i) <=> Holds(s, i) \/ i = e
  BY <1>1 DEF Holds
<1>. QED
  BY <1>1, <1>2, <1>3

\* Appending a batch of new elements adds exactly the batch.
LEMMA BatchFacts ==
    ASSUME NEW s \in Seq(Node), Distinct(s),
           NEW S \in SUBSET Node, \A i \in S : ~Holds(s, i),
           NEW q \in InInputOrder(S)
    PROVE  /\ q \in Seq(Node)
           /\ s \o q \in Seq(Node)
           /\ Distinct(s \o q)
           /\ \A i : Holds(s \o q, i) <=> Holds(s, i) \/ i \in S
<1>1. IsFiniteSet(S) /\ Cardinality(S) \in Nat
  BY NodeFinite, FS_Subset, FS_CardinalityType
<1>2. /\ q \in [1..Cardinality(S) -> S]
      /\ \A i \in S : \E p \in DOMAIN q : q[p] = i
      /\ \A p1, p2 \in DOMAIN q : p1 < p2 => q[p1] < q[p2]
  BY DEF InInputOrder
<1>3. q \in Seq(Node) /\ Len(q) = Cardinality(S) /\ DOMAIN q = 1..Len(q)
  BY <1>1, <1>2
<1>4. Distinct(q)
  <2>1. ASSUME NEW p \in DOMAIN q PROVE q[p] \in Nat
    <3>1. q[p] \in S
      BY <1>2
    <3>. QED
      BY <3>1, NodeFinite
  <2>. QED
    BY <1>2, <1>3, <2>1 DEF Distinct
<1>5. /\ s \o q \in Seq(Node)
      /\ Len(s) \in Nat /\ Len(q) \in Nat
      /\ DOMAIN s = 1..Len(s)
      /\ DOMAIN (s \o q) = 1..(Len(s) + Len(q))
      /\ \A p \in 1..Len(s) : (s \o q)[p] = s[p]
      /\ \A p \in 1..Len(q) : (s \o q)[Len(s) + p] = q[p]
  BY <1>1, <1>3
<1>6. \A p \in DOMAIN (s \o q) :
         \/ p \in 1..Len(s) /\ (s \o q)[p] = s[p]
         \/ \E k \in 1..Len(q) : p = Len(s) + k /\ (s \o q)[p] = q[k]
  <2>1. ASSUME NEW p \in DOMAIN (s \o q), p \notin 1..Len(s)
        PROVE  p - Len(s) \in 1..Len(q) /\ p = Len(s) + (p - Len(s))
    BY <1>5, <2>1
  <2>. QED
    BY <1>5, <2>1
<1>7. \A i : Holds(s \o q, i) <=> Holds(s, i) \/ i \in S
  <2>1. ASSUME NEW i, Holds(s \o q, i) PROVE Holds(s, i) \/ i \in S
    BY <1>2, <1>3, <1>5, <1>6, <2>1 DEF Holds
  <2>2. ASSUME NEW i, Holds(s, i) PROVE Holds(s \o q, i)
    <3>1. PICK p \in 1..Len(s) : s[p] = i
      BY <1>5, <2>2 DEF Holds
    <3>2. p \in DOMAIN (s \o q) /\ (s \o q)[p] = i
      BY <1>5, <3>1
    <3>. QED
      BY <3>2 DEF Holds
  <2>3. ASSUME NEW i \in S PROVE Holds(s \o q, i)
    <3>1. PICK k \in 1..Len(q) : q[k] = i
      BY <1>2, <1>3
    <3>2. Len(s) + k \in DOMAIN (s \o q) /\ (s \o q)[Len(s) + k] = i
      BY <1>5, <3>1
    <3>. QED
      BY <3>2 DEF Holds
  <2>. QED
    BY <2>1, <2>2, <2>3
<1>8. Distinct(s \o q)
  <2> SUFFICES ASSUME NEW p1 \in DOMAIN (s \o q), NEW p2 \in DOMAIN (s \o q),
                      (s \o q)[p1] = (s \o q)[p2]
               PROVE  p1 = p2
    BY DEF Distinct
  <2>1. ASSUME NEW a \in 1..Len(s), NEW k \in 1..Len(q) PROVE s[a] # q[k]
    BY <1>2, <1>3, <1>5 DEF Holds
  <2>. QED
    BY <1>3, <1>4, <1>5, <1>6, <2>1 DEF Distinct
<1>. QED
  BY <1>3, <1>5, <1>7, <1>8

-----------------------------------------------------------------------------
(* Consequences of the assumptions on the arguments. *)

\* The fields of the arguments; positions of a dependency list form a finite set.
LEMMA ArgsFacts ==
    ASSUME TypeOK
    PROVE  /\ args.ids \in [Node -> HookIds]
           /\ args.deps \in [Node -> Seq(Node)]
           /\ args.failFast \in BOOLEAN
           /\ args.maxWorkers \in Nat
           /\ \A i \in Node : \A k \in DOMAIN args.deps[i] :
                 args.deps[i][k] \in Node /\ args.deps[i][k] < i
           /\ \A i \in Node : Len(args.deps[i]) \in Nat
                              /\ DOMAIN args.deps[i] = 1..Len(args.deps[i])
           /\ \A i \in Node : IsFiniteSet(DOMAIN args.deps[i])
                              /\ Cardinality(DOMAIN args.deps[i]) = Len(args.deps[i])
<1>1. args \in Args /\ \A i \in Node : \A k \in DOMAIN args.deps[i] : args.deps[i][k] < i
  <2>1. args \in Args /\ Workable(N, DependsOn(args))
    BY JobsAssumption DEF TypeOK
  <2>2. ASSUME NEW i \in Node, NEW k \in DOMAIN args.deps[i] PROVE args.deps[i][k] < i
    <3>1. DependsOn(args)[i] \subseteq 1..(i - 1)
      BY <2>1 DEF Workable, Node
    <3>2. args.deps[i][k] \in 1..(i - 1)
      BY <3>1 DEF DependsOn
    <3>. QED
      BY <3>2, NodesAssumption DEF Node
  <2>. QED
    BY <2>1, <2>2
<1>2. /\ args.ids \in [Node -> HookIds]
      /\ args.deps \in [Node -> Seq(Node)]
      /\ args.failFast \in BOOLEAN
      /\ args.maxWorkers \in Nat
  BY <1>1 DEF Args
<1>3. ASSUME NEW i \in Node
      PROVE  /\ Len(args.deps[i]) \in Nat
             /\ DOMAIN args.deps[i] = 1..Len(args.deps[i])
             /\ \A k \in DOMAIN args.deps[i] : args.deps[i][k] \in Node
  <2>1. args.deps[i] \in Seq(Node)
    BY <1>2
  <2>. QED
    BY <2>1
<1>4. ASSUME NEW i \in Node
      PROVE  /\ IsFiniteSet(1..Len(args.deps[i]))
             /\ Cardinality(1..Len(args.deps[i])) = Len(args.deps[i])
  BY <1>3, FS_Interval
<1>. QED
  BY <1>1, <1>2, <1>3, <1>4

\* The sets that are counted are finite.
LEMMA CountedSetsFinite ==
    ASSUME TypeOK
    PROVE  /\ IsFiniteSet(Outstanding)
           /\ Cardinality(Outstanding) \in Nat
           /\ Cardinality(Outstanding) = 0 <=> Outstanding = {}
           /\ \A i \in Node : /\ IsFiniteSet(Unreported(i))
                              /\ Cardinality(Unreported(i)) \in Nat
                              /\ Cardinality(Unreported(i)) = 0 <=> Unreported(i) = {}
<1>1. IsFiniteSet(Outstanding)
  BY NodeFinite, FS_Subset DEF Outstanding
<1>2. ASSUME NEW i \in Node PROVE IsFiniteSet(Unreported(i))
  BY ArgsFacts, FS_Subset DEF Unreported
<1>. QED
  BY <1>1, <1>2, FS_CardinalityType, FS_EmptySet

-----------------------------------------------------------------------------
(* SchedulerInv holds initially and every step preserves it. *)

\* The roots, and only the roots, are queued before anything ran.
LEMMA InitEstablishes == Init => SchedulerInv
<1> SUFFICES ASSUME Init PROVE SchedulerInv
  OBVIOUS
<1>1. \A i \in Node : args.deps[i] \in Seq(Node)
  BY JobsAssumption DEF Init, Args
<1>2. indegree \in [Node -> Nat]
  BY <1>1 DEF Init
<1>3. PICK q \in InInputOrder({i \in Node : indegree[i] = 0}) : ready = q
  BY DEF Init
<1>4. <<>> \in Seq(Node) /\ Distinct(<<>>) /\ \A i : ~Holds(<<>>, i)
  BY DEF Distinct, Holds
<1>5. /\ <<>> \o q \in Seq(Node)
      /\ Distinct(<<>> \o q)
      /\ \A i : Holds(<<>> \o q, i) <=> i \in {j \in Node : indegree[j] = 0}
  BY <1>4, BatchFacts
<1>6. q \in Seq(Node)
  BY BatchFacts, <1>4
<1>7. <<>> \o q = q
  BY <1>6
<1>8. TypeOK
  <2>1. ready \in Seq(Node)
    BY <1>3, <1>6
  <2>2. args \in Jobs /\ pc = "pump" /\ aborted = FALSE /\ firstError = 0 /\ outstanding = 0
    BY DEF Init
  <2>3. executed \in SUBSET Node /\ channel \in Seq(Node)
    BY DEF Init
  <2>4. /\ task \in [Node -> {"none", "spawned", "running", "sent", "received"}]
        /\ outcome \in [Node -> Outcome \cup {"none"}]
        /\ results \in [HookIds -> Status \cup {"none"}]
    BY DEF Init
  <2>. QED
    BY <1>2, <2>1, <2>2, <2>3, <2>4 DEF TypeOK
<1>9. TaskInv
  BY DEF TaskInv, Init
<1>10. ReadyInv
  BY <1>3, <1>5, <1>7 DEF ReadyInv, Init
<1>11. ChannelInv
  BY <1>4 DEF ChannelInv, Init
<1>12. CountInv
  <2>1. Outstanding = {}
    BY DEF Outstanding, Init
  <2>2. outstanding = Cardinality(Outstanding)
    BY <2>1, FS_EmptySet DEF Init
  <2>3. ASSUME NEW i \in Node PROVE indegree[i] = Cardinality(Unreported(i))
    <3>1. Unreported(i) = DOMAIN args.deps[i]
      BY <1>8, ArgsFacts DEF Unreported, Init
    <3>. QED
      BY <1>8, <3>1, ArgsFacts DEF Init
  <2>4. args.maxWorkers # 0 => outstanding <= args.maxWorkers
    BY <1>8, ArgsFacts DEF Init
  <2>. QED
    BY <2>2, <2>3, <2>4 DEF CountInv
<1>13. AbortInv
  BY DEF AbortInv, Init
<1>14. PcInv
  BY DEF PcInv, Init
<1>15. DependenciesFirst /\ DownstreamOfFailureNeverStarts
  BY DEF DependenciesFirst, DownstreamOfFailureNeverStarts, Init
<1>. QED
  BY <1>8, <1>9, <1>10, <1>11, <1>12, <1>13, <1>14, <1>15 DEF SchedulerInv

\* Launching pops a ready node, whose dependencies were all reported without an abort.
LEMMA LaunchPreserves ==
    ASSUME SchedulerInv, Launch
    PROVE  SchedulerInv'
<1> DEFINE i == Head(ready)
<1> USE DEF SchedulerInv
<1>1. /\ i \in Node
      /\ Holds(ready, i)
      /\ Tail(ready) \in Seq(Node)
      /\ Distinct(Tail(ready))
      /\ \A j : Holds(Tail(ready), j) <=> Holds(ready, j) /\ j # i
  <2>1. ready \in Seq(Node) /\ ready # <<>> /\ Distinct(ready)
    BY DEF Launch, CanLaunch, TypeOK, ReadyInv
  <2>. QED
    BY <2>1, PopFacts
<1>2. /\ ready' = Tail(ready)
      /\ executed' = executed \cup {i}
      /\ task' = [task EXCEPT ![i] = "spawned"]
      /\ outstanding' = outstanding + 1
      /\ UNCHANGED <<args, pc, indegree, aborted, firstError, channel, outcome, results>>
  BY DEF Launch
<1>3. indegree[i] = 0 /\ i \notin executed /\ task[i] = "none"
  BY <1>1 DEF ReadyInv, TaskInv
<1>4. /\ task' \in [Node -> {"none", "spawned", "running", "sent", "received"}]
      /\ task'[i] = "spawned"
      /\ \A j \in Node : j # i => task'[j] = task[j]
  BY <1>1, <1>2 DEF TypeOK
<1>5. TypeOK'
  BY <1>1, <1>2, <1>4 DEF TypeOK
<1>6. TaskInv'
  BY <1>1, <1>2, <1>3, <1>4 DEF TaskInv
<1>7. ReadyInv'
  BY <1>1, <1>2 DEF ReadyInv
<1>8. ChannelInv'
  BY <1>2, <1>3, <1>4 DEF ChannelInv
<1>9. \A j \in Node : Unreported(j)' = Unreported(j)
  BY <1>2, <1>3, <1>4, ArgsFacts DEF Unreported
<1>10. CountInv'
  <2>1. Outstanding' = Outstanding \cup {i} /\ i \notin Outstanding
    BY <1>1, <1>3, <1>4 DEF Outstanding
  <2>2. outstanding' = Cardinality(Outstanding')
    BY <1>2, <2>1, CountedSetsFinite, FS_AddElement DEF CountInv
  <2>3. \A j \in Node : indegree'[j] = Cardinality(Unreported(j)')
    BY <1>2, <1>9 DEF CountInv
  <2>4. args.maxWorkers # 0 => outstanding < args.maxWorkers
    BY DEF Launch, CanLaunch, BelowCap
  <2>5. args'.maxWorkers # 0 => outstanding' <= args'.maxWorkers
    BY <1>2, <2>4, ArgsFacts DEF TypeOK
  <2>. QED
    BY <2>2, <2>3, <2>5 DEF CountInv
<1>11. AbortInv'
  BY <1>2, <1>3, <1>4 DEF AbortInv, Aborts
<1>12. PcInv'
  BY <1>2 DEF PcInv, Launch
<1>13. \A k \in DOMAIN args.deps[i] : task[args.deps[i][k]] = "received"
  <2>1. Unreported(i) = {}
    BY <1>1, <1>3, CountedSetsFinite DEF CountInv
  <2>. QED
    BY <2>1 DEF Unreported
<1>14. DependenciesFirst'
  <2> SUFFICES ASSUME NEW j \in Node, task'[j] # "none", NEW k \in DOMAIN args.deps[j]
               PROVE  task'[args.deps[j][k]] = "received"
    BY <1>2 DEF DependenciesFirst
  <2>1. task[args.deps[j][k]] = "received" /\ args.deps[j][k] \in Node
    BY <1>4, <1>13, ArgsFacts DEF DependenciesFirst
  <2>. QED
    BY <1>3, <1>4, <2>1
<1>15. DownstreamOfFailureNeverStarts'
  <2> SUFFICES ASSUME NEW j \in executed', NEW k \in DOMAIN args.deps[j]
               PROVE  ~Aborts(outcome[args.deps[j][k]])
    BY <1>2 DEF DownstreamOfFailureNeverStarts, Aborts
  <2>1. CASE j = i
    <3>1. args.deps[i][k] \in Node /\ task[args.deps[i][k]] = "received"
      BY <1>1, <1>13, <2>1, ArgsFacts
    <3>. QED
      BY <2>1, <3>1 DEF AbortInv, Launch, CanLaunch
  <2>2. CASE j # i
    BY <1>2, <2>2 DEF DownstreamOfFailureNeverStarts
  <2>. QED
    BY <2>1, <2>2
<1>. QED
  BY <1>5, <1>6, <1>7, <1>8, <1>10, <1>11, <1>12, <1>14, <1>15

\* Leaving the pump changes the scheduler's position only.
LEMMA EndPumpPreserves ==
    ASSUME SchedulerInv, EndPump
    PROVE  SchedulerInv'
<1> USE DEF SchedulerInv
<1>1. /\ pc' = IF outstanding > 0 THEN "recv" ELSE "returned"
      /\ ~CanLaunch
      /\ UNCHANGED <<args, ready, indegree, executed, outstanding, aborted, firstError,
                     channel, task, outcome, results>>
  BY DEF EndPump, poolVars
<1>2. TypeOK'
  BY <1>1 DEF TypeOK
<1>3. TaskInv' /\ ReadyInv' /\ ChannelInv'
  BY <1>1 DEF TaskInv, ReadyInv, ChannelInv
<1>4. CountInv'
  BY <1>1 DEF CountInv, Outstanding, Unreported
<1>5. AbortInv' /\ DependenciesFirst' /\ DownstreamOfFailureNeverStarts'
  BY <1>1 DEF AbortInv, DependenciesFirst, DownstreamOfFailureNeverStarts, Aborts
<1>6. PcInv'
  <2>1. ~CanLaunch'
    BY <1>1 DEF CanLaunch, BelowCap
  <2>. QED
    BY <1>1, <2>1 DEF PcInv, TypeOK
<1>. QED
  BY <1>2, <1>3, <1>4, <1>5, <1>6

\* Taking a completion off the channel frees exactly the edges to that node.
LEMMA ReceivePreserves ==
    ASSUME SchedulerInv, Receive
    PROVE  SchedulerInv'
<1> DEFINE i == Head(channel)
           freed == {j \in Node : Edges(j, i) # {} /\ indegree'[j] = 0 /\ j \notin executed}
<1> USE DEF SchedulerInv
<1>1. /\ i \in Node
      /\ Holds(channel, i)
      /\ Tail(channel) \in Seq(Node)
      /\ Distinct(Tail(channel))
      /\ \A j : Holds(Tail(channel), j) <=> Holds(channel, j) /\ j # i
  <2>1. channel \in Seq(Node) /\ channel # <<>> /\ Distinct(channel)
    BY DEF Receive, TypeOK, ChannelInv
  <2>. QED
    BY <2>1, PopFacts
<1>2. /\ channel' = Tail(channel)
      /\ task' = [task EXCEPT ![i] = "received"]
      /\ outstanding' = outstanding - 1
      /\ pc' = "pump"
      /\ UNCHANGED <<args, executed, outcome, results>>
      /\ aborted' = (aborted \/ Aborts(outcome[i]))
      /\ firstError' = IF outcome[i] = "raised" /\ firstError = 0 THEN i ELSE firstError
      /\ indegree' = [j \in Node |-> indegree[j] - Cardinality(Edges(j, i))]
  BY DEF Receive, NoteOutcome, FreeDependents
<1>3. PICK q \in InInputOrder(freed) : ready' = ready \o q
  BY DEF Receive, FreeDependents, Enqueue
<1>4. task[i] = "sent"
  BY <1>1 DEF ChannelInv
<1>5. /\ task' \in [Node -> {"none", "spawned", "running", "sent", "received"}]
      /\ task'[i] = "received"
      /\ \A j \in Node : j # i => task'[j] = task[j]
  BY <1>1, <1>2 DEF TypeOK
<1>6. ASSUME NEW j \in Node
      PROVE  /\ Unreported(j)' = Unreported(j) \ Edges(j, i)
             /\ Edges(j, i) \subseteq Unreported(j)
             /\ Cardinality(Edges(j, i)) \in Nat
             /\ IsFiniteSet(Edges(j, i))
             /\ Cardinality(Unreported(j)') = Cardinality(Unreported(j)) - Cardinality(Edges(j, i))
             /\ Cardinality(Unreported(j)') \in Nat
             /\ Cardinality(Unreported(j)') = 0 <=> Unreported(j)' = {}
  <2>1. Unreported(j)' = Unreported(j) \ Edges(j, i)
    BY <1>2, <1>4, <1>5, ArgsFacts DEF Unreported, Edges
  <2>2. Edges(j, i) \subseteq Unreported(j)
    BY <1>4 DEF Unreported, Edges
  <2>3. IsFiniteSet(Unreported(j))
    BY CountedSetsFinite
  <2>4. IsFiniteSet(Edges(j, i)) /\ Cardinality(Edges(j, i)) \in Nat
    BY <2>2, <2>3, FS_Subset, FS_CardinalityType
  <2>5. Unreported(j) \cap Edges(j, i) = Edges(j, i)
    BY <2>2
  <2>6. /\ IsFiniteSet(Unreported(j) \ Edges(j, i))
        /\ Cardinality(Unreported(j) \ Edges(j, i))
              = Cardinality(Unreported(j)) - Cardinality(Edges(j, i))
    BY <2>3, <2>5, FS_Difference
  <2>. QED
    BY <2>1, <2>2, <2>4, <2>6, FS_CardinalityType, FS_EmptySet
<1>7. ASSUME NEW j \in Node
      PROVE  indegree'[j] = Cardinality(Unreported(j)') /\ indegree'[j] \in Nat
  BY <1>2, <1>6 DEF CountInv
<1>8. ASSUME NEW j \in freed PROVE ~Holds(ready, j)
  <2>1. Unreported(j) # {}
    BY <1>6, <1>8
  <2>2. indegree[j] # 0
    BY <1>8, <2>1, CountedSetsFinite DEF CountInv
  <2>. QED
    BY <1>8, <2>2 DEF ReadyInv
<1>9. /\ ready \o q \in Seq(Node)
      /\ Distinct(ready \o q)
      /\ \A j : Holds(ready \o q, j) <=> Holds(ready, j) \/ j \in freed
  <2>1. freed \in SUBSET Node /\ ready \in Seq(Node) /\ Distinct(ready)
    BY DEF TypeOK, ReadyInv
  <2> HIDE DEF freed
  <2>. QED
    BY <1>3, <1>8, <2>1, BatchFacts
<1>10. ReadyInv'
  <2>1. ASSUME NEW j \in Node
        PROVE  Holds(ready', j) <=> indegree'[j] = 0 /\ j \notin executed
    <3>1. CASE Edges(j, i) = {}
      <4>1. indegree'[j] = indegree[j]
        BY <1>6, <1>7, <3>1 DEF CountInv
      <4>. QED
        BY <1>3, <1>9, <3>1, <4>1 DEF ReadyInv
    <3>2. CASE Edges(j, i) # {}
      <4>1. Unreported(j) # {}
        BY <1>6, <3>2
      <4>2. ~Holds(ready, j)
        BY <4>1, CountedSetsFinite DEF ReadyInv, CountInv
      <4>. QED
        BY <1>3, <1>9, <3>2, <4>2
    <3>. QED
      BY <3>1, <3>2
  <2>. QED
    BY <1>2, <1>3, <1>9, <2>1 DEF ReadyInv
<1>11. TypeOK'
  <2>1. indegree' \in [Node -> Nat]
    BY <1>2, <1>7
  <2>2. outstanding' \in Nat
    <3>1. i \in Outstanding
      BY <1>1, <1>4 DEF Outstanding
    <3>. QED
      BY <1>2, <3>1, CountedSetsFinite DEF CountInv
  <2>3. aborted' \in BOOLEAN /\ firstError' \in Node \cup {0}
    BY <1>1, <1>2 DEF TypeOK, Aborts
  <2>. QED
    BY <1>1, <1>2, <1>3, <1>5, <1>9, <2>1, <2>2, <2>3 DEF TypeOK
<1>12. TaskInv'
  BY <1>2, <1>4, <1>5 DEF TaskInv
<1>13. ChannelInv'
  BY <1>1, <1>2, <1>5 DEF ChannelInv
<1>14. CountInv'
  <2>1. Outstanding' = Outstanding \ {i} /\ i \in Outstanding
    BY <1>1, <1>4, <1>5 DEF Outstanding
  <2>2. outstanding' = Cardinality(Outstanding')
    BY <1>2, <2>1, CountedSetsFinite, FS_RemoveElement DEF CountInv
  <2>3. args'.maxWorkers # 0 => outstanding' <= args'.maxWorkers
    BY <1>2, ArgsFacts DEF TypeOK, CountInv
  <2>. QED
    BY <1>7, <2>2, <2>3 DEF CountInv
<1>15. AbortInv'
  <2>1. aborted' <=> \E j \in Node : task'[j] = "received" /\ Aborts(outcome[j])
    BY <1>1, <1>2, <1>4, <1>5 DEF AbortInv
  <2>2. firstError' # 0 <=> \E j \in Node : task'[j] = "received" /\ outcome'[j] = "raised"
    BY <1>1, <1>2, <1>4, <1>5, NodeFinite DEF AbortInv
  <2>. QED
    BY <1>2, <2>1, <2>2 DEF AbortInv, Aborts
<1>16. PcInv'
  BY <1>2 DEF PcInv
<1>17. DependenciesFirst'
  BY <1>2, <1>4, <1>5, ArgsFacts DEF DependenciesFirst
<1>18. DownstreamOfFailureNeverStarts'
  BY <1>2 DEF DownstreamOfFailureNeverStarts, Aborts
<1>. QED
  BY <1>10, <1>11, <1>12, <1>13, <1>14, <1>15, <1>16, <1>17, <1>18

\* A pool thread that takes a task changes neither the counts nor the queues.
LEMMA StartPreserves ==
    ASSUME SchedulerInv, NEW i \in Node, Start(i)
    PROVE  SchedulerInv'
<1> USE DEF SchedulerInv
<1>1. /\ task[i] = "spawned"
      /\ task' = [task EXCEPT ![i] = "running"]
      /\ UNCHANGED <<args, pc, ready, indegree, executed, outstanding, aborted, firstError,
                     channel, outcome, results>>
  BY DEF Start, schedVars
<1>2. /\ task' \in [Node -> {"none", "spawned", "running", "sent", "received"}]
      /\ task'[i] = "running"
      /\ \A j \in Node : j # i => task'[j] = task[j]
  BY <1>1 DEF TypeOK
<1>3. TypeOK'
  BY <1>1, <1>2 DEF TypeOK
<1>4. TaskInv' /\ ReadyInv' /\ ChannelInv'
  BY <1>1, <1>2 DEF TaskInv, ReadyInv, ChannelInv
<1>5. CountInv'
  <2>1. Outstanding' = Outstanding
    BY <1>1, <1>2 DEF Outstanding
  <2>2. \A j \in Node : Unreported(j)' = Unreported(j)
    BY <1>1, <1>2, ArgsFacts DEF Unreported
  <2>. QED
    BY <1>1, <2>1, <2>2 DEF CountInv
<1>6. AbortInv'
  BY <1>1, <1>2 DEF AbortInv, Aborts
<1>7. PcInv'
  BY <1>1 DEF PcInv, CanLaunch, BelowCap
<1>8. DependenciesFirst'
  BY <1>1, <1>2, ArgsFacts DEF DependenciesFirst
<1>9. DownstreamOfFailureNeverStarts'
  BY <1>1 DEF DownstreamOfFailureNeverStarts, Aborts
<1>. QED
  BY <1>3, <1>4, <1>5, <1>6, <1>7, <1>8, <1>9

\* A callback that ends puts its node on the channel, once.
LEMMA FinishPreserves ==
    ASSUME SchedulerInv, NEW i \in Node, NEW o \in Outcome, Finish(i, o)
    PROVE  SchedulerInv'
<1> USE DEF SchedulerInv
<1>1. /\ task[i] = "running"
      /\ task' = [task EXCEPT ![i] = "sent"]
      /\ outcome' = [outcome EXCEPT ![i] = o]
      /\ results' = IF o = "raised" THEN results ELSE [results EXCEPT ![args.ids[i]] = o]
      /\ channel' = Append(channel, i)
      /\ UNCHANGED <<args, pc, ready, indegree, executed, outstanding, aborted, firstError>>
  BY DEF Finish, schedVars
<1>2. /\ task' \in [Node -> {"none", "spawned", "running", "sent", "received"}]
      /\ task'[i] = "sent"
      /\ \A j \in Node : j # i => task'[j] = task[j]
  BY <1>1 DEF TypeOK
<1>3. /\ outcome' \in [Node -> Outcome \cup {"none"}]
      /\ outcome'[i] = o
      /\ \A j \in Node : j # i => outcome'[j] = outcome[j]
  BY <1>1 DEF TypeOK
<1>4. /\ channel' \in Seq(Node)
      /\ Distinct(channel')
      /\ \A j : Holds(channel', j) <=> Holds(channel, j) \/ j = i
  <2>1. channel \in Seq(Node) /\ Distinct(channel) /\ ~Holds(channel, i)
    BY <1>1 DEF TypeOK, ChannelInv
  <2>. QED
    BY <1>1, <2>1, PushFacts
<1>5. results' \in [HookIds -> Status \cup {"none"}]
  BY <1>1 DEF TypeOK, Outcome
<1>6. TypeOK'
  BY <1>1, <1>2, <1>3, <1>4, <1>5 DEF TypeOK
<1>7. TaskInv'
  BY <1>1, <1>2, <1>3 DEF TaskInv, Outcome, Status
<1>8. ReadyInv' /\ ChannelInv'
  BY <1>1, <1>2, <1>4 DEF ReadyInv, ChannelInv
<1>9. CountInv'
  <2>1. Outstanding' = Outstanding
    BY <1>1, <1>2 DEF Outstanding
  <2>2. \A j \in Node : Unreported(j)' = Unreported(j)
    BY <1>1, <1>2, ArgsFacts DEF Unreported
  <2>. QED
    BY <1>1, <2>1, <2>2 DEF CountInv
<1>10. AbortInv'
  BY <1>1, <1>2, <1>3 DEF AbortInv, Aborts
<1>11. PcInv'
  BY <1>1 DEF PcInv, CanLaunch, BelowCap
<1>12. DependenciesFirst'
  BY <1>1, <1>2, ArgsFacts DEF DependenciesFirst
<1>13. DownstreamOfFailureNeverStarts'
  <2> SUFFICES ASSUME NEW j \in executed, NEW k \in DOMAIN args.deps[j]
               PROVE  ~Aborts(outcome[args.deps[j][k]])'
    BY <1>1 DEF DownstreamOfFailureNeverStarts, Aborts
  <2>1. j \in Node /\ args.deps[j][k] \in Node /\ task[args.deps[j][k]] = "received"
    BY ArgsFacts DEF TypeOK, DependenciesFirst, TaskInv
  <2>. QED
    BY <1>1, <1>3, <2>1 DEF DownstreamOfFailureNeverStarts, Aborts
<1>. QED
  BY <1>6, <1>7, <1>8, <1>9, <1>10, <1>11, <1>12, <1>13

\* A step that changes nothing preserves everything.
LEMMA StutterPreserves ==
    ASSUME SchedulerInv, UNCHANGED vars
    PROVE  SchedulerInv'
  BY DEF SchedulerInv, vars, schedVars, poolVars, TypeOK, TaskInv, ReadyInv, ChannelInv,
         CountInv, AbortInv, PcInv, DependenciesFirst, DownstreamOfFailureNeverStarts,
         Outstanding, Unreported, Aborts, CanLaunch, BelowCap

(***************************************************************************)
(* The scheduler's bookkeeping is exact in every reachable state: queues,  *)
(* counters and flags say what the pool did (runner.rs, lines 68-145).     *)
(***************************************************************************)
THEOREM SchedulerInvariant == Spec => []SchedulerInv
<1>1. SchedulerInv /\ [Next]_vars => SchedulerInv'
  BY LaunchPreserves, EndPumpPreserves, ReceivePreserves, StartPreserves, FinishPreserves,
     StutterPreserves DEF Next, Returned
<1>. QED
  BY <1>1, InitEstablishes, PTL DEF Spec

-----------------------------------------------------------------------------
(* The properties the runs check, for every value of the constants. *)

\* Queues, counters and flags keep their types: no count goes negative.
THEOREM TypeCorrect == Spec => []TypeOK
BY SchedulerInvariant, PTL DEF SchedulerInv

\* A hook enters the pool only when all it depends on has finished and was reported.
THEOREM DependenciesAlwaysFirst == Spec => []DependenciesFirst
BY SchedulerInvariant, PTL DEF SchedulerInv

\* A hook downstream of a failure (under fail-fast) or an exception never starts.
THEOREM DownstreamNeverStarts == Spec => []DownstreamOfFailureNeverStarts
BY SchedulerInvariant, PTL DEF SchedulerInv

\* The pool never holds more hooks than max_workers allows.
THEOREM AlwaysWithinCap == Spec => []WithinCap
<1>1. SchedulerInv => WithinCap
  <2> SUFFICES ASSUME SchedulerInv, args.maxWorkers # 0
               PROVE  Cardinality(Spawned) <= args.maxWorkers
    BY DEF WithinCap
  <2> USE DEF SchedulerInv
  <2>1. Spawned \subseteq Outstanding
    BY DEF Spawned, Outstanding
  <2>2. Cardinality(Spawned) <= Cardinality(Outstanding) /\ Cardinality(Spawned) \in Nat
    BY <2>1, CountedSetsFinite, FS_Subset, FS_CardinalityType
  <2>. QED
    BY <2>2, ArgsFacts, CountedSetsFinite DEF CountInv
<1>. QED
  BY <1>1, SchedulerInvariant, PTL

\* A node with no unreported dependency was launched, or waits in the ready queue.
LEMMA ReadyWhenFree ==
    ASSUME SchedulerInv, NEW i \in Node, i \notin executed,
           \A k \in DOMAIN args.deps[i] : task[args.deps[i][k]] = "received"
    PROVE  ready # <<>>
<1> USE DEF SchedulerInv
<1>1. Unreported(i) = {}
  BY DEF Unreported
<1>2. Holds(ready, i)
  BY <1>1, CountedSetsFinite DEF CountInv, ReadyInv
<1>. QED
  BY <1>2 DEF Holds

\* The scheduler never waits while a hook could be launched: there is no wave barrier.
THEOREM NeverAWaveBarrier == Spec => []NoWaveBarrier
<1>1. SchedulerInv => NoWaveBarrier
  <2> SUFFICES ASSUME SchedulerInv, pc = "recv", ~aborted,
                      ~(args.maxWorkers # 0 /\ outstanding = args.maxWorkers),
                      NEW i \in Node \ executed
               PROVE  \E k \in DOMAIN args.deps[i] : task[args.deps[i][k]] # "received"
    BY DEF NoWaveBarrier
  <2>1. ~CanLaunch
    BY DEF SchedulerInv, PcInv
  <2>2. BelowCap
    BY ArgsFacts DEF SchedulerInv, CountInv, BelowCap, TypeOK
  <2>3. ready = <<>>
    BY <2>1, <2>2 DEF CanLaunch
  <2>. QED
    BY <2>3, ReadyWhenFree
<1>. QED
  BY <1>1, SchedulerInvariant, PTL

(***************************************************************************)
(* With nothing outstanding and no abort, every hook has been reported:    *)
(* otherwise the first hook never launched would wait for one before it.   *)
(***************************************************************************)
LEMMA AllReported ==
    ASSUME SchedulerInv, pc = "returned", ~aborted
    PROVE  \A i \in Node : task[i] = "received"
<1> USE DEF SchedulerInv
<1>1. Outstanding = {}
  BY CountedSetsFinite DEF PcInv, CountInv
<1>2. \A i \in Node : task[i] \in {"none", "received"}
  BY <1>1 DEF Outstanding, TypeOK
<1>3. ready = <<>>
  BY ArgsFacts DEF PcInv, CanLaunch, BelowCap
<1> DEFINE left == {i \in Node : task[i] = "none"}
<1>4. CASE left = {}
  BY <1>2, <1>4
<1>5. CASE left # {}
  <2>1. left \subseteq Nat
    BY NodeFinite
  <2>2. PICK i \in left : \A d \in left : ~(<<d, i>> \in OpToRel(<, Nat))
    BY <1>5, <2>1, NatLessThanWellFounded, WFMin
  <2>3. ASSUME NEW k \in DOMAIN args.deps[i] PROVE task[args.deps[i][k]] = "received"
    <3>1. args.deps[i][k] \in Node /\ args.deps[i][k] < i
      BY ArgsFacts
    <3>2. args.deps[i][k] \notin left
      BY <2>1, <2>2, <3>1 DEF OpToRel
    <3>. QED
      BY <1>2, <3>1, <3>2
  <2>4. i \in Node /\ i \notin executed
    BY DEF TaskInv
  <2>. QED
    BY <1>3, <2>3, <2>4, ReadyWhenFree
<1>. QED
  BY <1>4, <1>5

\* Without fail-fast, or while nothing aborted the run, no failure counts.
LEMMA FailingFacts ==
    ASSUME SchedulerInv
    PROVE  /\ IsFiniteSet(Failing) /\ Cardinality(Failing) \in Nat
           /\ args.failFast /\ ~aborted => Failing = {}
<1>1. IsFiniteSet(Failing)
  BY NodeFinite, FS_Subset DEF Failing
<1>2. args.failFast /\ ~aborted => Failing = {}
  BY DEF SchedulerInv, AbortInv, Failing, Aborts
<1>. QED
  BY <1>1, <1>2, FS_CardinalityType

(***************************************************************************)
(* Under fail-fast no more hooks fail than max_workers: once the first     *)
(* failure is received nothing is launched, and what can still fail was in *)
(* flight with it (runner.rs, pump! and the main loop).                    *)
(***************************************************************************)
LEMMA FailuresStayWithinCap == Spec => []FailuresInv
<1>1. Init => FailuresInv
  <2> SUFFICES ASSUME Init, args.failFast, args.maxWorkers # 0
               PROVE  Cardinality(Failing) + outstanding <= args.maxWorkers
    BY DEF FailuresInv
  <2>1. Failing = {} /\ outstanding = 0
    BY DEF Init, Failing
  <2>2. args.maxWorkers \in Nat
    BY JobsAssumption DEF Init, Args
  <2>. QED
    BY <2>1, <2>2, FS_EmptySet
<1>2. ASSUME SchedulerInv, FailuresInv, [Next]_vars PROVE FailuresInv'
  <2> SUFFICES ASSUME args'.failFast, args'.maxWorkers # 0
               PROVE  Cardinality(Failing') + outstanding' <= args'.maxWorkers
    BY DEF FailuresInv
  <2> USE <1>2 DEF SchedulerInv
  <2>1. /\ outstanding \in Nat /\ args.maxWorkers \in Nat
        /\ task \in [Node -> {"none", "spawned", "running", "sent", "received"}]
        /\ outcome \in [Node -> Outcome \cup {"none"}]
    BY ArgsFacts DEF TypeOK
  <2>2. args' = args
    BY DEF Next, Launch, EndPump, Receive, Start, Finish, Returned, vars, schedVars, poolVars
  <2>3. Cardinality(Failing) + outstanding <= args.maxWorkers
    BY <2>2 DEF FailuresInv
  <2>4. CASE Launch
    <3>1. BelowCap /\ ~aborted /\ outstanding' = outstanding + 1 /\ outcome' = outcome
      BY <2>4 DEF Launch, CanLaunch
    <3>2. Head(ready) \in Node /\ task' = [task EXCEPT ![Head(ready)] = "spawned"]
      BY <2>4 DEF Launch, CanLaunch, TypeOK
    <3>3. Failing = {} /\ Failing' \subseteq Failing
      BY <2>1, <2>2, <3>1, <3>2, FailingFacts DEF Failing
    <3>4. outstanding < args.maxWorkers
      BY <2>1, <2>2, <3>1 DEF BelowCap
    <3>. QED
      BY <2>1, <2>2, <3>1, <3>3, <3>4, FS_EmptySet
  <2>5. CASE Receive
    <3> DEFINE i == Head(channel)
    <3>1. i \in Node /\ task' = [task EXCEPT ![i] = "received"] /\ outcome' = outcome
      BY <2>5 DEF Receive, TypeOK
    <3>2. outstanding' = outstanding - 1 /\ outstanding > 0
      BY <2>5 DEF Receive, PcInv
    <3>3. Failing' \subseteq Failing \cup {i}
      BY <2>1, <3>1 DEF Failing
    <3>4. /\ IsFiniteSet(Failing \cup {i})
          /\ Cardinality(Failing \cup {i}) <= Cardinality(Failing) + 1
          /\ Cardinality(Failing \cup {i}) \in Nat
      BY FailingFacts, FS_AddElement
    <3>5. Cardinality(Failing') <= Cardinality(Failing \cup {i}) /\ Cardinality(Failing') \in Nat
      BY <3>3, <3>4, FS_Subset, FS_CardinalityType
    <3>. QED
      BY <2>1, <2>2, <2>3, <3>2, <3>4, <3>5, FailingFacts
  <2>6. ASSUME NEW i \in Node, Start(i) \/ \E o \in Outcome : Finish(i, o)
        PROVE  Failing' = Failing /\ outstanding' = outstanding
    BY <2>1, <2>6 DEF Start, Finish, schedVars, Failing
  <2>7. CASE EndPump \/ Returned \/ UNCHANGED vars
    BY <2>2, <2>3, <2>7 DEF EndPump, Returned, vars, schedVars, poolVars, Failing
  <2>. QED
    BY <2>2, <2>3, <2>4, <2>5, <2>6, <2>7 DEF Next
<1>. QED
  BY <1>1, <1>2, SchedulerInvariant, PTL DEF Spec

(***************************************************************************)
(* run_graph returns with the pool and the channel empty, and leaves a     *)
(* hook out only because an earlier failure aborted the run: a graph that  *)
(* respects the input order never strands a hook.  What the hooks came to  *)
(* is what RunCommand takes run_plan to return.                            *)
(***************************************************************************)
THEOREM AlwaysReturnsWithNothingLeft == Spec => []ReturnsWithNothingLeft
<1>1. SchedulerInv /\ FailuresInv => ReturnsWithNothingLeft
  <2> SUFFICES ASSUME SchedulerInv, FailuresInv, pc = "returned"
               PROVE  /\ channel = <<>>
                      /\ \A i \in Node : task[i] \in {"none", "received"}
                      /\ executed # Node => \E i \in executed : Aborts(outcome[i])
                      /\ firstError = 0 =>
                            MayReturn(Node, DependsOn(args), args.failFast, args.maxWorkers,
                                      [i \in executed |-> outcome[i]])
    BY DEF ReturnsWithNothingLeft
  <2> USE DEF SchedulerInv
  <2>1. Outstanding = {}
    BY CountedSetsFinite DEF PcInv, CountInv
  <2>2. \A i \in Node : task[i] \in {"none", "received"}
    BY <2>1 DEF Outstanding, TypeOK
  <2>3. channel = <<>>
    <3>1. \A p \in DOMAIN channel : channel[p] \in Node /\ Holds(channel, channel[p])
      BY DEF TypeOK, Holds
    <3>2. DOMAIN channel = {}
      BY <2>2, <3>1 DEF ChannelInv
    <3>3. Len(channel) = 0
      BY <3>2 DEF TypeOK
    <3>. QED
      BY <3>3 DEF TypeOK
  <2>4. ASSUME executed # Node PROVE \E i \in executed : Aborts(outcome[i])
    <3>1. aborted
      BY <2>4, AllReported DEF TaskInv, TypeOK
    <3>. QED
      BY <3>1 DEF AbortInv, TaskInv
  <2>5. ASSUME firstError = 0
        PROVE  MayReturn(Node, DependsOn(args), args.failFast, args.maxWorkers,
                         [i \in executed |-> outcome[i]])
    <3> DEFINE statuses == [i \in executed |-> outcome[i]]
               failing == {i \in executed : statuses[i] # "passed"}
    <3>1. DOMAIN statuses = executed /\ executed \subseteq Node
      BY DEF TypeOK
    <3>2. \A i \in executed : task[i] = "received" /\ outcome[i] # "raised"
      BY <2>2, <2>5, <3>1 DEF TaskInv, AbortInv
    <3>3. \A i \in executed : DependsOn(args)[i] \subseteq executed
      <4>1. ASSUME NEW i \in executed, NEW k \in DOMAIN args.deps[i] PROVE args.deps[i][k] \in executed
        BY <3>1, <4>1, ArgsFacts DEF DependenciesFirst, TaskInv
      <4>. QED
        BY <3>1, <4>1 DEF DependsOn
    <3>4. executed # Node => args.failFast /\ failing # {}
      BY <2>4, <3>2 DEF Aborts
    <3>5. args.failFast => \A i \in executed : DependsOn(args)[i] \cap failing = {}
      BY <3>1 DEF DependsOn, DownstreamOfFailureNeverStarts, Aborts
    <3>6. failing = Failing
      BY <3>1, <3>2 DEF Failing, TaskInv
    <3>7. args.failFast /\ args.maxWorkers # 0 => Cardinality(failing) <= args.maxWorkers
      <4>1. args.failFast /\ args.maxWorkers # 0 => Cardinality(Failing) <= args.maxWorkers
        BY FailingFacts, ArgsFacts DEF FailuresInv, PcInv
      <4> HIDE DEF failing
      <4>. QED
        BY <3>6, <4>1
    <3>. QED
      BY <3>1, <3>3, <3>4, <3>5, <3>7 DEF MayReturn
  <2>. QED
    BY <2>2, <2>3, <2>4, <2>5
<1>. QED
  BY <1>1, SchedulerInvariant, FailuresStayWithinCap, PTL

-----------------------------------------------------------------------------
(* The gate: what the report says of the run. *)

\* With distinct ids the dict holds each hook's own outcome.
LEMMA ResultsMirrorOutcomes == Spec => []ResultsInv
<1>1. Init => ResultsInv
  <2> SUFFICES ASSUME Init, NEW i \in Node
               PROVE  results[args.ids[i]] = "none" /\ outcome[i] = "none"
    BY DEF ResultsInv, Status
  <2>1. args.ids \in [Node -> HookIds]
    BY JobsAssumption DEF Init, Args
  <2>. QED
    BY <2>1 DEF Init
<1>2. ASSUME SchedulerInv, ResultsInv, [Next]_vars PROVE ResultsInv'
  <2>1. ASSUME NEW i \in Node, NEW o \in Outcome, Finish(i, o) PROVE ResultsInv'
    <3>1. /\ args' = args
          /\ outcome' = [outcome EXCEPT ![i] = o]
          /\ results' = IF o = "raised" THEN results ELSE [results EXCEPT ![args.ids[i]] = o]
          /\ outcome[i] = "none"
      BY <1>2, <2>1 DEF Finish, SchedulerInv, TaskInv
    <3>2. args.ids \in [Node -> HookIds] /\ outcome \in [Node -> Outcome \cup {"none"}]
          /\ results \in [HookIds -> Status \cup {"none"}]
      BY <1>2, ArgsFacts DEF SchedulerInv, TypeOK
    <3> SUFFICES ASSUME UniqueIds, NEW j \in Node
                 PROVE  results'[args.ids[j]]
                           = IF outcome'[j] \in Status THEN outcome'[j] ELSE "none"
      BY <3>1 DEF ResultsInv, UniqueIds
    <3>3. results[args.ids[j]] = IF outcome[j] \in Status THEN outcome[j] ELSE "none"
      BY <1>2 DEF ResultsInv
    <3>4. CASE j = i
      <4>1. args.ids[i] \in HookIds /\ outcome'[i] = o
        BY <3>1, <3>2
      <4>2. CASE o = "raised"
        BY <3>1, <3>3, <3>4, <4>1, <4>2 DEF Status
      <4>3. CASE o # "raised"
        <5>1. results'[args.ids[i]] = o
          BY <3>1, <3>2, <4>1, <4>3
        <5>. QED
          BY <3>4, <4>1, <4>3, <5>1 DEF Outcome
      <4>. QED
        BY <4>2, <4>3
    <3>5. CASE j # i
      <4>1. args.ids[j] # args.ids[i]
        BY <3>5 DEF UniqueIds
      <4>2. results'[args.ids[j]] = results[args.ids[j]] /\ outcome'[j] = outcome[j]
        BY <3>1, <3>2, <3>5, <4>1
      <4>. QED
        BY <3>3, <4>2
    <3>. QED
      BY <3>4, <3>5
  <2>2. CASE UNCHANGED <<args, outcome, results>>
    BY <1>2, <2>2 DEF ResultsInv, UniqueIds
  <2>3. \/ UNCHANGED <<args, outcome, results>>
        \/ \E i \in Node, o \in Outcome : Finish(i, o)
    BY <1>2 DEF Next, Launch, EndPump, Receive, Start, Returned, vars, poolVars
  <2>. QED
    BY <2>1, <2>2, <2>3
<1>. QED
  BY <1>1, <1>2, SchedulerInvariant, PTL DEF Spec

(***************************************************************************)
(* The exit status is honest for every graph whose hooks carry distinct    *)
(* ids: 0 exactly when every planned hook ran and passed, and 1 whenever a *)
(* hook is listed as not run (report.py, engine.py).                       *)
(***************************************************************************)
THEOREM GateAlwaysHonest == Spec => [](UniqueIds => GateHonest)
<1>1. ASSUME SchedulerInv, ResultsInv, UniqueIds, pc = "returned"
      PROVE  /\ ExitCode = 0 <=> \A i \in Node : outcome[i] = "passed"
             /\ NotRun # {} => ExitCode = 1
  <2> USE <1>1 DEF SchedulerInv
  <2>1. Outstanding = {}
    BY CountedSetsFinite DEF PcInv, CountInv
  <2>2. \A i \in executed : i \in Node /\ task[i] = "received" /\ outcome[i] \in Outcome
    BY <2>1 DEF Outstanding, TypeOK, TaskInv
  <2>3. ASSUME ExitCode = 0, NEW i \in executed PROVE outcome[i] = "passed"
    <3>1. firstError = 0 /\ results[args.ids[i]] \notin {"failed", "error"}
      BY <2>3 DEF ExitCode
    <3>2. outcome[i] \in Status
      BY <2>2, <3>1 DEF AbortInv, Outcome
    <3>3. results[args.ids[i]] = outcome[i]
      BY <2>2, <3>2 DEF ResultsInv
    <3>. QED
      BY <3>1, <3>2, <3>3 DEF Status
  <2>4. ASSUME ExitCode = 0 PROVE executed = Node
    <3>1. SUFFICES ASSUME executed # Node PROVE FALSE
      OBVIOUS
    <3>2. PICK i \in executed : Aborts(outcome[i])
      <4>1. aborted
        BY <3>1, AllReported DEF TaskInv, TypeOK
      <4>. QED
        BY <4>1 DEF AbortInv, TaskInv
    <3>. QED
      BY <2>3, <2>4, <3>2 DEF Aborts
  <2>5. ASSUME \A i \in Node : outcome[i] = "passed" PROVE ExitCode = 0
    <3>1. firstError = 0
      BY <2>5 DEF AbortInv
    <3>2. \A i \in executed : results[args.ids[i]] = "passed"
      BY <2>2, <2>5 DEF ResultsInv, Status
    <3>. QED
      BY <3>1, <3>2 DEF ExitCode
  <2>6. ASSUME NotRun # {} PROVE ExitCode = 1
    <3>1. executed # Node
      BY <2>6 DEF NotRun
    <3>. QED
      BY <2>4, <3>1 DEF ExitCode
  <2>. QED
    BY <2>3, <2>4, <2>5, <2>6
<1>2. SchedulerInv /\ ResultsInv => (UniqueIds => GateHonest)
  BY <1>1 DEF GateHonest
<1>. QED
  BY <1>2, SchedulerInvariant, ResultsMirrorOutcomes, PTL

-----------------------------------------------------------------------------
(* RunGraph implements HookRun. *)

\* No hook has started, finished or halted the run before the first step.
LEMMA InitRefines == Init => HR!Init
BY DEF Init, HR!Init, PhaseOf, ReportedOutcome

\* The instance counts with the same operator.
LEMMA SameCardinality == \A S : HR!Cardinality(S) = Cardinality(S)
BY DEF HR!Cardinality, HR!IsFiniteSet, Cardinality, IsFiniteSet

\* A launch is the abstract start of the launched hook.
LEMMA LaunchRefines ==
    ASSUME SchedulerInv, SchedulerInv', Launch
    PROVE  HR!Next
<1> DEFINE i == Head(ready)
<1>1. /\ i \in Node
      /\ task[i] = "none"
      /\ task' = [task EXCEPT ![i] = "spawned"]
      /\ UNCHANGED <<args, aborted, outcome>>
      /\ ~aborted
      /\ args.maxWorkers = 0 \/ outstanding < args.maxWorkers
  <2>1. ready \in Seq(Node) /\ ready # <<>> /\ Distinct(ready)
    BY DEF Launch, CanLaunch, SchedulerInv, TypeOK, ReadyInv
  <2>2. i \in Node /\ Holds(ready, i)
    BY <2>1, PopFacts
  <2>. QED
    BY <2>2 DEF Launch, CanLaunch, BelowCap, SchedulerInv, ReadyInv, TaskInv
<1>2. \A j \in Node : task'[j] = IF j = i THEN "spawned" ELSE task[j]
  BY <1>1 DEF SchedulerInv, TypeOK
<1>3. ASSUME NEW k \in DOMAIN args.deps[i] PROVE task[args.deps[i][k]] = "received"
  <2>1. args.deps[i][k] \in Node /\ args.deps[i][k] # i
    <3>1. args.deps[i][k] \in Node /\ args.deps[i][k] < i /\ i \in Nat
      BY <1>1, ArgsFacts, NodeFinite DEF SchedulerInv
    <3>. QED
      BY <3>1
  <2>2. task'[args.deps[i][k]] = "received"
    BY <1>1, <1>2 DEF SchedulerInv, DependenciesFirst
  <2>. QED
    BY <1>2, <2>1, <2>2
<1>4. \A d \in HR!DependsOn(i) : d \in Node /\ PhaseOf(d) = "finished"
  BY <1>1, <1>3, ArgsFacts DEF HR!DependsOn, PhaseOf, SchedulerInv
<1>5. HR!InFlight = Outstanding
  BY DEF HR!InFlight, Outstanding, PhaseOf, SchedulerInv, TypeOK
<1>6. PhaseOf(i) = "waiting"
  BY <1>1 DEF PhaseOf
<1>7. [j \in Node |-> PhaseOf(j)]' = [[j \in Node |-> PhaseOf(j)] EXCEPT ![i] = "started"]
  <2>1. \A j \in Node : j = i => PhaseOf(j)' = "started"
    BY <1>1, <1>2 DEF PhaseOf
  <2>2. \A j \in Node : j # i => PhaseOf(j)' = PhaseOf(j)
    BY <1>2 DEF PhaseOf
  <2> HIDE DEF i
  <2>. QED
    BY <1>1, <2>1, <2>2
<1>8. [j \in Node |-> ReportedOutcome(j)]' = [j \in Node |-> ReportedOutcome(j)]
  BY <1>1, <1>2 DEF ReportedOutcome
<1>9. args.maxWorkers = 0 \/ HR!Cardinality(HR!InFlight) < args.maxWorkers
  BY <1>1, <1>5, SameCardinality DEF SchedulerInv, CountInv
<1>10. HR!Start(i)
  BY <1>1, <1>4, <1>6, <1>7, <1>8, <1>9 DEF HR!Start
<1>. QED
  BY <1>1, <1>10 DEF HR!Next

\* Receiving a completion is the abstract end of that hook.
LEMMA ReceiveRefines ==
    ASSUME SchedulerInv, Receive
    PROVE  HR!Next
<1> DEFINE i == Head(channel)
<1>1. /\ i \in Node
      /\ task[i] = "sent"
      /\ outcome[i] \in Outcome
      /\ task' = [task EXCEPT ![i] = "received"]
      /\ aborted' = (aborted \/ Aborts(outcome[i]))
      /\ UNCHANGED <<args, outcome>>
  <2>1. channel \in Seq(Node) /\ channel # <<>> /\ Distinct(channel)
    BY DEF Receive, SchedulerInv, TypeOK, ChannelInv
  <2>2. i \in Node /\ Holds(channel, i)
    BY <2>1, PopFacts
  <2>3. task[i] = "sent"
    BY <2>2 DEF SchedulerInv, ChannelInv
  <2>4. outcome[i] \in Outcome
    BY <2>2, <2>3 DEF SchedulerInv, TypeOK, TaskInv
  <2>. QED
    BY <2>2, <2>3, <2>4 DEF Receive, NoteOutcome
<1>2. \A j \in Node : task'[j] = IF j = i THEN "received" ELSE task[j]
  BY <1>1 DEF SchedulerInv, TypeOK
<1>3. [j \in Node |-> PhaseOf(j)]' = [[j \in Node |-> PhaseOf(j)] EXCEPT ![i] = "finished"]
  <2>1. \A j \in Node : j = i => PhaseOf(j)' = "finished"
    BY <1>1, <1>2 DEF PhaseOf
  <2>2. \A j \in Node : j # i => PhaseOf(j)' = PhaseOf(j)
    BY <1>2 DEF PhaseOf
  <2> HIDE DEF i
  <2>. QED
    BY <1>1, <2>1, <2>2
<1>4. [j \in Node |-> ReportedOutcome(j)]'
         = [[j \in Node |-> ReportedOutcome(j)] EXCEPT ![i] = outcome[i]]
  BY <1>1, <1>2 DEF ReportedOutcome
<1>5. PhaseOf(i) = "started"
  BY <1>1 DEF PhaseOf
<1>6. HR!Finish(i, outcome[i])
  BY <1>1, <1>3, <1>4, <1>5 DEF HR!Finish, HR!Halts, Aborts
<1>. QED
  BY <1>1, <1>6 DEF HR!Next

\* What a pool thread does between launch and report is invisible in HookRun.
LEMMA PoolStepsStutter ==
    ASSUME SchedulerInv,
           \/ EndPump
           \/ \E i \in Node : Start(i)
           \/ \E i \in Node, o \in Outcome : Finish(i, o)
           \/ UNCHANGED vars
    PROVE  UNCHANGED HR!vars
<1>1. /\ UNCHANGED <<args, aborted>>
      /\ \A j \in Node : /\ PhaseOf(j)' = PhaseOf(j)
                         /\ ReportedOutcome(j)' = ReportedOutcome(j)
  <2>1. CASE EndPump \/ UNCHANGED vars
    BY <2>1 DEF EndPump, vars, schedVars, poolVars, PhaseOf, ReportedOutcome
  <2>2. ASSUME NEW i \in Node, Start(i)
        PROVE  <1>1!:
    BY <2>2 DEF Start, schedVars, PhaseOf, ReportedOutcome, SchedulerInv, TypeOK
  <2>3. ASSUME NEW i \in Node, NEW o \in Outcome, Finish(i, o)
        PROVE  <1>1!:
    BY <2>3 DEF Finish, schedVars, PhaseOf, ReportedOutcome, SchedulerInv, TypeOK
  <2>. QED
    BY <2>1, <2>2, <2>3
<1>. QED
  BY <1>1 DEF HR!vars

(***************************************************************************)
(* The scheduler, its pool and its channel carry out the abstract run of   *)
(* hooks: every step is an abstract start, an abstract finish or a stutter.*)
(***************************************************************************)
THEOREM Refinement == Spec => ImplementsHookRun
<1>1. SchedulerInv /\ SchedulerInv' /\ [Next]_vars => [HR!Next]_HR!vars
  BY LaunchRefines, ReceiveRefines, PoolStepsStutter DEF Next, Returned
<1>. QED
  BY <1>1, InitRefines, SchedulerInvariant, PTL DEF Spec, ImplementsHookRun, HR!Spec
=============================================================================
