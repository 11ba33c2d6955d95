--------------------------- MODULE WorkspaceProofs ---------------------------
(***************************************************************************)
(* Lemmas about the choice of packages, for every workspace: the search    *)
(* for a cycle (workspace/affected.py, _check_acyclic) finds one exactly   *)
(* when there is one, and the loop over the stack (affected_packages)      *)
(* collects what its seeds reach along dependents, and nothing else.       *)
(***************************************************************************)
EXTENDS Workspace, ConfigProofs

-----------------------------------------------------------------------------
(* Packages and their dependencies. *)

\* The packages, and what each declares, are lists.
PackagesListed ==
    /\ packages \in Seq(ToSet(packages))
    /\ \A p \in ToSet(packages) : DeclaredDeps(p) \in Seq(ToSet(DeclaredDeps(p)))

DepSet(name) == ToSet(Deps(name))

\* Every dependency is a package: what ValidateDeps found.
DepsKnown == \A name \in Names : DepSet(name) \subseteq Names

\* The place of the package whose depends-on counts for a name.
LastNamed(name) == Max({i \in 1..Len(packages) : packages[i].name = name})

LEMMA DepsFound ==
    ASSUME PackagesListed, NEW name \in Names
    PROVE  /\ LastNamed(name) \in DOMAIN packages /\ packages[LastNamed(name)].name = name
           /\ Deps(name) = DeclaredDeps(packages[LastNamed(name)])
           /\ Deps(name) \in Seq(DepSet(name))
           /\ Len(Deps(name)) \in Nat /\ DOMAIN Deps(name) = 1..Len(Deps(name))
<1> DEFINE I == {i \in 1..Len(packages) : packages[i].name = name}
<1>1. Len(packages) \in Nat /\ DOMAIN packages = 1..Len(packages)
  BY LenProperties DEF PackagesListed
<1>2. I # {}
  BY <1>1 DEF Names
<1>3. Max(I) \in I
  BY <1>1, <1>2, MaxOfPositions
<1>4. Deps(name) = DeclaredDeps(packages[Max(I)])
  BY <1>2 DEF Deps, SelectLastInSeq
<1>5. packages[Max(I)] \in ToSet(packages)
  BY <1>1, <1>3 DEF ToSet
<1>6. Deps(name) \in Seq(DepSet(name))
  BY <1>4, <1>5 DEF PackagesListed, DepSet
<1>. QED
  BY <1>1, <1>3, <1>4, <1>6, LenProperties DEF LastNamed

\* dependents[name] are the packages that list it.
LEMMA DependentsFound ==
    ASSUME PackagesListed, NEW name
    PROVE  /\ Dependents(name) \in Seq(Names)
           /\ ToSet(Dependents(name)) = {m \in Names : name \in DepSet(m)}
<1> DEFINE names == [i \in DOMAIN packages |-> packages[i].name]
           listing == {i \in DOMAIN names : Contains(Deps(names[i]), name)}
           part == AtPositions(names, listing)
<1>1. Len(packages) \in Nat /\ DOMAIN packages = 1..Len(packages)
  BY LenProperties DEF PackagesListed
<1>2. names \in Seq(Names)
  <2>1. \A i \in 1..Len(packages) : packages[i].name \in Names
    BY <1>1 DEF Names
  <2>. QED
    BY <1>1, <2>1
<1>3. part \in Seq(Names) /\ ToSet(part) = {names[i] : i \in listing}
  BY <1>2, AtPositionsOf
<1>4. \A i \in DOMAIN packages : Contains(Deps(names[i]), name) <=> name \in DepSet(names[i])
  <2> SUFFICES ASSUME NEW i \in DOMAIN packages
               PROVE  Contains(Deps(names[i]), name) <=> name \in DepSet(names[i])
    OBVIOUS
  <2>1. names[i] \in Names
    BY DEF Names
  <2>. QED
    BY <2>1, DepsFound DEF Contains, DepSet, ToSet
<1>5. {names[i] : i \in listing} = {m \in Names : name \in DepSet(m)}
  BY <1>4 DEF Names
<1>6. Dependents(name) = FirstMentions(part)
  BY DEF Dependents
<1> HIDE DEF part, listing
<1>7. /\ FirstMentions(part) \in Seq(ToSet(part))
      /\ ToSet(FirstMentions(part)) = ToSet(part)
  BY <1>3, FirstMentionsOnce, FirstMentionsAll
<1>8. ToSet(part) \subseteq Names
  BY <1>3, <1>5
<1>. QED
  BY <1>3, <1>5, <1>6, <1>7, <1>8, SeqMonotonic

\* Steps that leave the packages alone leave the graph alone.
LEMMA GraphKeeps ==
    ASSUME UNCHANGED packages
    PROVE  /\ Names' = Names /\ PackagesListed' = PackagesListed /\ DepsKnown' = DepsKnown
           /\ \A name : Deps(name)' = Deps(name) /\ DepSet(name)' = DepSet(name)
           /\ \A name : Dependents(name)' = Dependents(name)
<1>1. Names' = Names
  BY DEF Names
<1>2. \A name : Deps(name)' = Deps(name)
  BY DEF Deps, DeclaredDeps, SelectLastInSeq
<1>3. \A name : DepSet(name)' = DepSet(name)
  BY <1>2 DEF DepSet
<1>4. \A name : Dependents(name)' = Dependents(name)
  BY <1>2 DEF Dependents
<1>5. PackagesListed' = PackagesListed
  BY DEF PackagesListed, DeclaredDeps
<1>6. DepsKnown' = DepsKnown
  BY <1>1, <1>3 DEF DepsKnown
<1>. QED
  BY <1>1, <1>2, <1>3, <1>4, <1>5, <1>6

-----------------------------------------------------------------------------
(* The search for a cycle. *)

Frames == [name : Names, next : Nat \ {0}]

(***************************************************************************)
(* The calls of visit: each is of another package, calls the next one for  *)
(* the dependency before its place, and what is before that place is done. *)
(***************************************************************************)
CalledBy(i) == IF i < Len(walk) THEN {walk[i + 1].name} ELSE {}
WalkInv ==
    /\ walk \in Seq(Frames)
    /\ done \subseteq Names
    /\ visiting = {walk[i].name : i \in DOMAIN walk} /\ visiting \cap done = {}
    /\ \A i, j \in DOMAIN walk : walk[i].name = walk[j].name => i = j
    /\ \A i \in DOMAIN walk :
         /\ walk[i].next <= Len(Deps(walk[i].name)) + 1
         /\ \A d \in 1..(walk[i].next - 1) : Deps(walk[i].name)[d] \in done \cup CalledBy(i)
         /\ CalledBy(i) \subseteq DepSet(walk[i].name)

\* In each of its parts, something depends on nothing in that part.
Acyclic(S) == \A T \in SUBSET S : T # {} => \E name \in T : DepSet(name) \cap T = {}
DoneInv == (\A name \in done : DepSet(name) \subseteq done) /\ Acyclic(done)

\* Some packages each depend on one of them.
CycleAmong(T) == T # {} /\ \A name \in T : DepSet(name) \cap T # {}

LEMMA WalkFacts ==
    ASSUME WalkInv
    PROVE  /\ Len(walk) \in Nat /\ DOMAIN walk = 1..Len(walk)
           /\ \A i \in 1..Len(walk) : walk[i].name \in Names /\ walk[i].next \in Nat \ {0}
           /\ \A i \in 1..Len(walk) : walk[i] = [name |-> walk[i].name, next |-> walk[i].next]
<1>1. Len(walk) \in Nat /\ DOMAIN walk = 1..Len(walk)
  BY LenProperties DEF WalkInv
<1>2. \A i \in 1..Len(walk) : walk[i] \in Frames
  BY ElementOfSeq DEF WalkInv
<1>. QED
  BY <1>1, <1>2 DEF Frames

\* The package that is done last depends on the others only, and none of them on it.
LEMMA AcyclicGrows ==
    ASSUME NEW D, NEW name, name \notin D, Acyclic(D), DepSet(name) \subseteq D,
           \A m \in D : DepSet(m) \subseteq D
    PROVE  Acyclic(D \cup {name})
<1> SUFFICES ASSUME NEW T \in SUBSET (D \cup {name}), T # {}
             PROVE  \E m \in T : DepSet(m) \cap T = {}
  BY DEF Acyclic
<1>1. CASE T \subseteq D
  BY <1>1 DEF Acyclic
<1>2. CASE T = {name}
  BY <1>2
<1>3. CASE name \in T /\ T \ {name} # {}
  <2>1. T \ {name} \in SUBSET D
    OBVIOUS
  <2>2. PICK m \in T \ {name} : DepSet(m) \cap (T \ {name}) = {}
    BY <1>3, <2>1 DEF Acyclic
  <2>3. m \in D
    BY <2>1, <2>2
  <2>. QED
    BY <2>2, <2>3
<1>. QED
  BY <1>1, <1>2, <1>3

\* To show the invariant of the next state, it is enough to know the graph of this one.
LEMMA WalkNext ==
    ASSUME UNCHANGED packages,
           walk' \in Seq(Frames), done' \subseteq Names,
           visiting' = {walk'[i].name : i \in DOMAIN walk'}, visiting' \cap done' = {},
           \A i, j \in DOMAIN walk' : walk'[i].name = walk'[j].name => i = j,
           \A i \in DOMAIN walk' :
             /\ walk'[i].next <= Len(Deps(walk'[i].name)) + 1
             /\ \A d \in 1..(walk'[i].next - 1) :
                  Deps(walk'[i].name)[d] \in done' \cup CalledBy(i)'
             /\ CalledBy(i)' \subseteq DepSet(walk'[i].name)
    PROVE  WalkInv'
<1>1. /\ Names' = Names /\ \A m : Deps(m)' = Deps(m)
      /\ \A m : DepSet(m)' = DepSet(m)
  BY GraphKeeps
<1>2. Frames' = Frames
  BY <1>1 DEF Frames
<1>3. \A i \in DOMAIN walk' :
        /\ walk'[i].next <= Len(Deps(walk[i].name)') + 1
        /\ \A d \in 1..(walk'[i].next - 1) :
             Deps(walk[i].name)'[d] \in done' \cup CalledBy(i)'
        /\ CalledBy(i)' \subseteq DepSet(walk[i].name)'
  BY <1>1
<1>. QED
  BY <1>1, <1>2, <1>3 DEF WalkInv

LEMMA VisitNextKeeps ==
    ASSUME PackagesListed, WalkInv, DoneInv, VisitNext
    PROVE  WalkInv' /\ DoneInv' /\ (phase' = "spread" => Names \subseteq done)
<1> DEFINE P == {i \in 1..Len(packages) : packages[i].name \notin done}
           first == IF P # {} THEN Min(P) ELSE 0
<1>1. Len(packages) \in Nat /\ DOMAIN packages = 1..Len(packages)
  BY LenProperties DEF PackagesListed
<1>2. P # {} => Min(P) \in P
  BY <1>1, MinOfPositions
<1>3. UNCHANGED <<packages, done>> /\ walk = <<>> /\ phase = "cycles"
  BY DEF VisitNext
<1>4. /\ Names' = Names /\ \A name : Deps(name)' = Deps(name)
      /\ \A name : DepSet(name)' = DepSet(name)
  BY <1>3, GraphKeeps
<1>5. DoneInv'
  BY <1>3, <1>4 DEF DoneInv, Acyclic
<1>6. CASE P = {}
  <2>1. UNCHANGED <<visiting, walk>>
    BY <1>6 DEF VisitNext, SelectInSeq
  <2>2. Names \subseteq done
    BY <1>1, <1>6 DEF Names
  <2>3. WalkInv'
    BY <1>3, <1>4, <2>1 DEF WalkInv, Frames, CalledBy
  <2>. QED
    BY <1>5, <2>2, <2>3
<1>7. CASE P # {}
  <2> DEFINE name == packages[Min(P)].name
             frame == [name |-> name, next |-> 1]
  <2>1. /\ visiting' = visiting \cup {name} /\ walk' = <<frame>>
        /\ phase' = phase
    <3>1. SelectInSeq(packages, LAMBDA p : p.name \notin done) = Min(P) /\ Min(P) # 0
      BY <1>2, <1>7 DEF SelectInSeq
    <3>. QED
      BY <3>1 DEF VisitNext
  <2>2. name \in Names /\ name \notin done /\ visiting = {}
    <3>1. Min(P) \in DOMAIN packages /\ name \notin done
      BY <1>1, <1>2, <1>7
    <3>2. visiting = {}
      BY <1>3 DEF WalkInv
    <3>. QED
      BY <3>1, <3>2 DEF Names
  <2>3. Len(Deps(name)) \in Nat
    BY <2>2, DepsFound
  <2>4. frame \in Frames /\ frame.name = name /\ frame.next = 1
    BY <2>2 DEF Frames
  <2> HIDE DEF name, frame
  <2>5. walk' = [i \in 1..1 |-> frame]
    BY <2>1
  <2>6. walk' \in Seq(Frames) /\ DOMAIN walk' = 1..1 /\ Len(walk') = 1 /\ walk'[1] = frame
    BY <2>4, <2>5
  <2>7. Frames' = Frames
    BY <1>4 DEF Frames
  <2>8. visiting' = {walk'[i].name : i \in DOMAIN walk'} /\ visiting' \cap done' = {}
    BY <1>3, <2>1, <2>2, <2>4, <2>6
  <2>9. \A i \in DOMAIN walk' : i = 1 /\ walk'[i] = frame /\ CalledBy(i)' = {}
    BY <2>6 DEF CalledBy
  <2>10. WalkInv'
    <3>1. walk' \in Seq(Frames') /\ done' \subseteq Names'
      BY <1>3, <1>4, <2>6, <2>7 DEF WalkInv
    <3>2. \A i, j \in DOMAIN walk' : walk'[i].name = walk'[j].name => i = j
      BY <2>9
    <3>3. \A i \in DOMAIN walk' :
            /\ walk'[i].next <= Len(Deps(walk'[i].name)) + 1
            /\ walk'[i].next - 1 = 0
      BY <2>3, <2>4, <2>9
    <3>. QED
      BY <1>4, <2>8, <2>9, <3>1, <3>2, <3>3 DEF WalkInv
  <2>. QED
    BY <1>3, <1>5, <2>1, <2>10
<1>. QED
  BY <1>6, <1>7

LEMMA VisitDependencyKeeps ==
    ASSUME PackagesListed, DepsKnown, WalkInv, DoneInv, VisitDependency
    PROVE  /\ WalkInv' /\ DoneInv' /\ phase' \in {"cycles", "package cycle"}
           /\ phase' = "package cycle" => \E T \in SUBSET Names : CycleAmong(T)
<1> DEFINE L == Len(walk)
           name == walk[L].name
           next == walk[L].next
           dep == Deps(name)[next]
           returned == [walk EXCEPT ![L].next = @ + 1]
<1>1. /\ UNCHANGED <<packages, done>> /\ phase = "cycles" /\ walk # <<>>
      /\ next <= Len(Deps(name))
  BY DEF VisitDependency, Last
<1>0. /\ dep \in visiting => phase' = "package cycle" /\ UNCHANGED <<visiting, walk>>
      /\ dep \notin visiting /\ dep \in done => walk' = returned /\ UNCHANGED <<phase, visiting>>
      /\ dep \notin visiting /\ dep \notin done =>
           /\ visiting' = visiting \cup {dep}
           /\ walk' = Append(returned, [name |-> dep, next |-> 1])
           /\ UNCHANGED phase
  BY DEF VisitDependency, Last
<1>2. /\ Names' = Names /\ \A m : Deps(m)' = Deps(m)
      /\ \A m : DepSet(m)' = DepSet(m)
  BY <1>1, GraphKeeps
<1>3. DoneInv'
  BY <1>1, <1>2 DEF DoneInv, Acyclic
<1>4. /\ L \in Nat \ {0} /\ DOMAIN walk = 1..L /\ walk \in Seq(Frames)
      /\ \A i \in 1..L : walk[i].name \in Names /\ walk[i].next \in Nat \ {0}
      /\ \A i \in 1..L : walk[i] = [name |-> walk[i].name, next |-> walk[i].next]
  <2>1. walk \in Seq(Frames)
    BY DEF WalkInv
  <2>. QED
    BY <1>1, <2>1, WalkFacts, EmptySeq
<1>5. name \in Names /\ next \in Nat \ {0} /\ walk[L] = [name |-> name, next |-> next]
  BY <1>4
<1>. HIDE DEF name, next
<1>6. /\ Len(Deps(name)) \in Nat /\ dep \in DepSet(name) /\ dep \in Names
      /\ next + 1 <= Len(Deps(name)) + 1 /\ (next + 1) - 1 = next
  <2>1. Len(Deps(name)) \in Nat /\ DOMAIN Deps(name) = 1..Len(Deps(name))
    BY <1>5, DepsFound
  <2>2. next \in DOMAIN Deps(name) /\ next + 1 <= Len(Deps(name)) + 1 /\ (next + 1) - 1 = next
    BY <1>1, <1>5, <2>1
  <2>3. dep \in DepSet(name)
    BY <2>2 DEF DepSet, ToSet
  <2>. QED
    BY <1>5, <2>1, <2>2, <2>3 DEF DepsKnown
<1> HIDE DEF dep, L
<1>7. /\ returned \in Seq(Frames) /\ Len(returned) = L /\ DOMAIN returned = 1..L
      /\ returned[L] = [name |-> name, next |-> next + 1]
      /\ \A i \in 1..L : i # L => returned[i] = walk[i]
  <2>1. returned = [walk EXCEPT ![L] = [name |-> name, next |-> next + 1]]
    <3>1. [walk[L] EXCEPT !.next = @ + 1] = [name |-> name, next |-> next + 1]
      BY <1>5
    <3>2. returned = [walk EXCEPT ![L] = [walk[L] EXCEPT !.next = @ + 1]]
      OBVIOUS
    <3>. QED
      BY <3>1, <3>2
  <2>2. [name |-> name, next |-> next + 1] \in Frames
    BY <1>5 DEF Frames
  <2>. QED
    BY <1>4, <2>1, <2>2, ExceptSeq DEF L
<1> HIDE DEF returned
<1>8. Frames' = Frames
  BY <1>2 DEF Frames
<1>9. CASE dep \in visiting
  <2>1. UNCHANGED <<visiting, walk>> /\ phase' = "package cycle"
    BY <1>0, <1>9
  <2>2. WalkInv'
    BY <1>1, <1>2, <1>8, <2>1 DEF WalkInv, CalledBy
  <2>3. PICK j \in 1..L : walk[j].name = dep
    BY <1>4, <1>9 DEF WalkInv
  <2> DEFINE T == {walk[k].name : k \in j..L}
  <2>4. T \in SUBSET Names
    BY <1>4
  <2>5. dep \in T
    BY <1>4, <2>3
  <2>6. ASSUME NEW k \in j..L PROVE DepSet(walk[k].name) \cap T # {}
    <3>1. k \in 1..L
      BY <1>4
    <3>2. CASE k = L
      BY <1>6, <2>5, <3>2 DEF name
    <3>3. CASE k # L
      <4>1. k < L /\ k + 1 \in j..L
        BY <1>4, <3>3
      <4>2. walk[k + 1].name \in CalledBy(k)
        BY <4>1 DEF CalledBy, L
      <4>3. walk[k + 1].name \in DepSet(walk[k].name)
        BY <1>4, <3>1, <4>2 DEF WalkInv
      <4>. QED
        BY <4>1, <4>3
    <3>. QED
      BY <3>2, <3>3
  <2>7. CycleAmong(T)
    BY <2>5, <2>6 DEF CycleAmong
  <2>. QED
    BY <1>3, <2>1, <2>2, <2>4, <2>7
<1>10. CASE dep \notin visiting /\ dep \in done
  <2>1. walk' = returned /\ UNCHANGED <<phase, visiting>>
    BY <1>0, <1>10
  <2>2. \A i \in 1..L : walk'[i].name = walk[i].name
    BY <1>5, <1>7, <2>1
  <2>3. \A i \in 1..L : CalledBy(i)' = CalledBy(i)
    <3> SUFFICES ASSUME NEW i \in 1..L PROVE CalledBy(i)' = CalledBy(i)
      OBVIOUS
    <3>1. i < L => i + 1 \in 1..L
      BY <1>4
    <3>2. Len(walk') = L
      BY <1>7, <2>1
    <3>. QED
      BY <2>2, <3>1, <3>2 DEF CalledBy, L
  <2>4. ASSUME NEW i \in 1..L
        PROVE  /\ walk'[i].next <= Len(Deps(walk[i].name)) + 1
               /\ \A d \in 1..(walk'[i].next - 1) :
                      Deps(walk[i].name)[d] \in done \cup CalledBy(i)
    <3>1. /\ walk[i].next <= Len(Deps(walk[i].name)) + 1
          /\ \A d \in 1..(walk[i].next - 1) : Deps(walk[i].name)[d] \in done \cup CalledBy(i)
      BY <1>4 DEF WalkInv
    <3>2. CASE i # L
      BY <1>7, <2>1, <3>1, <3>2
    <3>3. CASE i = L
      <4>1. walk'[i].next = next + 1 /\ walk[i].name = name /\ walk[i].next = next
        BY <1>5, <1>7, <2>1, <3>3
      <4>2. \A d \in 1..next : d = next \/ d \in 1..(next - 1)
        BY <1>5
      <4>3. \A d \in 1..next : Deps(name)[d] \in done \cup CalledBy(i)
        BY <1>10, <3>1, <4>1, <4>2 DEF dep
      <4>. QED
        BY <1>6, <4>1, <4>3
    <3>. QED
      BY <3>2, <3>3
  <2>5. WalkInv'
    <3>1. walk' \in Seq(Frames) /\ done' \subseteq Names /\ DOMAIN walk' = 1..L
      BY <1>1, <1>2, <1>7, <1>8, <2>1 DEF WalkInv
    <3>2. visiting' = {walk'[i].name : i \in DOMAIN walk'} /\ visiting' \cap done' = {}
      <4>1. visiting = {walk[i].name : i \in 1..L} /\ visiting \cap done = {}
        BY <1>4 DEF WalkInv
      <4>. QED
        BY <1>1, <2>1, <2>2, <3>1, <4>1
    <3>3. \A i, j \in DOMAIN walk' : walk'[i].name = walk'[j].name => i = j
      <4>1. \A i, j \in 1..L : walk[i].name = walk[j].name => i = j
        BY <1>4 DEF WalkInv
      <4>. QED
        BY <2>2, <3>1, <4>1
    <3>4. \A i \in DOMAIN walk' : CalledBy(i)' \subseteq DepSet(walk'[i].name)
      <4>1. \A i \in 1..L : CalledBy(i) \subseteq DepSet(walk[i].name)
        BY <1>4 DEF WalkInv
      <4>. QED
        BY <1>2, <2>2, <2>3, <3>1, <4>1
    <3>5. \A i \in DOMAIN walk' :
            /\ walk'[i].next <= Len(Deps(walk'[i].name)) + 1
            /\ \A d \in 1..(walk'[i].next - 1) :
                 Deps(walk'[i].name)[d] \in done' \cup CalledBy(i)'
      BY <1>1, <1>2, <2>2, <2>3, <2>4, <3>1
    <3>. QED
      BY <1>1, <3>1, <3>2, <3>3, <3>4, <3>5, WalkNext
  <2>. QED
    BY <1>1, <1>3, <2>1, <2>5
<1>11. CASE dep \notin visiting /\ dep \notin done
  <2> DEFINE frame == [name |-> dep, next |-> 1]
  <2>1. /\ walk' = Append(returned, frame) /\ visiting' = visiting \cup {dep}
        /\ UNCHANGED phase
    BY <1>0, <1>11
  <2>2. frame \in Frames /\ frame.name = dep /\ frame.next = 1
    BY <1>6 DEF Frames
  <2> HIDE DEF frame
  <2>3. /\ walk' \in Seq(Frames) /\ Len(walk') = L + 1 /\ DOMAIN walk' = 1..(L + 1)
        /\ walk'[L + 1] = frame
        /\ \A i \in 1..L : walk'[i] = returned[i]
    BY <1>4, <1>7, <2>1, <2>2, AppendProperties
  <2>4. \A i \in 1..L : walk'[i].name = walk[i].name
    BY <1>5, <1>7, <2>3
  <2>5. ASSUME NEW i \in 1..(L + 1)
        PROVE  (i = L => CalledBy(i)' = {dep}) /\ (i = L + 1 => CalledBy(i)' = {})
    <3>1. CalledBy(i)' = IF i < L + 1 THEN {walk'[i + 1].name} ELSE {}
      BY <2>3 DEF CalledBy
    <3>2. L \in Nat /\ walk'[L + 1].name = dep
      BY <1>4, <2>2, <2>3
    <3> HIDE DEF L, dep
    <3>. QED
      BY <3>1, <3>2
  <2>6. \A i \in 1..L : i # L => CalledBy(i)' = CalledBy(i)
    <3> SUFFICES ASSUME NEW i \in 1..L, i # L PROVE CalledBy(i)' = CalledBy(i)
      OBVIOUS
    <3>1. i < L /\ i < L + 1 /\ i + 1 \in 1..L
      BY <1>4
    <3>. QED
      BY <2>3, <2>4, <3>1 DEF CalledBy, L
  <2>7. ASSUME NEW i \in 1..L
        PROVE  /\ walk'[i].next <= Len(Deps(walk[i].name)) + 1
               /\ \A d \in 1..(walk'[i].next - 1) :
                      Deps(walk[i].name)[d] \in done \cup CalledBy(i)'
               /\ CalledBy(i)' \subseteq DepSet(walk[i].name)
    <3>1. /\ walk[i].next <= Len(Deps(walk[i].name)) + 1
          /\ \A d \in 1..(walk[i].next - 1) : Deps(walk[i].name)[d] \in done \cup CalledBy(i)
          /\ CalledBy(i) \subseteq DepSet(walk[i].name)
      BY <1>4 DEF WalkInv
    <3>2. CASE i # L
      BY <1>7, <2>3, <2>6, <3>1, <3>2
    <3>3. CASE i = L
      <4>1. walk'[i].next = next + 1 /\ walk[i].name = name /\ walk[i].next = next
        BY <1>5, <1>7, <2>3, <3>3
      <4>2. \A d \in 1..next : d = next \/ d \in 1..(next - 1)
        BY <1>5
      <4>3. CalledBy(i) = {}
        BY <1>4, <3>3 DEF CalledBy, L
      <4>4. \A d \in 1..next : Deps(name)[d] \in done \cup CalledBy(i)'
        <5>1. CalledBy(i)' = {dep} /\ Deps(name)[next] = dep
          BY <1>4, <2>5, <3>3 DEF dep
        <5>2. \A d \in 1..(next - 1) : Deps(name)[d] \in done
          BY <3>1, <4>1, <4>3
        <5>. QED
          BY <4>2, <5>1, <5>2
      <4>. QED
        <5>1. CalledBy(i)' = {dep} /\ dep \in DepSet(name)
          BY <1>4, <1>6, <2>5, <3>3
        <5>. QED
          BY <1>6, <4>1, <4>4, <5>1
    <3>. QED
      BY <3>2, <3>3
  <2>8. \A i \in 1..(L + 1) : i = L + 1 \/ i \in 1..L
    BY <1>4
  <2>9. WalkInv'
    <3>1. walk' \in Seq(Frames) /\ done' \subseteq Names
      BY <1>1, <1>2, <1>8, <2>3 DEF WalkInv
    <3>2. visiting' = {walk'[i].name : i \in DOMAIN walk'} /\ visiting' \cap done' = {}
      <4>1. visiting = {walk[i].name : i \in 1..L} /\ visiting \cap done = {}
        BY <1>4 DEF WalkInv
      <4>2. {walk'[i].name : i \in 1..(L + 1)} = {walk'[i].name : i \in 1..L} \cup {walk'[L + 1].name}
        BY <1>4, <2>8
      <4>. QED
        <5>1. {walk'[i].name : i \in 1..L} = visiting /\ walk'[L + 1].name = dep
          BY <2>2, <2>3, <2>4, <4>1
        <5>2. visiting' = {walk'[i].name : i \in DOMAIN walk'}
          BY <2>1, <2>3, <4>2, <5>1
        <5>. QED
          BY <1>1, <1>11, <2>1, <4>1, <5>2
    <3>3. \A i, j \in DOMAIN walk' : walk'[i].name = walk'[j].name => i = j
      <4>1. \A i, j \in 1..L : walk[i].name = walk[j].name => i = j
        BY <1>4 DEF WalkInv
      <4>2. \A i \in 1..L : walk[i].name # dep
        BY <1>4, <1>11 DEF WalkInv
      <4>. QED
        BY <2>2, <2>3, <2>4, <2>8, <4>1, <4>2
    <3>4. ASSUME NEW i \in DOMAIN walk'
          PROVE  /\ walk'[i].next <= Len(Deps(walk'[i].name)) + 1
                 /\ \A d \in 1..(walk'[i].next - 1) :
                      Deps(walk'[i].name)[d] \in done' \cup CalledBy(i)'
                 /\ CalledBy(i)' \subseteq DepSet(walk'[i].name)
      <4>1. CASE i \in 1..L
        BY <1>1, <2>4, <2>7, <4>1
      <4>2. CASE i = L + 1
        <5>1. walk'[i].next = 1 /\ walk'[i].name = dep
          BY <2>2, <2>3, <4>2
        <5>2. Len(Deps(dep)) \in Nat
          BY <1>6, DepsFound
        <5>3. CalledBy(i)' = {}
          BY <1>4, <2>5, <4>2
        <5>4. walk'[i].next <= Len(Deps(dep)) + 1 /\ walk'[i].next - 1 = 0
          BY <5>1, <5>2
        <5>. QED
          BY <5>1, <5>3, <5>4
      <4>. QED
        BY <2>3, <2>8, <4>1, <4>2
    <3>. QED
      BY <1>1, <3>1, <3>2, <3>3, <3>4, WalkNext
  <2>. QED
    BY <1>1, <1>3, <2>1, <2>9
<1>. QED
  BY <1>9, <1>10, <1>11

LEMMA LeaveKeeps ==
    ASSUME PackagesListed, WalkInv, DoneInv, Leave
    PROVE  WalkInv' /\ DoneInv'
<1> DEFINE L == Len(walk)
           name == walk[L].name
           rest == Front(walk)
<1>1. /\ UNCHANGED <<packages, phase>> /\ walk # <<>> /\ walk[L].next > Len(Deps(name))
      /\ visiting' = visiting \ {name} /\ done' = done \cup {name} /\ walk' = rest
  BY DEF Leave, Last
<1>2. /\ Names' = Names /\ \A m : Deps(m)' = Deps(m)
      /\ \A m : DepSet(m)' = DepSet(m)
  BY <1>1, GraphKeeps
<1>3. /\ L \in Nat \ {0} /\ DOMAIN walk = 1..L /\ walk \in Seq(Frames)
      /\ \A i \in 1..L : walk[i].name \in Names /\ walk[i].next \in Nat \ {0}
      /\ rest \in Seq(Frames) /\ Len(rest) = L - 1 /\ DOMAIN rest = 1..(L - 1)
      /\ \A i \in 1..(L - 1) : rest[i] = walk[i]
  <2>1. walk \in Seq(Frames)
    BY DEF WalkInv
  <2>2. /\ L \in Nat \ {0} /\ rest \in Seq(Frames) /\ Len(rest) = L - 1
        /\ \A i \in 1..(L - 1) : rest[i] = walk[i]
    BY <1>1, <2>1, FrontOf
  <2>. QED
    BY <2>1, <2>2, WalkFacts
<1>4. name \in Names /\ Len(Deps(name)) \in Nat /\ DOMAIN Deps(name) = 1..Len(Deps(name))
  BY <1>3, DepsFound
<1>5. DepSet(name) \subseteq done
  <2>1. \A d \in 1..(walk[L].next - 1) : Deps(name)[d] \in done \cup CalledBy(L)
    BY <1>3 DEF WalkInv
  <2>2. CalledBy(L) = {}
    BY <1>3 DEF CalledBy
  <2>3. Len(Deps(name)) <= walk[L].next - 1
    BY <1>1, <1>3, <1>4
  <2>4. \A d \in 1..Len(Deps(name)) : d \in 1..(walk[L].next - 1)
    BY <1>3, <1>4, <2>3
  <2>5. \A d \in DOMAIN Deps(name) : Deps(name)[d] \in done
    BY <1>4, <2>1, <2>2, <2>4
  <2>. QED
    BY <2>5 DEF DepSet, ToSet
<1> HIDE DEF name, rest, L
<1>6. name \in visiting /\ name \notin done
  BY <1>3 DEF WalkInv, name
<1>7. DoneInv'
  <2>1. Acyclic(done \cup {name})
    BY <1>5, <1>6, AcyclicGrows DEF DoneInv
  <2>2. \A m \in done \cup {name} : DepSet(m) \subseteq done \cup {name}
    BY <1>5 DEF DoneInv
  <2>. QED
    BY <1>1, <1>2, <2>1, <2>2 DEF DoneInv, Acyclic
<1>8. Frames' = Frames
  BY <1>2 DEF Frames
<1>9. \A i \in 1..L : i \in 1..(L - 1) \/ i = L
  BY <1>3
<1>10. \A i \in 1..(L - 1) : i \in 1..L /\ i # L
  BY <1>3
<1>11. \A i \in 1..(L - 1) : CalledBy(i) \subseteq CalledBy(i)' \cup {name} /\ CalledBy(i)' \subseteq CalledBy(i)
  <2> SUFFICES ASSUME NEW i \in 1..(L - 1)
               PROVE  /\ CalledBy(i) \subseteq CalledBy(i)' \cup {name}
                      /\ CalledBy(i)' \subseteq CalledBy(i)
    OBVIOUS
  <2>1. CASE i = L - 1
    <3>1. i + 1 = L /\ CalledBy(i)' = {}
      BY <1>1, <1>3, <2>1 DEF CalledBy
    <3>2. CalledBy(i) \subseteq {name}
      BY <3>1 DEF CalledBy, name
    <3>. QED
      BY <3>1, <3>2
  <2>2. CASE i # L - 1
    <3>1. i < L - 1 /\ i < L /\ i + 1 \in 1..(L - 1)
      BY <1>3, <2>2
    <3>. QED
      BY <1>1, <1>3, <3>1 DEF CalledBy, L
  <2>. QED
    BY <2>1, <2>2
<1>12. WalkInv'
  <2>1. walk' \in Seq(Frames) /\ done' \subseteq Names /\ DOMAIN walk' = 1..(L - 1)
    BY <1>1, <1>2, <1>3, <1>4, <1>8 DEF WalkInv
  <2>2. \A i, j \in 1..L : walk[i].name = walk[j].name => i = j
    BY <1>3 DEF WalkInv
  <2>3. visiting' = {walk'[i].name : i \in DOMAIN walk'} /\ visiting' \cap done' = {}
    <3>1. visiting = {walk[i].name : i \in 1..L} /\ visiting \cap done = {}
      BY <1>3 DEF WalkInv
    <3>2. {walk[i].name : i \in 1..L} = {walk[i].name : i \in 1..(L - 1)} \cup {name}
      BY <1>3, <1>9, <1>10 DEF name
    <3>3. name \notin {walk[i].name : i \in 1..(L - 1)}
      BY <1>3, <1>10, <2>2 DEF name
    <3>4. {walk'[i].name : i \in DOMAIN walk'} = {walk[i].name : i \in 1..(L - 1)}
      BY <1>1, <1>3, <2>1
    <3>. QED
      BY <1>1, <3>1, <3>2, <3>3, <3>4
  <2>4. \A i, j \in DOMAIN walk' : walk'[i].name = walk'[j].name => i = j
    BY <1>1, <1>3, <1>10, <2>1, <2>2
  <2>5. ASSUME NEW i \in DOMAIN walk'
        PROVE  /\ walk'[i].next <= Len(Deps(walk'[i].name)) + 1
               /\ \A d \in 1..(walk'[i].next - 1) :
                    Deps(walk'[i].name)[d] \in done' \cup CalledBy(i)'
               /\ CalledBy(i)' \subseteq DepSet(walk'[i].name)
    <3>1. walk'[i] = walk[i] /\ i \in 1..L
      BY <1>1, <1>3, <1>10, <2>1
    <3>2. /\ walk[i].next <= Len(Deps(walk[i].name)) + 1
          /\ \A d \in 1..(walk[i].next - 1) : Deps(walk[i].name)[d] \in done \cup CalledBy(i)
          /\ CalledBy(i) \subseteq DepSet(walk[i].name)
      BY <1>3, <3>1 DEF WalkInv
    <3>3. done \cup CalledBy(i) \subseteq done' \cup CalledBy(i)' /\ CalledBy(i)' \subseteq CalledBy(i)
      BY <1>1, <1>11, <2>1
    <3>. QED
      BY <1>2, <3>1, <3>2, <3>3
  <2>. QED
    BY <1>1, <2>1, <2>3, <2>4, <2>5, WalkNext
<1>. QED
  BY <1>7, <1>12

-----------------------------------------------------------------------------
(* The loop over the stack. *)

\* What the loop begins with.
Seeds == IF HasRootChange THEN Names ELSE DirectlyChanged

\* A set that holds the seeds and, with a package, its dependents.
Closed(S) == Seeds \subseteq S /\ \A m \in Names : DepSet(m) \cap S # {} => m \in S

(***************************************************************************)
(* What is affected or on the stack holds the seeds and the dependents of  *)
(* what is affected; and it is within every closed set.                    *)
(***************************************************************************)
Reached == affected \cup ToSet(stack)
ReachInv ==
    /\ stack \in Seq(Names) /\ affected \subseteq Names
    /\ Seeds \subseteq Reached
    /\ \A m \in Names : DepSet(m) \cap affected # {} => m \in Reached
    /\ \A S \in SUBSET Names : Closed(S) => Reached \subseteq S

LEMMA NamesFinite ==
    ASSUME PackagesListed
    PROVE  IsFiniteSet(Names) /\ Seeds \subseteq Names
<1> DEFINE f == [i \in 1..Len(packages) |-> packages[i].name]
<1>1. Len(packages) \in Nat /\ DOMAIN packages = 1..Len(packages)
  BY LenProperties DEF PackagesListed
<1>2. f \in Surjection(1..Len(packages), Names)
  BY <1>1 DEF Surjection, Names
<1>3. IsFiniteSet(1..Len(packages))
  BY <1>1, FS_Interval
<1>4. IsFiniteSet(Names)
  BY <1>2, <1>3, FS_Surjection
<1>5. DirectlyChanged \subseteq Names
  BY DEF DirectlyChanged, Names, ToSet
<1>. QED
  BY <1>4, <1>5 DEF Seeds

LEMMA SeedsKeep ==
    ASSUME UNCHANGED <<packages, changed, configDir>>
    PROVE  Seeds' = Seeds
BY DEF Seeds, HasRootChange, DirectlyChanged, Names, PackageRel

LEMMA SearchEnds ==
    ASSUME PackagesListed, VisitNext, phase' = "spread", affected = {}
    PROVE  ReachInv'
<1>1. /\ stack' \in SetToSeqs(Seeds)
      /\ UNCHANGED <<packages, changed, configDir, affected>>
  BY DEF VisitNext, Seeds
<1>2. Names' = Names /\ Seeds' = Seeds /\ \A m : DepSet(m)' = DepSet(m)
  BY <1>1, GraphKeeps, SeedsKeep
<1>3. Seeds \subseteq Names /\ IsFiniteSet(Seeds)
  BY NamesFinite, FS_Subset
<1>4. stack' \in Seq(Seeds) /\ ToSet(stack') = Seeds
  BY <1>1, <1>3, SeqsOfSet
<1>5. stack' \in Seq(Names)
  BY <1>3, <1>4, SeqMonotonic
<1>. QED
  BY <1>1, <1>2, <1>3, <1>4, <1>5 DEF ReachInv, Reached, Closed

LEMMA SpreadKeeps ==
    ASSUME PackagesListed, ReachInv, Spread
    PROVE  /\ ReachInv' /\ phase' \in {"spread", "packages"}
           /\ phase' = "packages" => stack' = <<>>
<1>1. phase = "spread" /\ UNCHANGED <<packages, changed, configDir>>
  BY DEF Spread
<1>2. Names' = Names /\ Seeds' = Seeds /\ \A m : DepSet(m)' = DepSet(m)
  BY <1>1, GraphKeeps, SeedsKeep
<1>3. CASE stack = <<>>
  <2>1. UNCHANGED <<stack, affected>> /\ phase' = "packages"
    BY <1>3 DEF Spread, spread
  <2>. QED
    BY <1>2, <1>3, <2>1 DEF ReachInv, Reached, Closed
<1>4. CASE stack # <<>>
  <2> DEFINE current == Last(stack)
             rest == Front(stack)
  <2>1. /\ affected' = affected \cup {current} /\ phase' = "spread"
        /\ stack' = IF current \in affected THEN rest ELSE rest \o Dependents(current)
    BY <1>1, <1>4 DEF Spread
  <2>2. /\ rest \in Seq(Names) /\ current \in Names
        /\ ToSet(stack) = ToSet(rest) \cup {current}
    <3>1. /\ rest \in Seq(Names) /\ Len(rest) = Len(stack) - 1
          /\ \A i \in 1..(Len(stack) - 1) : rest[i] = stack[i]
          /\ Len(stack) \in Nat \ {0} /\ current = stack[Len(stack)] /\ current \in Names
      BY <1>4, FrontOf DEF ReachInv
    <3>2. DOMAIN stack = 1..Len(stack) /\ DOMAIN rest = 1..(Len(stack) - 1)
      BY <3>1, LenProperties DEF ReachInv
    <3>3. \A i \in 1..Len(stack) : i \in 1..(Len(stack) - 1) \/ i = Len(stack)
      BY <3>1
    <3>4. \A i \in 1..(Len(stack) - 1) : i \in 1..Len(stack)
      BY <3>1
    <3> HIDE DEF rest, current
    <3>5. ToSet(stack) = {stack[i] : i \in 1..(Len(stack) - 1)} \cup {stack[Len(stack)]}
      <4>1. ToSet(stack) = {stack[i] : i \in 1..Len(stack)}
        BY <3>2 DEF ToSet
      <4>2. Len(stack) \in 1..Len(stack)
        BY <3>1
      <4>. QED
        BY <3>3, <3>4, <4>1, <4>2, Zenon
    <3>6. ToSet(rest) = {stack[i] : i \in 1..(Len(stack) - 1)}
      BY <3>1, <3>2 DEF ToSet
    <3>. QED
      BY <3>1, <3>5, <3>6
  <2>3. /\ Dependents(current) \in Seq(Names)
        /\ ToSet(Dependents(current)) = {m \in Names : current \in DepSet(m)}
    BY DependentsFound
  <2> HIDE DEF rest, current
  <2>4. CASE current \in affected
    <3>1. stack' = rest /\ affected' = affected
      BY <2>1, <2>4
    <3>2. Reached' = Reached
      BY <2>2, <2>4, <3>1 DEF Reached
    <3>. QED
      BY <1>2, <2>1, <2>2, <3>1, <3>2 DEF ReachInv, Closed
  <2>5. CASE current \notin affected
    <3>1. stack' = rest \o Dependents(current)
      BY <2>1, <2>5
    <3>2. /\ stack' \in Seq(Names)
          /\ ToSet(stack') = ToSet(rest) \cup {m \in Names : current \in DepSet(m)}
      BY <2>2, <2>3, <3>1, ConcatOf
    <3>3. Reached' = Reached \cup {m \in Names : current \in DepSet(m)}
      BY <2>1, <2>2, <3>2 DEF Reached
    <3>4. current \in Reached
      BY <2>2 DEF Reached
    <3>5. \A S \in SUBSET Names : Closed(S) => Reached' \subseteq S
      <4> SUFFICES ASSUME NEW S \in SUBSET Names, Closed(S) PROVE Reached' \subseteq S
        OBVIOUS
      <4>1. Reached \subseteq S /\ current \in S
        BY <3>4 DEF ReachInv
      <4>. QED
        BY <3>3, <4>1 DEF Closed
    <3>6. \A m \in Names : DepSet(m) \cap affected' # {} => m \in Reached'
      BY <2>1, <3>3 DEF ReachInv
    <3>. QED
      BY <1>2, <2>1, <2>2, <3>2, <3>3, <3>5, <3>6 DEF ReachInv, Closed
  <2>. QED
    BY <2>4, <2>5
<1>. QED
  BY <1>3, <1>4

-----------------------------------------------------------------------------
(* What a package inherits. *)

\* The ids of a list of definitions, as a list.
LEMMA IdList ==
    ASSUME NEW hooks, hooks \in Seq(ToSet(hooks))
    PROVE  /\ Len(hooks) \in Nat /\ DOMAIN hooks = 1..Len(hooks)
           /\ [i \in DOMAIN hooks |-> hooks[i].id] \in Seq(IdsOf(hooks))
           /\ ToSet([i \in DOMAIN hooks |-> hooks[i].id]) = IdsOf(hooks)
<1>1. Len(hooks) \in Nat /\ DOMAIN hooks = 1..Len(hooks)
  BY LenProperties
<1>2. \A i \in 1..Len(hooks) : hooks[i].id \in IdsOf(hooks)
  BY <1>1 DEF IdsOf
<1>. QED
  BY <1>1, <1>2 DEF IdsOf, ToSet

\* The definition that stands for the id of a hook of the second list is that hook.
LEMMA LaterDefinitionWins ==
    ASSUME NEW first, first \in Seq(ToSet(first)), NEW second, second \in Seq(ToSet(second)),
           IsInjective([p \in DOMAIN second |-> second[p].id]), NEW h \in ToSet(second)
    PROVE  Definition(first \o second, h.id) = h
<1> DEFINE all == first \o second
           I == {i \in 1..Len(all) : all[i].id = h.id}
           T == ToSet(first) \cup ToSet(second)
<1>1. /\ Len(first) \in Nat /\ Len(second) \in Nat /\ DOMAIN second = 1..Len(second)
      /\ first \in Seq(T) /\ second \in Seq(T)
  BY LenProperties, SeqMonotonic
<1>2. /\ Len(all) = Len(first) + Len(second)
      /\ \A i \in 1..(Len(first) + Len(second)) :
           all[i] = IF i <= Len(first) THEN first[i] ELSE second[i - Len(first)]
  BY <1>1, ConcatProperties
<1>3. Definition(all, h.id) = all[IF I # {} THEN Max(I) ELSE 0]
  BY DEF Definition, SelectLastInSeq
<1> HIDE DEF all
<1>4. PICK p \in 1..Len(second) : second[p] = h
  BY <1>1 DEF ToSet
<1>5. Len(first) + p \in I
  <2>1. /\ Len(first) + p \in 1..(Len(first) + Len(second)) /\ ~(Len(first) + p <= Len(first))
        /\ Len(first) + p - Len(first) = p
    BY <1>1
  <2>2. all[Len(first) + p] = second[p] /\ Len(first) + p \in 1..Len(all)
    BY <1>2, <2>1
  <2>. QED
    BY <1>4, <2>2
<1>6. Max(I) \in I /\ Len(first) + p <= Max(I)
  <2>1. I \subseteq 1..Len(all) /\ Len(all) \in Nat
    BY <1>1, <1>2
  <2>. QED
    BY <1>5, <2>1, MaxOfPositions
<1> DEFINE q == Max(I) - Len(first)
<1>7. q \in 1..Len(second) /\ all[Max(I)] = second[q] /\ second[q].id = h.id
  <2>1. Max(I) \in 1..Len(all) /\ all[Max(I)].id = h.id
    BY <1>6
  <2> HIDE DEF I
  <2>. QED
    BY <1>1, <1>2, <1>4, <1>6, <2>1
<1>8. q = p
  BY <1>1, <1>4, <1>7 DEF IsInjective
<1>. QED
  <2>1. Definition(all, h.id) = all[Max(I)]
    BY <1>3, <1>5
  <2> HIDE DEF I
  <2>. QED
    BY <1>4, <1>7, <1>8, <2>1 DEF all

\* What a package runs holds every hook that it defines itself.
LEMMA EffectiveHooks ==
    ASSUME NEW root, root.hooks \in Seq(ToSet(root.hooks)),
           NEW own, own.hooks \in Seq(ToSet(own.hooks)), "hooks" \in DOMAIN own
    PROVE  /\ EffectiveConfig(root, own).hooks \in Seq(ToSet(EffectiveConfig(root, own).hooks))
           /\ IsInjective([p \in DOMAIN own.hooks |-> own.hooks[p].id]) =>
                 ToSet(own.hooks) \subseteq ToSet(EffectiveConfig(root, own).hooks)
<1>1. CASE InheritMode(root, own) # "merge"
  <2>1. EffectiveConfig(root, own) = [own EXCEPT !.workspace = None]
    BY <1>1 DEF EffectiveConfig
  <2>2. EffectiveConfig(root, own).hooks = own.hooks
    BY <2>1
  <2>. QED
    BY <2>2
<1>2. CASE InheritMode(root, own) = "merge"
  <2> DEFINE rootIds == [i \in DOMAIN root.hooks |-> root.hooks[i].id]
             ownIds == [i \in DOMAIN own.hooks |-> own.hooks[i].id]
             new == {p \in DOMAIN own.hooks : own.hooks[p].id \notin IdsOf(root.hooks)}
             part == AtPositions(ownIds, new)
             mentions == FirstMentions(part)
             order == rootIds \o mentions
             all == root.hooks \o own.hooks
             T == IdsOf(root.hooks) \cup IdsOf(own.hooks)
             merged == [i \in DOMAIN order |-> Definition(all, order[i])]
  <2>1. EffectiveConfig(root, own).hooks = merged
    BY <1>2 DEF EffectiveConfig, MergeHooks
  <2>2. /\ rootIds \in Seq(IdsOf(root.hooks)) /\ ToSet(rootIds) = IdsOf(root.hooks)
        /\ ownIds \in Seq(IdsOf(own.hooks)) /\ DOMAIN ownIds = DOMAIN own.hooks
        /\ DOMAIN own.hooks = 1..Len(own.hooks)
    BY IdList
  <2>3. \A p \in new : ownIds[p] = own.hooks[p].id
    OBVIOUS
  <2>4. new \subseteq DOMAIN ownIds
    BY <2>2
  <2> HIDE DEF rootIds, ownIds, new
  <2>5. part \in Seq(IdsOf(own.hooks)) /\ ToSet(part) = {ownIds[p] : p \in new}
    BY <2>2, <2>4, AtPositionsOf
  <2> HIDE DEF part
  <2>6. mentions \in Seq(ToSet(part)) /\ ToSet(mentions) = ToSet(part)
    BY <2>5, FirstMentionsOnce, FirstMentionsAll
  <2>7. ToSet(part) \subseteq T
    BY <2>2, <2>3, <2>4, <2>5 DEF IdsOf
  <2> HIDE DEF mentions
  <2>8. rootIds \in Seq(T) /\ mentions \in Seq(T)
    BY <2>2, <2>6, <2>7, SeqMonotonic
  <2>9. order \in Seq(T) /\ ToSet(order) = ToSet(rootIds) \cup ToSet(mentions)
    BY <2>8, ConcatOf
  <2>10. Len(order) \in Nat /\ DOMAIN order = 1..Len(order)
    BY <2>9, LenProperties
  <2> HIDE DEF order, all
  <2>11. \A i \in 1..Len(order) : merged[i] \in ToSet(merged)
    BY <2>10 DEF ToSet
  <2>12. merged \in Seq(ToSet(merged))
    <3>1. merged \in [1..Len(order) -> ToSet(merged)]
      <4>1. DOMAIN merged = 1..Len(order) /\ merged = [i \in 1..Len(order) |-> merged[i]]
        BY <2>10
      <4> HIDE DEF merged
      <4>. QED
        BY <2>11, <4>1
    <3> HIDE DEF merged
    <3>. QED
      BY <2>10, <3>1
  <2>13. ASSUME IsInjective([p \in DOMAIN own.hooks |-> own.hooks[p].id]),
                NEW h \in ToSet(own.hooks)
         PROVE  h \in ToSet(merged)
    <3>1. PICK p \in DOMAIN own.hooks : own.hooks[p] = h
      BY DEF ToSet
    <3>2. h.id \in ToSet(order)
      <4>1. CASE h.id \in IdsOf(root.hooks)
        BY <2>2, <2>9, <4>1
      <4>2. CASE h.id \notin IdsOf(root.hooks)
        <5>1. p \in new
          BY <3>1, <4>2 DEF new
        <5>2. h.id \in ToSet(part)
          BY <2>3, <2>5, <3>1, <5>1
        <5>. QED
          BY <2>6, <2>9, <5>2
      <4>. QED
        BY <4>1, <4>2
    <3>3. PICK i \in DOMAIN order : order[i] = h.id
      BY <3>2 DEF ToSet
    <3>4. Definition(all, h.id) = h
      BY <2>13, LaterDefinitionWins DEF all
    <3>5. merged[i] = h
      BY <3>3, <3>4
    <3>6. i \in 1..Len(order)
      BY <2>10, <3>3
    <3>. QED
      BY <2>11, <3>5, <3>6
  <2> HIDE DEF merged
  <2>. QED
    BY <2>1, <2>12, <2>13
<1>. QED
  BY <1>1, <1>2
-----------------------------------------------------------------------------
(* Paths. *)

\* A path below a directory is that directory's and one relative to it.
LEMMA PathParts ==
    ASSUME NEW T, NEW dir \in Seq(T), NEW path \in Seq(T), IsPrefix(dir, path)
    PROVE  RelativeTo(path, dir) \in Seq(T) /\ path = dir \o RelativeTo(path, dir)
<1>1. Len(dir) \in Nat /\ Len(path) \in Nat /\ Len(dir) <= Len(path)
  BY LenProperties DEF IsPrefix
<1>2. SubSeq(dir, 1, Len(dir)) = SubSeq(path, 1, Len(dir))
  BY DEF IsPrefix
<1>3. dir = SubSeq(path, 1, Len(dir)) /\ path = SubSeq(path, 1, Len(path))
  BY <1>2, SubSeqFull
<1>4. SubSeq(path, 1, Len(dir)) \o SubSeq(path, Len(dir) + 1, Len(path)) = SubSeq(path, 1, Len(path))
  <2>1. 1 \in 1..(Len(path) + 1) /\ Len(dir) \in (1 - 1)..Len(path) /\ Len(path) \in Len(dir)..Len(path)
    BY <1>1
  <2>. QED
    BY <2>1, ConcatAdjacentSubSeq
<1>5. SubSeq(path, Len(dir) + 1, Len(path)) \in Seq(T)
  <2>1. \A i \in (Len(dir) + 1)..Len(path) : path[i] \in T
    BY <1>1, ElementOfSeq
  <2>2. Len(dir) + 1 \in Int /\ Len(path) \in Int
    BY <1>1
  <2>. QED
    BY <2>1, <2>2, SubSeqProperties
<1>. QED
  BY <1>3, <1>4, <1>5 DEF RelativeTo

\* What is joined to a directory is below it, and that is its name from there.
LEMMA PathJoined ==
    ASSUME NEW T, NEW dir \in Seq(T), NEW name \in Seq(T)
    PROVE  IsPrefix(dir, dir \o name) /\ RelativeTo(dir \o name, dir) = name
<1> DEFINE m == Len(dir)
           n == Len(name)
           path == dir \o name
<1>1. m \in Nat /\ n \in Nat
  BY LenProperties
<1>2. /\ path \in Seq(T) /\ Len(path) = m + n
      /\ \A i \in 1..(m + n) : path[i] = IF i <= m THEN dir[i] ELSE name[i - m]
  BY ConcatProperties
<1>3. \A i \in 1..m : dir[i] \in T
  BY ElementOfSeq
<1>4. \A i \in 1..n : name[i] \in T
  BY ElementOfSeq
<1> HIDE DEF path, m, n
<1>5. \A i \in 1..m : path[i] = dir[i]
  BY <1>1, <1>2
<1>6. \A i \in 1..n : path[m + 1 + i - 1] = name[i]
  <2> SUFFICES ASSUME NEW i \in 1..n PROVE path[m + 1 + i - 1] = name[i]
    OBVIOUS
  <2> DEFINE k == m + 1 + i - 1
  <2>1. k \in 1..(m + n) /\ ~(k <= m) /\ k - m = i
    BY <1>1
  <2> HIDE DEF k
  <2>2. path[k] = name[k - m]
    BY <1>2, <2>1
  <2>. QED
    BY <2>1, <2>2 DEF k
<1>7. SubSeq(path, 1, m) = dir
  <2>1. /\ SubSeq(path, 1, m) \in Seq(T) /\ Len(SubSeq(path, 1, m)) = m
        /\ \A i \in 1..m : SubSeq(path, 1, m)[i] = path[i]
    <3>1. \A i \in 1..m : path[i] \in T
      BY <1>3, <1>5
    <3>2. 1 \in Int /\ m \in Int
      BY <1>1
    <3>3. /\ SubSeq(path, 1, m) \in Seq(T)
          /\ Len(SubSeq(path, 1, m)) = IF 1 <= m THEN m - 1 + 1 ELSE 0
          /\ \A i \in 1..(m - 1 + 1) : SubSeq(path, 1, m)[i] = path[1 + i - 1]
      BY <3>1, <3>2, SubSeqProperties
    <3>4. (IF 1 <= m THEN m - 1 + 1 ELSE 0) = m /\ m - 1 + 1 = m
      BY <1>1
    <3>5. \A i \in 1..m : 1 + i - 1 = i
      BY <1>1
    <3>. QED
      BY <3>3, <3>4, <3>5
  <2>2. Len(dir) = m
    BY DEF m
  <2>. QED
    BY <1>5, <2>1, <2>2, SeqEqual
<1> DEFINE lo == m + 1
           hi == m + n
<1>8. SubSeq(path, lo, hi) = name
  <2>1. lo \in Int /\ hi \in Int /\ \A i \in lo..hi : i \in 1..Len(path)
    BY <1>1, <1>2
  <2>2. (IF lo <= hi THEN hi - lo + 1 ELSE 0) = n /\ hi - lo + 1 = n
    BY <1>1
  <2>3. \A i \in 1..n : path[lo + i - 1] = name[i]
    BY <1>6
  <2>4. Len(name) = n
    BY DEF n
  <2> HIDE DEF lo, hi
  <2>5. \A i \in lo..hi : path[i] \in T
    BY <1>2, <2>1, ElementOfSeq
  <2>6. /\ SubSeq(path, lo, hi) \in Seq(T)
        /\ Len(SubSeq(path, lo, hi)) = IF lo <= hi THEN hi - lo + 1 ELSE 0
        /\ \A i \in 1..(hi - lo + 1) : SubSeq(path, lo, hi)[i] = path[lo + i - 1]
    BY <2>1, <2>5, SubSeqProperties
  <2>. QED
    BY <2>2, <2>3, <2>4, <2>6, SeqEqual
<1>9. IsPrefix(dir, path)
  <2>1. m <= m + n
    BY <1>1
  <2>2. SubSeq(dir, 1, m) = dir
    BY SubSeqFull DEF m
  <2>. QED
    BY <1>2, <1>7, <2>1, <2>2 DEF IsPrefix, m
<1>. QED
  BY <1>2, <1>8, <1>9 DEF RelativeTo, path, m

\* A file of the workspace is below one of its directories just when its name is below that one's.
LEMMA PathsBelowTop ==
    ASSUME NEW T, NEW top \in Seq(T), NEW rel \in Seq(T), NEW f \in Seq(T)
    PROVE  /\ IsPrefix(top \o rel, top \o f) <=> IsPrefix(rel, f)
           /\ IsPrefix(rel, f) =>
                 /\ top \o f = (top \o rel) \o RelativeTo(f, rel)
                 /\ RelativeTo(top \o f, top \o rel) = RelativeTo(f, rel)
<1>1. top \o rel \in Seq(T) /\ top \o f \in Seq(T)
  BY ConcatProperties
<1>2. ASSUME IsPrefix(rel, f)
      PROVE  /\ IsPrefix(top \o rel, top \o f)
             /\ top \o f = (top \o rel) \o RelativeTo(f, rel)
             /\ RelativeTo(top \o f, top \o rel) = RelativeTo(f, rel)
  <2> DEFINE g == RelativeTo(f, rel)
  <2>1. g \in Seq(T) /\ f = rel \o g
    BY <1>2, PathParts
  <2> HIDE DEF g
  <2>2. top \o f = (top \o rel) \o g
    BY <2>1, ConcatAssociative
  <2>3. IsPrefix(top \o rel, (top \o rel) \o g) /\ RelativeTo((top \o rel) \o g, top \o rel) = g
    BY <1>1, <2>1, PathJoined
  <2>. QED
    BY <2>2, <2>3 DEF g
<1>3. ASSUME IsPrefix(top \o rel, top \o f) PROVE IsPrefix(rel, f)
  <2> DEFINE g == RelativeTo(top \o f, top \o rel)
  <2>1. g \in Seq(T) /\ top \o f = (top \o rel) \o g
    BY <1>1, <1>3, PathParts
  <2> HIDE DEF g
  <2>2. top \o f = top \o (rel \o g) /\ rel \o g \in Seq(T)
    BY <2>1, ConcatAssociative, ConcatProperties
  <2>3. f = rel \o g
    <3>1. RelativeTo(top \o f, top) = f /\ RelativeTo(top \o (rel \o g), top) = rel \o g
      BY <2>2, PathJoined
    <3>. QED
      BY <2>2, <3>1
  <2>. QED
    BY <2>1, <2>3, PathJoined
<1>. QED
  BY <1>2, <1>3

\* What is left of a path without its beginning is a path.
LEMMA RestIsPath ==
    ASSUME NEW T, NEW path \in Seq(T), NEW dir, Len(dir) \in Nat
    PROVE  RelativeTo(path, dir) \in Seq(T)
<1> DEFINE m == Len(dir)
           n == Len(path)
<1>1. m \in Nat /\ n \in Nat
  BY LenProperties
<1>2. \A i \in 1..n : path[i] \in T
  BY ElementOfSeq
<1> HIDE DEF m, n
<1>3. \A i \in (m + 1)..n : path[i] \in T
  BY <1>1, <1>2
<1>4. m + 1 \in Int /\ n \in Int
  BY <1>1
<1>5. SubSeq(path, m + 1, n) \in Seq(T)
  BY <1>3, <1>4, SubSeqProperties
<1>. QED
  BY <1>5 DEF RelativeTo, m, n

\* A list is one of its own elements.
LEMMA PathOfItsParts ==
    ASSUME NEW T, NEW path \in Seq(T)
    PROVE  path \in Seq(ToSet(path))
<1>1. Len(path) \in Nat /\ DOMAIN path = 1..Len(path) /\ path = [i \in 1..Len(path) |-> path[i]]
  BY LenProperties
<1>2. \A i \in 1..Len(path) : path[i] \in ToSet(path)
  BY <1>1 DEF ToSet
<1>3. path \in [1..Len(path) -> ToSet(path)]
  BY <1>1, <1>2
<1>. QED
  BY <1>1, <1>3

\* The changed files below a directory, by their names from the top and from there.
LEMMA FilesBelow ==
    ASSUME NEW top, NEW dir, top \in Seq(ToSet(top)), dir \in Seq(ToSet(dir)), IsPrefix(top, dir),
           NEW f, f \in Seq(ToSet(f))
    PROVE  LET rel == RelativeTo(dir, top) IN
           /\ IsPrefix(dir, top \o f) <=> IsPrefix(rel, f)
           /\ IsPrefix(rel, f) => /\ top \o f = dir \o RelativeTo(f, rel)
                                  /\ RelativeTo(top \o f, dir) = RelativeTo(f, rel)
<1> DEFINE T == ToSet(top) \cup ToSet(dir) \cup ToSet(f)
           rel == RelativeTo(dir, top)
<1>1. top \in Seq(T) /\ dir \in Seq(T) /\ f \in Seq(T)
  <2>1. ToSet(top) \subseteq T /\ ToSet(dir) \subseteq T /\ ToSet(f) \subseteq T
    OBVIOUS
  <2> HIDE DEF T
  <2>. QED
    BY <2>1, SeqMonotonic
<1> HIDE DEF T
<1>2. rel \in Seq(T) /\ dir = top \o rel
  BY <1>1, PathParts
<1> HIDE DEF rel
<1>3. /\ IsPrefix(top \o rel, top \o f) <=> IsPrefix(rel, f)
      /\ IsPrefix(rel, f) => /\ top \o f = (top \o rel) \o RelativeTo(f, rel)
                             /\ RelativeTo(top \o f, top \o rel) = RelativeTo(f, rel)
  BY <1>1, <1>2, PathsBelowTop
<1>. QED
  BY <1>2, <1>3 DEF rel
=============================================================================
