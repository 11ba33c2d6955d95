---------------------------- MODULE ConfigProofs ----------------------------
(***************************************************************************)
(* What the operators of Config return: the order InOrder puts a set in,   *)
(* the definition that stands for an id, the first mentions in a list.     *)
(***************************************************************************)
EXTENDS Config, FiniteSetTheorems, SequenceTheorems, WellFoundedInduction, TLAPS

-----------------------------------------------------------------------------
(* Orders. *)

StrictTotalOrder(S, order) ==
    /\ \A x \in S : <<x, x>> \notin order
    /\ \A x, y, z \in S : <<x, y>> \in order /\ <<y, z>> \in order => <<x, z>> \in order
    /\ \A x, y \in S : x = y \/ <<x, y>> \in order \/ <<y, x>> \in order

(***************************************************************************)
(* InOrder lists every member of the set once, each before those that      *)
(* follow it in the order.  A member's rank, the number of members below   *)
(* it, grows along the order; so ranks differ, and as many as there are    *)
(* members take all the values below that number.                          *)
(***************************************************************************)
THEOREM InOrderSorts ==
    ASSUME NEW S, IsFiniteSet(S), NEW order, StrictTotalOrder(S, order)
    PROVE  /\ InOrder(S, order) \in [1..Cardinality(S) -> S]
           /\ \A x \in S : \E k \in 1..Cardinality(S) : InOrder(S, order)[k] = x
           /\ \A j, k \in 1..Cardinality(S) :
                j < k <=> <<InOrder(S, order)[j], InOrder(S, order)[k]>> \in order
<1> DEFINE n == Cardinality(S)
           below(x) == {y \in S : <<y, x>> \in order}
           rank == [x \in S |-> Cardinality(below(x))]
           s == InOrder(S, order)
<1>1. n \in Nat
  BY FS_CardinalityType
<1>2. ASSUME NEW x \in S PROVE IsFiniteSet(below(x)) /\ rank[x] \in Nat
  BY FS_Subset, FS_CardinalityType
<1>3. ASSUME NEW x \in S PROVE rank[x] \in 0..(n - 1)
  <2>1. below(x) \in SUBSET S /\ below(x) # S
    BY DEF StrictTotalOrder
  <2>2. Cardinality(below(x)) <= n /\ Cardinality(below(x)) # n
    BY <2>1, FS_Subset
  <2>. QED
    BY <1>1, <1>2, <2>2
<1>4. ASSUME NEW x \in S, NEW y \in S, <<x, y>> \in order PROVE rank[x] < rank[y]
  <2>1. below(x) \in SUBSET below(y) /\ x \in below(y) /\ x \notin below(x)
    BY <1>4 DEF StrictTotalOrder
  <2>2. below(x) # below(y)
    BY <2>1
  <2>3. Cardinality(below(x)) <= Cardinality(below(y)) /\ Cardinality(below(y)) # Cardinality(below(x))
    BY <1>2, <2>1, <2>2, FS_Subset
  <2>. QED
    BY <1>2, <2>3
<1>5. rank \in [S -> 0..(n - 1)] /\ \A x \in S : rank[x] \in Nat
  BY <1>2, <1>3
<1> HIDE DEF rank, n
<1>6. rank \in Injection(S, 0..(n - 1))
  <2> SUFFICES ASSUME NEW x \in S, NEW y \in S, rank[x] = rank[y] PROVE x = y
    BY <1>5 DEF Injection, IsInjective
  <2>1. ~(<<x, y>> \in order) /\ ~(<<y, x>> \in order)
    BY <1>4, <1>5
  <2>. QED
    BY <2>1 DEF StrictTotalOrder
<1>7. IsFiniteSet(0..(n - 1)) /\ Cardinality(0..(n - 1)) = n
  BY <1>1, FS_Interval
<1>8. rank \in Surjection(S, 0..(n - 1))
  <2>1. Cardinality(S) = Cardinality(0..(n - 1)) <=> rank \in Surjection(S, 0..(n - 1))
    BY <1>6, <1>7, FS_Injection
  <2>. QED
    BY <1>7, <2>1 DEF n
<1>9. ASSUME NEW r \in 0..(n - 1) PROVE \E x \in S : rank[x] = r
  BY <1>8 DEF Surjection
<1>10. ASSUME NEW k \in 1..n PROVE s[k] \in S /\ rank[s[k]] = k - 1
  <2>1. k - 1 \in 0..(n - 1)
    BY <1>1
  <2>2. s[k] = CHOOSE x \in S : Cardinality({y \in S : <<y, x>> \in order}) = k - 1
    BY DEF InOrder, n
  <2>3. \E x \in S : Cardinality({y \in S : <<y, x>> \in order}) = k - 1
    BY <1>9, <2>1 DEF rank
  <2>. QED
    BY <2>2, <2>3 DEF rank
<1>11. s \in [1..n -> S]
  BY <1>10 DEF InOrder, n
<1> HIDE DEF s
<1>12. ASSUME NEW x \in S PROVE \E k \in 1..n : s[k] = x
  <2>1. rank[x] + 1 \in 1..n
    BY <1>1, <1>3
  <2>2. rank[s[rank[x] + 1]] = rank[x] /\ s[rank[x] + 1] \in S
    BY <1>5, <1>10, <2>1
  <2>. QED
    BY <1>6, <2>1, <2>2 DEF Injection, IsInjective
<1>13. ASSUME NEW j \in 1..n, NEW k \in 1..n PROVE j < k <=> <<s[j], s[k]>> \in order
  <2>1. /\ s[j] \in S /\ rank[s[j]] = j - 1
        /\ s[k] \in S /\ rank[s[k]] = k - 1
    BY <1>10
  <2>2. CASE <<s[j], s[k]>> \in order
    BY <1>1, <1>4, <2>1, <2>2
  <2>3. CASE <<s[k], s[j]>> \in order
    BY <1>1, <1>4, <2>1, <2>3 DEF StrictTotalOrder
  <2>4. CASE s[j] = s[k]
    BY <1>1, <2>1, <2>4 DEF StrictTotalOrder
  <2>. QED
    BY <2>1, <2>2, <2>3, <2>4 DEF StrictTotalOrder
<1>. QED
  BY <1>11, <1>12, <1>13 DEF n, s

\* Positions in ascending order are in a strict total order.
LEMMA AscendingIsOrder ==
    ASSUME NEW S, S \subseteq Nat
    PROVE  StrictTotalOrder(S, Ascending(S))
<1>1. \A x, y \in S : <<x, y>> \in Ascending(S) <=> x < y
  BY DEF Ascending
<1>. QED
  BY <1>1 DEF StrictTotalOrder

-----------------------------------------------------------------------------
(* The definition of an id. *)

\* A set of positions that is not empty has a last one, and Max is it.
LEMMA MaxOfPositions ==
    ASSUME NEW n \in Nat, NEW S, S \subseteq 1..n, S # {}
    PROVE  Max(S) \in S /\ \A x \in S : x <= Max(S)
<1> DEFINE T == {n - x : x \in S}
<1>1. T \subseteq Nat /\ T # {}
  <2>1. \A x \in S : n - x \in Nat
    OBVIOUS
  <2>2. \E x \in S : n - x \in T
    OBVIOUS
  <2>. QED
    BY <2>1, <2>2
<1>2. PICK t \in T : \A u \in T : ~(<<u, t>> \in OpToRel(<, Nat))
  BY <1>1, NatLessThanWellFounded, WFMin
<1>3. PICK x \in S : t = n - x
  OBVIOUS
<1> HIDE DEF T
<1>4. \A u \in T : t <= u
  <2> SUFFICES ASSUME NEW u \in T PROVE ~(u < t)
    BY <1>1
  <2>. QED
    BY <1>1, <1>2 DEF OpToRel
<1>5. \A y \in S : x >= y
  <2> SUFFICES ASSUME NEW y \in S PROVE x >= y
    OBVIOUS
  <2>1. n - y \in T
    BY DEF T
  <2>. QED
    BY <1>3, <1>4, <2>1
<1>6. Max(S) \in S /\ \A y \in S : Max(S) >= y
  BY <1>5 DEF Max
<1>. QED
  BY <1>6

\* And a first one, which is Min.
LEMMA MinOfPositions ==
    ASSUME NEW n \in Nat, NEW S, S \subseteq 1..n, S # {}
    PROVE  Min(S) \in S /\ \A x \in S : Min(S) <= x
<1>1. S \subseteq Nat
  OBVIOUS
<1>2. PICK x \in S : \A y \in S : ~(<<y, x>> \in OpToRel(<, Nat))
  BY <1>1, NatLessThanWellFounded, WFMin
<1>3. \A y \in S : x =< y
  <2> SUFFICES ASSUME NEW y \in S PROVE ~(y < x)
    BY <1>1
  <2>. QED
    BY <1>1, <1>2 DEF OpToRel
<1>. QED
  BY <1>3 DEF Min

\* The definition of an id that a list defines is in the list and has the id.
LEMMA DefinitionFound ==
    ASSUME NEW hooks, hooks \in Seq(ToSet(hooks)), NEW id \in IdsOf(hooks)
    PROVE  Definition(hooks, id) \in ToSet(hooks) /\ Definition(hooks, id).id = id
<1> DEFINE I == {i \in 1..Len(hooks) : hooks[i].id = id}
<1>1. Len(hooks) \in Nat /\ DOMAIN hooks = 1..Len(hooks)
  OBVIOUS
<1>2. I # {}
  BY <1>1 DEF IdsOf
<1>3. Max(I) \in I
  BY <1>1, <1>2, MaxOfPositions
<1>4. Definition(hooks, id) = hooks[Max(I)]
  BY <1>2 DEF Definition, SelectLastInSeq
<1>. QED
  BY <1>1, <1>3, <1>4 DEF ToSet

-----------------------------------------------------------------------------
(* Parts of a list. *)

\* The k-th of some positions.
PositionOf(S, k) == InOrder(S, Ascending(S))[k]

(***************************************************************************)
(* AtPositions keeps the order of the list: its elements are those at      *)
(* ascending positions, and each of the positions is among them.           *)
(***************************************************************************)
THEOREM AtPositionsKeepsOrder ==
    ASSUME NEW T, NEW seq \in Seq(T), NEW S, S \subseteq DOMAIN seq
    PROVE  /\ AtPositions(seq, S) \in Seq({seq[p] : p \in S})
           /\ Len(AtPositions(seq, S)) = Cardinality(S) /\ Cardinality(S) \in Nat
           /\ \A k \in 1..Cardinality(S) : AtPositions(seq, S)[k] = seq[PositionOf(S, k)]
           /\ \A k \in 1..Cardinality(S) : PositionOf(S, k) \in S
           /\ \A p \in S : \E k \in 1..Cardinality(S) : PositionOf(S, k) = p
           /\ \A j, k \in 1..Cardinality(S) : j < k <=> PositionOf(S, j) < PositionOf(S, k)
<1> DEFINE n == Cardinality(S)
           at == InOrder(S, Ascending(S))
<1>1. S \in SUBSET (1..Len(seq)) /\ Len(seq) \in Nat /\ S \subseteq Nat
  OBVIOUS
<1>2. IsFiniteSet(S)
  <2>1. IsFiniteSet(1..Len(seq))
    BY <1>1, FS_Interval
  <2>. QED
    BY <1>1, <2>1, FS_Subset
<1>3. n \in Nat
  BY <1>2, FS_CardinalityType
<1>4. /\ at \in [1..n -> S]
      /\ \A p \in S : \E k \in 1..n : at[k] = p
      /\ \A j, k \in 1..n : j < k <=> <<at[j], at[k]>> \in Ascending(S)
  BY <1>1, <1>2, AscendingIsOrder, InOrderSorts
<1> HIDE DEF at, n
<1>5. \A j, k \in 1..n : j < k <=> at[j] < at[k]
  BY <1>4 DEF Ascending
<1>6. AtPositions(seq, S) = [k \in 1..n |-> seq[at[k]]]
  BY DEF AtPositions, at, n
<1>7. \A k \in 1..n : seq[at[k]] \in {seq[p] : p \in S}
  BY <1>4
<1>8. AtPositions(seq, S) \in [1..n -> {seq[p] : p \in S}]
  BY <1>6, <1>7
<1>9. AtPositions(seq, S) \in Seq({seq[p] : p \in S}) /\ Len(AtPositions(seq, S)) = n
  BY <1>3, <1>8
<1>10. \A k \in 1..n : AtPositions(seq, S)[k] = seq[at[k]]
  BY <1>6
<1>11. \A k : PositionOf(S, k) = at[k]
  BY DEF PositionOf, at
<1>12. \A k \in 1..n : PositionOf(S, k) \in S /\ AtPositions(seq, S)[k] = seq[PositionOf(S, k)]
  BY <1>4, <1>10, <1>11
<1>13. \A p \in S : \E k \in 1..n : PositionOf(S, k) = p
  BY <1>4, <1>11
<1>14. \A j, k \in 1..n : j < k <=> PositionOf(S, j) < PositionOf(S, k)
  BY <1>5, <1>11
<1>. QED
  BY <1>3, <1>9, <1>12, <1>13, <1>14 DEF n

\* The first mentions are a list of the ids mentioned, none of them twice.
LEMMA FirstMentionsOnce ==
    ASSUME NEW T, NEW ids \in Seq(T)
    PROVE  /\ FirstMentions(ids) \in Seq(ToSet(ids))
           /\ IsInjective(FirstMentions(ids))
<1> DEFINE firsts == {p \in DOMAIN ids : \A q \in 1..(p - 1) : ids[q] # ids[p]}
           mentions == AtPositions(ids, firsts)
<1>1. FirstMentions(ids) = mentions
  BY DEF FirstMentions
<1>2. firsts \subseteq DOMAIN ids /\ firsts \subseteq Nat /\ DOMAIN ids = 1..Len(ids)
  OBVIOUS
<1>3. \A p \in firsts : \A q \in firsts : q < p => ids[q] # ids[p]
  <2> SUFFICES ASSUME NEW p \in firsts, NEW q \in firsts, q < p PROVE ids[q] # ids[p]
    OBVIOUS
  <2>1. q \in 1..(p - 1)
    BY <1>2
  <2>. QED
    BY <2>1
<1>4. {ids[p] : p \in firsts} \subseteq ToSet(ids)
  BY <1>2 DEF ToSet
<1> HIDE DEF firsts
<1>5. mentions \in Seq({ids[p] : p \in firsts}) /\ DOMAIN mentions = 1..Cardinality(firsts)
  BY <1>2, AtPositionsKeepsOrder
<1>6. /\ \A k \in 1..Cardinality(firsts) :
              PositionOf(firsts, k) \in firsts /\ mentions[k] = ids[PositionOf(firsts, k)]
      /\ \A j, k \in 1..Cardinality(firsts) :
              j < k <=> PositionOf(firsts, j) < PositionOf(firsts, k)
  <2>1. \A k \in 1..Cardinality(firsts) :
          PositionOf(firsts, k) \in firsts /\ mentions[k] = ids[PositionOf(firsts, k)]
    <3> SUFFICES ASSUME NEW k \in 1..Cardinality(firsts)
                 PROVE  PositionOf(firsts, k) \in firsts /\ mentions[k] = ids[PositionOf(firsts, k)]
      OBVIOUS
    <3>1. PositionOf(firsts, k) \in firsts
      BY <1>2, AtPositionsKeepsOrder
    <3>2. AtPositions(ids, firsts)[k] = ids[PositionOf(firsts, k)]
      BY <1>2, AtPositionsKeepsOrder
    <3>. QED
      BY <3>1, <3>2
  <2>2. \A j, k \in 1..Cardinality(firsts) :
          j < k <=> PositionOf(firsts, j) < PositionOf(firsts, k)
    BY <1>2, AtPositionsKeepsOrder
  <2>. QED
    BY <2>1, <2>2
<1>7. Cardinality(firsts) \in Nat
  BY <1>2, AtPositionsKeepsOrder
<1> HIDE DEF mentions
<1>8. ASSUME NEW j \in 1..Cardinality(firsts), NEW k \in 1..Cardinality(firsts), j < k
      PROVE  mentions[j] # mentions[k]
  BY <1>2, <1>3, <1>6, <1>8
<1>9. ASSUME NEW j \in DOMAIN mentions, NEW k \in DOMAIN mentions, mentions[j] = mentions[k]
      PROVE  j = k
  <2>1. ~(j < k) /\ ~(k < j)
    BY <1>5, <1>8, <1>9
  <2>. QED
    BY <1>5, <1>7, <2>1
<1>10. IsInjective(mentions)
  BY <1>9 DEF IsInjective
<1>11. mentions \in Seq(ToSet(ids))
  BY <1>4, <1>5, SeqMonotonic
<1>. QED
  BY <1>1, <1>10, <1>11

\* A part of a list without repetitions has none.
LEMMA PartInjective ==
    ASSUME NEW T, NEW seq \in Seq(T), IsInjective(seq), NEW S, S \subseteq DOMAIN seq
    PROVE  IsInjective(AtPositions(seq, S))
<1> DEFINE n == Cardinality(S)
           part == AtPositions(seq, S)
<1>1. part \in Seq({seq[p] : p \in S}) /\ DOMAIN part = 1..n /\ n \in Nat
  BY AtPositionsKeepsOrder
<1>2. /\ \A k \in 1..n : part[k] = seq[PositionOf(S, k)]
      /\ \A k \in 1..n : PositionOf(S, k) \in DOMAIN seq /\ PositionOf(S, k) \in Nat
      /\ \A j, k \in 1..n : j < k <=> PositionOf(S, j) < PositionOf(S, k)
  <2>1. \A k \in 1..n : part[k] = seq[PositionOf(S, k)]
    BY AtPositionsKeepsOrder
  <2>2. \A k \in 1..n : PositionOf(S, k) \in S
    BY AtPositionsKeepsOrder
  <2>3. \A j, k \in 1..n : j < k <=> PositionOf(S, j) < PositionOf(S, k)
    BY AtPositionsKeepsOrder
  <2>4. DOMAIN seq = 1..Len(seq)
    BY LenProperties
  <2> HIDE DEF n, part
  <2>. QED
    BY <2>1, <2>2, <2>3, <2>4
<1> HIDE DEF part, n
<1>3. ASSUME NEW j \in 1..n, NEW k \in 1..n, part[j] = part[k] PROVE j = k
  <2>1. PositionOf(S, j) = PositionOf(S, k)
    BY <1>2, <1>3 DEF IsInjective
  <2>2. ~(j < k) /\ ~(k < j)
    BY <1>2, <2>1
  <2>. QED
    BY <1>1, <2>2
<1>. QED
  BY <1>1, <1>3 DEF IsInjective, part

\* The elements at some positions of a list are those that stand there.
LEMMA AtPositionsOf ==
    ASSUME NEW T, NEW seq \in Seq(T), NEW S, S \subseteq DOMAIN seq
    PROVE  /\ AtPositions(seq, S) \in Seq(T)
           /\ ToSet(AtPositions(seq, S)) = {seq[p] : p \in S}
<1> DEFINE n == Cardinality(S)
           part == AtPositions(seq, S)
<1>1. part \in Seq({seq[p] : p \in S}) /\ DOMAIN part = 1..n
  BY AtPositionsKeepsOrder
<1>2. {seq[p] : p \in S} \subseteq T
  OBVIOUS
<1>3. /\ \A k \in 1..n : part[k] = seq[PositionOf(S, k)] /\ PositionOf(S, k) \in S
      /\ \A p \in S : \E k \in 1..n : PositionOf(S, k) = p
  <2>1. \A k \in 1..n : part[k] = seq[PositionOf(S, k)]
    BY AtPositionsKeepsOrder
  <2>2. \A k \in 1..n : PositionOf(S, k) \in S
    BY AtPositionsKeepsOrder
  <2>3. \A p \in S : \E k \in 1..n : PositionOf(S, k) = p
    BY AtPositionsKeepsOrder
  <2>. QED
    BY <2>1, <2>2, <2>3
<1> HIDE DEF part, n
<1>4. ToSet(part) = {seq[p] : p \in S}
  <2>1. ToSet(part) = {part[k] : k \in 1..n}
    BY <1>1 DEF ToSet
  <2>2. \A k \in 1..n : part[k] \in {seq[p] : p \in S}
    BY <1>3
  <2>3. ASSUME NEW p \in S PROVE seq[p] \in {part[k] : k \in 1..n}
    <3>1. PICK k \in 1..n : PositionOf(S, k) = p
      BY <1>3
    <3>. QED
      BY <1>3, <3>1
  <2>. QED
    BY <2>1, <2>2, <2>3
<1>5. part \in Seq(T)
  BY <1>1, <1>2, SeqMonotonic
<1>. QED
  BY <1>4, <1>5 DEF part

\* Every id of a list is mentioned a first time: at the least of its positions.
LEMMA FirstMentionsAll ==
    ASSUME NEW T, NEW ids \in Seq(T)
    PROVE  ToSet(FirstMentions(ids)) = ToSet(ids)
<1> DEFINE firsts == {p \in DOMAIN ids : \A q \in 1..(p - 1) : ids[q] # ids[p]}
<1>1. DOMAIN ids = 1..Len(ids) /\ Len(ids) \in Nat
  OBVIOUS
<1>2. ToSet(FirstMentions(ids)) = {ids[p] : p \in firsts}
  BY AtPositionsOf DEF FirstMentions
<1>3. ASSUME NEW p \in DOMAIN ids PROVE \E q \in firsts : ids[q] = ids[p]
  <2> DEFINE S == {q \in DOMAIN ids : ids[q] = ids[p]}
  <2>1. S \subseteq 1..Len(ids) /\ S # {}
    BY <1>1
  <2>2. Min(S) \in S /\ \A q \in S : Min(S) <= q
    BY <1>1, <2>1, MinOfPositions
  <2>3. ASSUME NEW q \in 1..(Min(S) - 1) PROVE ids[q] # ids[Min(S)]
    <3>1. q \in DOMAIN ids /\ q < Min(S)
      BY <1>1, <2>2
    <3>2. Min(S) \in Nat /\ ~(Min(S) <= q)
      BY <1>1, <2>2, <3>1
    <3>3. q \notin S
      BY <2>2, <3>2
    <3>. QED
      BY <2>2, <3>1, <3>3
  <2>. QED
    BY <2>2, <2>3
<1>4. firsts \subseteq DOMAIN ids
  OBVIOUS
<1> HIDE DEF firsts
<1>5. {ids[p] : p \in firsts} = {ids[p] : p \in DOMAIN ids}
  BY <1>3, <1>4
<1>. QED
  BY <1>2, <1>5 DEF ToSet

\* What is left of a list without its last element.
LEMMA FrontOf ==
    ASSUME NEW T, NEW seq \in Seq(T), seq # <<>>
    PROVE  /\ Front(seq) \in Seq(T) /\ Len(Front(seq)) = Len(seq) - 1
           /\ \A i \in 1..(Len(seq) - 1) : Front(seq)[i] = seq[i]
           /\ Len(seq) \in Nat \ {0} /\ Last(seq) = seq[Len(seq)] /\ Last(seq) \in T
<1>1. Len(seq) \in Nat \ {0}
  BY EmptySeq
<1>2. \A i \in 1..(Len(seq) - 1) : seq[i] \in T
  BY <1>1, ElementOfSeq
<1>3. /\ SubSeq(seq, 1, Len(seq) - 1) \in Seq(T)
      /\ Len(SubSeq(seq, 1, Len(seq) - 1)) = Len(seq) - 1
      /\ \A i \in 1..(Len(seq) - 1) : SubSeq(seq, 1, Len(seq) - 1)[i] = seq[i]
  <2> DEFINE n == Len(seq) - 1
  <2>1. n \in Nat /\ 1 \in Int /\ n \in Int /\ \A i \in 1..n : seq[i] \in T
    BY <1>1, <1>2
  <2> HIDE DEF n
  <2>2. /\ SubSeq(seq, 1, n) \in Seq(T)
        /\ Len(SubSeq(seq, 1, n)) = IF 1 <= n THEN n - 1 + 1 ELSE 0
        /\ \A i \in 1..(n - 1 + 1) : SubSeq(seq, 1, n)[i] = seq[1 + i - 1]
    BY <2>1, SubSeqProperties
  <2>3. Len(SubSeq(seq, 1, n)) = n /\ \A i \in 1..n : SubSeq(seq, 1, n)[i] = seq[i]
    BY <2>1, <2>2
  <2>. QED
    BY <2>2, <2>3 DEF n
<1>4. seq[Len(seq)] \in T
  BY <1>1, ElementOfSeq
<1>. QED
  BY <1>1, <1>3, <1>4 DEF Front, Last

\* A list of a set holds all of it.
LEMMA SeqsOfSet ==
    ASSUME NEW S, IsFiniteSet(S), NEW s \in SetToSeqs(S)
    PROVE  s \in Seq(S) /\ ToSet(s) = S
<1> DEFINE D == 1..Cardinality(S)
<1>1. s \in [D -> S] /\ \A i, j \in D : i # j => s[i] # s[j]
  BY DEF SetToSeqs
<1>2. Cardinality(S) \in Nat
  BY FS_CardinalityType
<1>3. IsFiniteSet(D) /\ Cardinality(D) = Cardinality(S)
  BY <1>2, FS_Interval
<1>4. s \in Injection(D, S)
  BY <1>1 DEF Injection, IsInjective
<1>5. s \in Surjection(D, S)
  BY <1>3, <1>4, FS_Injection
<1>6. s \in Seq(S)
  BY <1>1, <1>2
<1>. QED
  BY <1>1, <1>5, <1>6 DEF Surjection, ToSet

\* What is in a list is in one of the two it is made of.
LEMMA ConcatOf ==
    ASSUME NEW T, NEW s \in Seq(T), NEW t \in Seq(T)
    PROVE  s \o t \in Seq(T) /\ ToSet(s \o t) = ToSet(s) \cup ToSet(t)
<1>1. /\ s \o t \in Seq(T) /\ Len(s \o t) = Len(s) + Len(t)
      /\ \A i \in 1..(Len(s) + Len(t)) :
           (s \o t)[i] = IF i <= Len(s) THEN s[i] ELSE t[i - Len(s)]
  BY ConcatProperties
<1>2. /\ Len(s) \in Nat /\ Len(t) \in Nat /\ DOMAIN s = 1..Len(s) /\ DOMAIN t = 1..Len(t)
      /\ DOMAIN (s \o t) = 1..(Len(s) + Len(t))
  BY <1>1, LenProperties
<1> DEFINE u == s \o t
<1>3. u = s \o t
  OBVIOUS
<1> HIDE DEF u
<1>4. ASSUME NEW i \in DOMAIN u PROVE u[i] \in ToSet(s) \cup ToSet(t)
  <2>1. CASE i <= Len(s)
    BY <1>1, <1>2, <1>3, <2>1 DEF ToSet
  <2>2. CASE ~(i <= Len(s))
    <3>1. i - Len(s) \in DOMAIN t /\ u[i] = t[i - Len(s)]
      BY <1>1, <1>2, <1>3, <2>2
    <3>. QED
      BY <3>1 DEF ToSet
  <2>. QED
    BY <2>1, <2>2
<1>5. ASSUME NEW i \in DOMAIN s PROVE s[i] \in ToSet(u)
  <2>1. i \in DOMAIN u /\ u[i] = s[i]
    BY <1>1, <1>2, <1>3
  <2>. QED
    BY <2>1 DEF ToSet
<1>6. ASSUME NEW i \in DOMAIN t PROVE t[i] \in ToSet(u)
  <2>1. Len(s) + i \in DOMAIN u /\ u[Len(s) + i] = t[i]
    BY <1>1, <1>2, <1>3
  <2>. QED
    BY <2>1 DEF ToSet
<1>7. ToSet(u) = ToSet(s) \cup ToSet(t)
  BY <1>4, <1>5, <1>6 DEF ToSet
<1>. QED
  BY <1>1, <1>3, <1>7
=============================================================================
