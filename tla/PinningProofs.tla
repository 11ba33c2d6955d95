--------------------------- MODULE PinningProofs ---------------------------
(***************************************************************************)
(* What holds of every pin and every environment, for all versions, all    *)
(* requirements and all indexes, however they move on: that the pin is the *)
(* best there is, that a hook runs in an environment of its own, and that  *)
(* what was synced runs offline.                                           *)
(***************************************************************************)
EXTENDS Pinning, ConfigProofs

-----------------------------------------------------------------------------
(* Selecting a version. *)

\* A finite set of numbers that is not empty has a greatest one.
LEMMA GreatestNumber ==
    ASSUME NEW S, S \subseteq Nat, IsFiniteSet(S), S # {}
    PROVE  \E m \in S : \A x \in S : x <= m
<1> DEFINE n == Cardinality(S)
           s == InOrder(S, Ascending(S))
<1>1. n \in Nat /\ n # 0
  BY FS_CardinalityType, FS_EmptySet
<1>2. /\ s \in [1..n -> S]
      /\ \A x \in S : \E k \in 1..n : s[k] = x
      /\ \A j, k \in 1..n : j < k <=> <<s[j], s[k]>> \in Ascending(S)
  BY InOrderSorts, AscendingIsOrder
<1> HIDE DEF n, s
<1>3. ASSUME NEW x \in S PROVE x <= s[n]
  <2>1. PICK k \in 1..n : s[k] = x
    BY <1>2
  <2>2. n \in 1..n /\ s[n] \in S
    BY <1>1, <1>2
  <2>3. CASE k = n
    BY <2>1, <2>2, <2>3
  <2>4. CASE k < n
    <3>1. <<s[k], s[n]>> \in Ascending(S)
      BY <1>2, <2>2, <2>4
    <3>. QED
      <4>1. s[k] < s[n]
        BY <3>1 DEF Ascending
      <4>2. x \in Nat /\ s[n] \in Nat
        BY <2>2
      <4>. QED
        BY <2>1, <4>1, <4>2
  <2>. QED
    BY <1>1, <2>3, <2>4
<1>4. s[n] \in S
  BY <1>1, <1>2
<1>. QED
  BY <1>3, <1>4

\* The first of some positions in a list.
LEMMA FirstOfPositions ==
    ASSUME NEW n \in Nat, NEW S, S \subseteq 1..n, S # {}
    PROVE  \E m \in S : \A x \in S : m <= x
<1>1. S \subseteq Nat
  OBVIOUS
<1>2. PICK m \in S : \A x \in S : ~(<<x, m>> \in OpToRel(<, Nat))
  BY <1>1, NatLessThanWellFounded, WFMin
<1>3. ASSUME NEW x \in S PROVE m <= x
  <2>1. ~(x < m)
    BY <1>1, <1>2 DEF OpToRel
  <2>. QED
    BY <1>1, <2>1
<1>. QED
  BY <1>3

\* The fields of a version.
LEMMA VersionFacts ==
    ASSUME NEW v \in DOMAIN Versions
    PROVE  /\ v # None /\ Rank(v) \in Nat /\ Versions[v].public \in Nat
           /\ Versions[v].pre \in BOOLEAN
  BY VersionsAssumption, NoneAssumption DEF Rank

(***************************************************************************)
(* A release is enumerated once, under its first spelling; any file of a   *)
(* release has one that is enumerated.                                     *)
(***************************************************************************)
LEMMA Enumerated ==
    ASSUME NEW files \in Seq(Files)
    PROVE  /\ EnumerateVersions(files) \subseteq DOMAIN Versions
           /\ IsFiniteSet(EnumerateVersions(files))
           /\ \A v \in EnumerateVersions(files) : \E f \in ToSet(files) : f.version = v
           /\ \A f \in ToSet(files) : f.version # None =>
                \E v \in EnumerateVersions(files) : Rank(v) = Rank(f.version)
<1> DEFINE n == Len(files)
           dists == {p \in DOMAIN files : files[p].version # None}
           firsts == {q \in dists : \A o \in dists :
                        o < q => Rank(files[o].version) # Rank(files[q].version)}
<1>1. n \in Nat /\ DOMAIN files = 1..n /\ \A p \in 1..n : files[p] \in Files
  BY ElementOfSeq, LenProperties
<1>2. EnumerateVersions(files) = {files[p].version : p \in firsts}
  BY DEF EnumerateVersions
<1>3. \A p \in dists : files[p].version \in DOMAIN Versions
  BY <1>1 DEF Files, Optional
<1>4. firsts \subseteq dists /\ dists \subseteq 1..n
  BY <1>1
<1>5. \A v \in EnumerateVersions(files) : v \in DOMAIN Versions /\ \E f \in ToSet(files) : f.version = v
  BY <1>1, <1>2, <1>3, <1>4 DEF ToSet
<1>6. IsFiniteSet(EnumerateVersions(files))
  <2>1. IsFiniteSet(1..n)
    BY <1>1, FS_Interval
  <2>2. IsFiniteSet(firsts)
    BY <1>4, <2>1, FS_Subset
  <2>3. IsFiniteSet({files[p].version : p \in firsts})
    <3> DEFINE f == [p \in firsts |-> files[p].version]
    <3>1. f \in Surjection(firsts, {files[p].version : p \in firsts})
      BY DEF Surjection
    <3>. QED
      BY <2>2, <3>1, FS_Surjection
  <2>. QED
    BY <1>2, <2>3
<1>7. ASSUME NEW f \in ToSet(files), f.version # None
      PROVE  \E v \in EnumerateVersions(files) : Rank(v) = Rank(f.version)
  <2>1. PICK p \in dists : files[p] = f
    BY <1>7 DEF ToSet
  <2> DEFINE same == {q \in dists : Rank(files[q].version) = Rank(f.version)}
  <2>2. same \subseteq 1..n /\ same # {}
    BY <1>4, <2>1
  <2> HIDE DEF same
  <2>3. PICK q \in same : \A x \in same : q <= x
    BY <1>1, <2>2, FirstOfPositions
  <2>4. q \in dists /\ q \in 1..n /\ Rank(files[q].version) = Rank(f.version)
    BY <2>2, <2>3 DEF same
  <2>5. ASSUME NEW o \in dists, o < q PROVE Rank(files[o].version) # Rank(files[q].version)
    <3>1. o \notin same
      BY <1>1, <1>4, <2>3, <2>4, <2>5
    <3>. QED
      BY <2>4, <3>1 DEF same
  <2>6. q \in firsts
    BY <2>4, <2>5
  <2>. QED
    BY <1>2, <2>4, <2>6
<1>. QED
  BY <1>5, <1>6, <1>7

\* Of two spellings of a release, a requirement without === is satisfied by both or by none.
LEMMA SpellingsMatch ==
    ASSUME NEW v \in DOMAIN Versions, NEW w \in DOMAIN Versions, Rank(v) = Rank(w),
           NEW clauses, v = w \/ \A c \in clauses : c.op # "===",
           Satisfies(v, clauses), clauses \subseteq Clauses
    PROVE  Satisfies(w, clauses)
<1>1. CASE v = w
  BY <1>1
<1>2. CASE \A c \in clauses : c.op # "==="
  <2>1. Versions[v] = Versions[w]
    BY VersionsAssumption DEF Rank
  <2>2. ASSUME NEW c \in clauses PROVE Matches(c, v) = Matches(c, w)
    <3>1. Equals(v, c.version) = Equals(w, c.version)
      BY <2>1 DEF Equals, Rank
    <3>2. c.op \in {"==", "!=", "==.*", ">="}
      BY <1>2 DEF Clauses
    <3>. QED
      BY <2>1, <3>1, <3>2 DEF Matches
  <2>. QED
    BY <2>2 DEF Satisfies
<1>. QED
  BY <1>1, <1>2

(***************************************************************************)
(* What Filter keeps are versions that satisfy the clauses: all that are   *)
(* final, and the pre-releases too when a clause asks for them.            *)
(***************************************************************************)
LEMMA FilterFacts ==
    ASSUME NEW clauses, NEW vs, vs \subseteq DOMAIN Versions
    PROVE  /\ Filter(clauses, vs) \subseteq vs
           /\ \A v \in Filter(clauses, vs) : Satisfies(v, clauses)
           /\ \A v \in vs : Satisfies(v, clauses) /\ (Versions[v].pre => AsksForPre(clauses))
                => v \in Filter(clauses, vs)
<1> DEFINE matching == {v \in vs : Satisfies(v, clauses)}
           stable == {v \in matching : ~Versions[v].pre}
<1>1. Filter(clauses, vs) = matching \/ (~AsksForPre(clauses) /\ Filter(clauses, vs) = stable)
  BY DEF Filter
<1>2. AsksForPre(clauses) => Filter(clauses, vs) = matching
  BY DEF Filter
<1>. QED
  BY <1>1, <1>2, VersionsAssumption

\* The candidates among which SelectVersion takes the highest.
Selectable(clauses, files) ==
    LET matched == Filter(clauses, EnumerateVersions(files))
        live == {v \in matched : ~VersionYanked(v, files)}
    IN  IF live # {} THEN live ELSE IF IsExactPin(clauses) THEN matched ELSE {}

LEMMA SelectedIsHighest ==
    ASSUME NEW files \in Seq(Files), NEW clauses
    PROVE  /\ Selectable(clauses, files) = {} => SelectVersion(clauses, files) = None
           /\ Selectable(clauses, files) # {} =>
                /\ SelectVersion(clauses, files) \in Selectable(clauses, files)
                /\ \A w \in Selectable(clauses, files) :
                     Rank(w) <= Rank(SelectVersion(clauses, files))
           /\ Selectable(clauses, files) \subseteq DOMAIN Versions
           /\ SelectVersion(clauses, files) # None => Selectable(clauses, files) # {}
<1> DEFINE selectable == Selectable(clauses, files)
           best(v) == \A w \in selectable : Rank(w) <= Rank(v)
<1>1. SelectVersion(clauses, files) =
        IF selectable = {} THEN None ELSE CHOOSE v \in selectable : best(v)
  BY DEF SelectVersion, Selectable
<1>2. selectable \subseteq EnumerateVersions(files) /\ EnumerateVersions(files) \subseteq DOMAIN Versions
      /\ IsFiniteSet(EnumerateVersions(files))
  <2>1. EnumerateVersions(files) \subseteq DOMAIN Versions /\ IsFiniteSet(EnumerateVersions(files))
    BY Enumerated
  <2>2. Filter(clauses, EnumerateVersions(files)) \subseteq EnumerateVersions(files)
    BY <2>1, FilterFacts
  <2>. QED
    BY <2>1, <2>2 DEF Selectable
<1>3. IsFiniteSet(selectable)
  BY <1>2, FS_Subset
<1> HIDE DEF selectable
<1>4. ASSUME selectable # {} PROVE \E v \in selectable : best(v)
  <2> DEFINE ranks == {Rank(v) : v \in selectable}
             f == [v \in selectable |-> Rank(v)]
  <2>1. ranks \subseteq Nat /\ ranks # {}
    BY <1>2, <1>4, VersionFacts
  <2>2. f \in Surjection(selectable, ranks)
    BY DEF Surjection
  <2>3. IsFiniteSet(ranks)
    BY <1>3, <2>2, FS_Surjection
  <2> HIDE DEF ranks, f
  <2>4. PICK m \in ranks : \A x \in ranks : x <= m
    BY <2>1, <2>3, GreatestNumber
  <2>. QED
    BY <2>4 DEF ranks
<1>. QED
  BY <1>1, <1>2, <1>4 DEF selectable

-----------------------------------------------------------------------------
(* Pins. *)

\* What an index answers with files is what it lists.
LEMMA FetchFacts ==
    ASSUME NEW page \in Pages
    PROVE  /\ Fetch(page).files \in Seq(Files)
           /\ Fetch(page).error \in {None, "malformed", "not found", "network", "cut"}
<1>1. /\ page.files \in Seq(Files) /\ <<>> \in Seq(Files)
      /\ page.status \in {"ok", "not found", "network", "cut"}
  BY EmptySeq DEF Pages
<1>. QED
  BY <1>1 DEF Fetch, ParseHtml, ParseJson, Listing, NoListing

\* The world is as the assumptions have it, and its index never names other projects.
WorldInv ==
    /\ world \in Worlds /\ now \in 1..Len(world.history)
    /\ left \in 0..world.commands

LEMMA WorldFacts ==
    ASSUME WorldInv
    PROVE  /\ world.hooks \in Seq(Hooks) /\ world.hooks # <<>>
           /\ world.commands \in Nat /\ Len(world.history) \in Nat
           /\ DOMAIN Index = Urls(world)
           /\ \A url \in Urls(world) : Index[url] \in Pages
  BY WorldsAssumption DEF WorldInv, Index

(***************************************************************************)
(* A pin made of a requirement: it has the normalized name, satisfies the  *)
(* requirement, and comes from the index of the source; if it was made     *)
(* offline, it is the one exact version, and if not, one the index listed. *)
(***************************************************************************)
PinFits(p, from) ==
    LET r == from.requirement IN
    /\ p = Pinned(r.canonical, p.version, IndexUrl(from, Sources))
    /\ p.version \in DOMAIN Versions
    /\ p.url # None /\ p.url \in Urls(world)
    /\ Satisfies(p.version, r.clauses)
    /\ ~Unsupported(r)
    /\ IF command.offline THEN p.version = ExactVersion(r.clauses)
       ELSE \E i \in DOMAIN world.history : \E f \in ToSet(world.history[i][p.url].files) :
                f.version = p.version

\* What SelectVersion returns of a listing.
LEMMA SelectedFacts ==
    ASSUME NEW files \in Seq(Files), NEW clauses, NEW v, v = SelectVersion(clauses, files), v # None
    PROVE  /\ v \in DOMAIN Versions /\ Satisfies(v, clauses)
           /\ v \in Selectable(clauses, files)
           /\ v \in Filter(clauses, EnumerateVersions(files)) /\ v \in EnumerateVersions(files)
<1>1. v \in Selectable(clauses, files) /\ v \in DOMAIN Versions
  BY SelectedIsHighest
<1>2. v \in Filter(clauses, EnumerateVersions(files))
  BY <1>1 DEF Selectable
<1>. QED
  BY <1>1, <1>2, Enumerated, FilterFacts

\* The one version of a requirement with a single == clause.
LEMMA ExactFacts ==
    ASSUME NEW clauses \in SUBSET Clauses, ExactVersion(clauses) # None
    PROVE  /\ ExactVersion(clauses) \in DOMAIN Versions
           /\ \E c \in clauses : clauses = {c} /\ c.op = "==" /\ c.version = ExactVersion(clauses)
           /\ Satisfies(ExactVersion(clauses), clauses)
<1>1. PICK c \in clauses : clauses = {c} /\ c.op = "=="
  BY DEF ExactVersion
<1>2. (CHOOSE x \in clauses : TRUE) = c
  BY <1>1
<1>3. ExactVersion(clauses) = c.version /\ c.version \in DOMAIN Versions
  BY <1>1, <1>2 DEF ExactVersion, Clauses
<1>4. Equals(c.version, c.version)
  BY DEF Equals
<1>5. Satisfies(c.version, clauses)
  BY <1>1, <1>4 DEF Satisfies, Matches
<1>. QED
  BY <1>1, <1>3, <1>5

LEMMA PinOfFits ==
    ASSUME WorldInv, NEW from, from.requirement \in Requirements, PinOf(from).error = None
    PROVE  PinFits(PinOf(from), from)
<1> DEFINE r == from.requirement
           url == IndexUrl(from, Sources)
           p == PinOf(from)
           offline == OfflinePin(r, url)
           online == OnlinePin(r, url)
<1>1. r.clauses \in SUBSET Clauses
  BY DEF Requirements
<1>2. \A why \in Reasons : Failed(why).error # None
  BY NoneAssumption DEF Failed
<1> HIDE DEF offline, online
<1>3. /\ url # None /\ url \in DOMAIN Index /\ ~Unsupported(r)
      /\ p = IF command.offline THEN offline ELSE online
  BY <1>2 DEF PinOf, Reasons, offline, online
<1>4. CASE command.offline
  <2>1. p = offline
    BY <1>3, <1>4
  <2>2. ExactVersion(r.clauses) # None /\ p = Pinned(r.canonical, ExactVersion(r.clauses), url)
    BY <1>2, <2>1 DEF OfflinePin, Reasons, offline
  <2>3. p.version = ExactVersion(r.clauses) /\ p.url = url
    BY <2>2 DEF Pinned
  <2> HIDE DEF p, url
  <2>. QED
    BY <1>1, <1>3, <1>4, <2>2, <2>3, ExactFacts, WorldFacts DEF PinFits, p, url
<1>5. CASE ~command.offline
  <2>1. p = online
    BY <1>3, <1>5
  <2> DEFINE answer == Answer(url)
             v == SelectVersion(r.clauses, answer.files)
  <2>2. answer.files \in Seq(Files) /\ answer.error \in Reasons \cup {None}
    <3>1. Index[url] \in Pages
      BY <1>3, WorldFacts
    <3>2. answer = Fetch(Index[url])
      BY DEF Answer
    <3>. QED
      BY <3>1, <3>2, FetchFacts DEF Reasons
  <2>3. v # None /\ p = Pinned(r.canonical, v, url)
    <3> HIDE DEF answer
    <3>1. "no version" \in Reasons
      BY DEF Reasons
    <3>2. online = IF answer.error # None THEN Failed(answer.error)
                   ELSE IF v = None THEN Failed("no version") ELSE Pinned(r.canonical, v, url)
      BY DEF OnlinePin, online, answer
    <3>. QED
      BY <1>2, <2>1, <2>2, <3>1, <3>2
  <2>4. p.version = v /\ p.url = url
    BY <2>3 DEF Pinned
  <2>5. \E i \in DOMAIN world.history : \E f \in ToSet(world.history[i][url].files) : f.version = v
    <3>1. v \in EnumerateVersions(answer.files)
      BY <2>2, <2>3, SelectedFacts
    <3>2. PICK f \in ToSet(answer.files) : f.version = v
      BY <2>2, <3>1, Enumerated
    <3>3. answer = Fetch(Index[url])
      BY DEF Answer
    <3>4. answer.files = Index[url].files \/ answer.files = <<>>
      BY <3>3 DEF Fetch, ParseHtml, ParseJson, Listing, NoListing
    <3>5. ToSet(<<>>) = {}
      BY DEF ToSet
    <3>6. f \in ToSet(Index[url].files)
      BY <3>2, <3>4, <3>5
    <3>7. now \in DOMAIN world.history
      BY WorldsAssumption DEF WorldInv
    <3> HIDE DEF v
    <3>. QED
      BY <3>2, <3>6, <3>7 DEF Index
  <2> HIDE DEF v, answer, p
  <2>6. v \in DOMAIN Versions /\ Satisfies(v, r.clauses)
    BY <2>2, <2>3, SelectedFacts DEF v
  <2> HIDE DEF url
  <2>. QED
    BY <1>3, <1>5, <2>3, <2>4, <2>5, <2>6, WorldFacts DEF PinFits, p, url
<1>. QED
  BY <1>4, <1>5

(***************************************************************************)
(* SelectVersion returns what the documented rule selects, outside the     *)
(* cases in which it departs from it.  A release that satisfies the        *)
(* specifier was enumerated under its first spelling, which satisfies it   *)
(* as well: from Filter on, the code and the rule choose among the same    *)
(* releases, up to their spelling.                                         *)
(***************************************************************************)
THEOREM SelectionIsBest ==
    ASSUME NEW files \in Seq(Files), NEW clauses \in SUBSET Clauses, ~Departs(clauses, files)
    PROVE  LET v == SelectVersion(clauses, files)
               choice == Documented(clauses, files)
           IN  IF v = None THEN choice = {}
               ELSE v \in choice /\ \A w \in choice : Rank(w) <= Rank(v)
<1> DEFINE all == Satisfying(clauses, files)
           matching == {u \in EnumerateVersions(files) : Satisfies(u, clauses)}
           matched == Filter(clauses, EnumerateVersions(files))
           eligible == Eligible(clauses, files)
           unyanked == {u \in matched : ~VersionYanked(u, files)}
           live == Live(eligible, files)
           choice == Documented(clauses, files)
           candidates == Selectable(clauses, files)
<1>1. \A f \in ToSet(files) : f \in Files
  BY ElementOfSeq DEF ToSet
<1>2. all \subseteq DOMAIN Versions /\ matching \subseteq all
  <2>1. all \subseteq DOMAIN Versions
    BY <1>1 DEF Satisfying, Files, Optional
  <2>2. ASSUME NEW u \in matching PROVE u \in all
    <3>1. PICK f \in ToSet(files) : f.version = u
      BY Enumerated
    <3>2. u # None
      BY Enumerated, VersionFacts
    <3>. QED
      BY <3>1, <3>2 DEF Satisfying
  <2>. QED
    BY <2>1, <2>2
<1>3. ASSUME NEW w \in all
      PROVE  \E u \in matching : Rank(u) = Rank(w) /\ Versions[u] = Versions[w]
  <2>1. PICK f \in ToSet(files) : f.version = w /\ w # None /\ Satisfies(w, clauses)
    BY DEF Satisfying
  <2>2. PICK u \in EnumerateVersions(files) : Rank(u) = Rank(w)
    BY <2>1, Enumerated
  <2>3. PICK g \in ToSet(files) : g.version = u
    BY <2>2, Enumerated
  <2>4. u \in DOMAIN Versions /\ w \in DOMAIN Versions /\ u # None
    BY <1>2, <2>2, Enumerated, VersionFacts
  <2>5. u = w \/ \A c \in clauses : c.op # "==="
    BY <2>1, <2>2, <2>3, <2>4 DEF Departs, SpeltInTwoWays
  <2>6. Satisfies(u, clauses)
    BY <2>1, <2>2, <2>4, <2>5, SpellingsMatch
  <2>. QED
    BY <2>2, <2>4, <2>6, VersionsAssumption DEF Rank
<1>4. \A u, w \in DOMAIN Versions : Rank(u) = Rank(w) => FilesOf(u, files) = FilesOf(w, files)
  BY DEF FilesOf
<1>5. matched = IF AsksForPre(clauses) \/ Finals(all) = {} THEN matching ELSE Finals(matching)
  <2> HIDE DEF all
  <2>1. Finals(all) = {} <=> Finals(matching) = {}
    BY <1>2, <1>3 DEF Finals
  <2>2. matched = IF AsksForPre(clauses) THEN matching
                  ELSE IF Finals(matching) = {} /\ (clauses = {} \/ world.fallsBack) THEN matching
                  ELSE Finals(matching)
    BY DEF Filter, Finals
  <2>3. CASE ~AsksForPre(clauses) /\ Finals(all) = {} /\ ~(clauses = {} \/ world.fallsBack)
    <3>1. all = {}
      BY <2>3 DEF Departs, PreReleasesRefused, all
    <3>2. matching = {}
      BY <1>2, <3>1
    <3> HIDE DEF matching, matched
    <3>. QED
      BY <2>1, <2>2, <2>3, <3>2
  <2> HIDE DEF matching, matched
  <2>. QED
    BY <2>1, <2>2, <2>3
<1>6. eligible = IF AsksForPre(clauses) \/ Finals(all) = {} THEN all ELSE Finals(all)
  BY DEF Eligible
<1>7. /\ matched \subseteq eligible /\ eligible \subseteq DOMAIN Versions
      /\ \A w \in eligible : \E u \in matched : Rank(u) = Rank(w)
  <2> HIDE DEF all, matching, matched, eligible
  <2>. QED
    BY <1>2, <1>3, <1>5, <1>6 DEF Finals
<1>8. /\ unyanked \subseteq live
      /\ \A w \in live : \E u \in unyanked : Rank(u) = Rank(w)
  <2> HIDE DEF matched, eligible
  <2>1. \A u \in DOMAIN Versions : ~VersionYanked(u, files) <=> \E f \in FilesOf(u, files) : ~f.yanked
    BY DEF VersionYanked
  <2>2. unyanked \subseteq live
    BY <1>7, <2>1 DEF Live
  <2>3. ASSUME NEW w \in live PROVE \E u \in unyanked : Rank(u) = Rank(w)
    <3>1. w \in eligible /\ \E f \in FilesOf(w, files) : ~f.yanked
      BY DEF Live
    <3>2. PICK u \in matched : Rank(u) = Rank(w)
      BY <1>7, <3>1
    <3>3. FilesOf(u, files) = FilesOf(w, files) /\ u \in DOMAIN Versions
      BY <1>4, <1>7, <3>1, <3>2
    <3>. QED
      BY <2>1, <3>1, <3>2, <3>3
  <2>. QED
    BY <2>2, <2>3
<1>9. candidates = IF unyanked # {} THEN unyanked ELSE IF IsExactPin(clauses) THEN matched ELSE {}
  BY DEF Selectable
<1>10. choice = IF live # {} THEN live ELSE IF NamesExactly(clauses) THEN eligible ELSE {}
  BY DEF Documented
<1>11. IsExactPin(clauses) <=> NamesExactly(clauses) \/ \E c \in clauses : c.op = "==.*"
  BY DEF IsExactPin, NamesExactly
<1>12. live = {} /\ IsExactPin(clauses) /\ ~NamesExactly(clauses) => eligible = {}
  BY <1>11 DEF Departs, PrefixTakenForPin
<1>13. candidates \subseteq choice /\ \A w \in choice : \E u \in candidates : Rank(u) = Rank(w)
  <2> HIDE DEF matched, eligible, unyanked, live, choice, candidates
  <2>1. CASE live # {}
    BY <1>8, <1>9, <1>10, <2>1
  <2>2. CASE live = {}
    <3>1. unyanked = {}
      BY <1>8, <2>2
    <3>. QED
      BY <1>7, <1>9, <1>10, <1>11, <1>12, <2>2, <3>1
  <2>. QED
    BY <2>1, <2>2
<1> DEFINE v == SelectVersion(clauses, files)
<1>14. /\ candidates = {} => v = None
       /\ candidates # {} => v \in candidates /\ \A w \in candidates : Rank(w) <= Rank(v)
       /\ v # None => candidates # {}
  BY SelectedIsHighest
<1>15. candidates # {} => v # None
  <2>1. candidates \subseteq DOMAIN Versions
    BY SelectedIsHighest
  <2>. QED
    BY <1>14, <2>1, VersionFacts
<1> HIDE DEF v, candidates, choice
<1>16. IF v = None THEN choice = {} ELSE v \in choice /\ \A w \in choice : Rank(w) <= Rank(v)
  BY <1>13, <1>14, <1>15
<1>. QED
  BY <1>16 DEF v, choice

-----------------------------------------------------------------------------
(* The invariant. *)

\* A command has hooks to deal with, in the phases of its kind, until it is idle.
CommandInv ==
    /\ todo \in Seq(DOMAIN world.hooks) /\ phase \in Phases
    /\ phase = "idle" <=> todo = <<>>
    /\ phase # "idle" => command \in Commands
    /\ phase = "explain" => command.kind \in {"sync", "why"}
    /\ phase \in {"resolve", "build", "check"} => command.kind # "why"

\* In a slot is what its key says.
CacheInv ==
    \A k \in DOMAIN cache :
        /\ k[2] \in DOMAIN Versions /\ cache[k].version \in DOMAIN Versions
        /\ Equals(cache[k].version, k[2])
        /\ cache[k].name = k[1] /\ cache[k].url = k[3]
        /\ cache[k].python = IF Len(k) = 4 THEN k[4] ELSE None

\* The last pin made.
PinInv ==
    /\ pin # None /\ pin.error = None => pin.version \in DOMAIN Versions
    /\ PinIsBest

\* An environment is built, and used, for the pin of the hook in hand.
EnvironmentInv ==
    phase \in {"build", "check"} =>
        /\ ParseSource(Hook.from) = "pypi" /\ Hook.tool # None
        /\ PinFits(pin, Hook.from)
        /\ IF phase = "check" THEN Key(pin) \in DOMAIN cache ELSE ~command.offline

\* What a sync says is there is: under the key that an offline run would look for.
Promised(p) ==
    LET hook == world.hooks[p]
        r == hook.from.requirement
        url == IndexUrl(hook.from, world.sources)
    IN  ParseSource(hook.from) = "pypi" =>
            /\ hook.tool # None
            /\ WrittenAsListed(hook, url) =>
                 /\ url # None /\ url \in Urls(world) /\ ~Unsupported(r)
                 /\ ExactVersion(r.clauses) # None
                 /\ <<r.canonical, ExactVersion(r.clauses), url>> \in DOMAIN cache

Held == {"built", "cached", "ready"}
ReportInv ==
    /\ \A r \in report : r.hook \in DOMAIN world.hooks /\ r.status \in Good \cup {"error", "raised"}
    /\ \A r \in report : command.kind = "sync" /\ r.status \in Held => Promised(r.hook)
    /\ synced \subseteq DOMAIN world.hooks
    /\ \A p \in synced : Promised(p)

PinningInv ==
    /\ WorldInv /\ CommandInv /\ CacheInv /\ PinInv
    /\ EnvironmentInv /\ ReportInv /\ SyncedRunsOffline

-----------------------------------------------------------------------------
(* Initial states, and what the steps have in common. *)

LEMMA PinningInit == Init => PinningInv
<1> SUFFICES ASSUME Init PROVE PinningInv
  OBVIOUS
<1> USE DEF Init
<1>1. WorldInv
  BY WorldsAssumption DEF WorldInv
<1>2. CommandInv
  BY EmptySeq DEF CommandInv, Phases
<1>3. CacheInv /\ PinInv /\ EnvironmentInv /\ ReportInv /\ SyncedRunsOffline
  BY DEF CacheInv, PinInv, PinIsBest, EnvironmentInv, ReportInv, SyncedRunsOffline
<1>. QED
  BY <1>1, <1>2, <1>3 DEF PinningInv

\* The hook in hand, while there is one.
LEMMA HookFacts ==
    ASSUME PinningInv, phase # "idle"
    PROVE  /\ todo # <<>> /\ Head(todo) \in DOMAIN world.hooks /\ Hook = world.hooks[Head(todo)]
           /\ Hook \in Hooks /\ command \in Commands
           /\ Tail(todo) \in Seq(DOMAIN world.hooks) /\ Len(todo) \in Nat
           /\ Tail(todo) = <<>> <=> Len(todo) = 1
           /\ ParseSource(Hook.from) = "pypi" => Hook.from.requirement \in Requirements
<1>1. todo # <<>> /\ todo \in Seq(DOMAIN world.hooks) /\ command \in Commands
  BY DEF PinningInv, CommandInv
<1>2. world.hooks \in Seq(Hooks)
  BY WorldFacts DEF PinningInv
<1>3. Head(todo) \in DOMAIN world.hooks /\ Tail(todo) \in Seq(DOMAIN world.hooks)
      /\ Len(Tail(todo)) = Len(todo) - 1 /\ Len(todo) \in Nat
  BY <1>1, HeadTailProperties, LenProperties
<1>4. Hook \in Hooks
  BY <1>2, <1>3, ElementOfSeq, LenProperties DEF Hook
<1>5. Tail(todo) = <<>> <=> Len(todo) = 1
  <2>1. Tail(todo) = <<>> <=> Len(Tail(todo)) = 0
    BY <1>3, EmptySeq
  <2>. QED
    BY <1>3, <2>1
<1>6. ParseSource(Hook.from) = "pypi" => Hook.from.requirement # None
  BY DEF ParseSource
<1>7. Hook.from.requirement \in Requirements \cup {None}
  BY <1>4 DEF Hooks, Froms, Optional
<1>. QED
  BY <1>1, <1>3, <1>4, <1>5, <1>6, <1>7 DEF Hook

\* A pin of the hook in hand, for the steps that make one.
LEMMA MakePinFits ==
    ASSUME PinningInv, phase # "idle", ParseSource(Hook.from) = "pypi", MakePin, UNCHANGED world
    PROVE  /\ PinInv'
           /\ pin'.error = None => PinFits(pin', Hook.from)
<1> DEFINE from == Hook.from
           url == IndexUrl(from, Sources)
           answer == Answer(url)
           clauses == from.requirement.clauses
           v == SelectVersion(clauses, answer.files)
<1>1. from.requirement \in Requirements /\ clauses \in SUBSET Clauses
  BY HookFacts DEF Requirements
<1>2. pin' = PinOf(from)
  BY DEF MakePin
<1>3. pin'.error = None => PinFits(pin', from)
  BY <1>1, <1>2, PinOfFits DEF PinningInv
<1>4. pin'.error = None => pin'.version \in DOMAIN Versions
  BY <1>3 DEF PinFits
<1>5. ASSUME seen' # None PROVE PinIsBest'
  <2>1. /\ ~command.offline /\ pin'.error \in {None, "no version"}
        /\ seen' = [files |-> answer.files, clauses |-> clauses]
    BY <1>5 DEF MakePin
  <2> HIDE DEF from, url, clauses
  <2>2. pin' = OnlinePin(from.requirement, url) /\ url \in DOMAIN Index
    <3>1. \A why \in Reasons \ {"no version"} : Failed(why).error \notin {None, "no version"}
      BY NoneAssumption DEF Failed
    <3>. QED
      BY <1>2, <2>1, <3>1 DEF PinOf, Reasons, from, url
  <2>3. answer.files \in Seq(Files) /\ answer.error \in {None, "malformed", "not found", "network", "cut"}
    <3>1. Index[url] \in Pages
      BY <2>2, WorldFacts DEF PinningInv
    <3>2. answer = Fetch(Index[url])
      BY DEF Answer
    <3>. QED
      BY <3>1, <3>2, FetchFacts
  <2>4. \/ v = None /\ pin'.error = "no version"
        \/ v # None /\ pin'.error = None /\ pin'.version = v
    <3> DEFINE pinned == Pinned(from.requirement.canonical, v, url)
    <3>1. pin' = IF answer.error # None THEN Failed(answer.error)
                 ELSE IF v = None THEN Failed("no version") ELSE pinned
      BY <2>2 DEF OnlinePin, clauses
    <3>2. Failed(answer.error).error = answer.error /\ Failed("no version").error = "no version"
      BY DEF Failed
    <3>3. pinned.error = None /\ pinned.version = v
      BY DEF Pinned
    <3> HIDE DEF answer, v, pinned
    <3>4. answer.error = None
      BY <2>1, <2>3, <3>1, <3>2
    <3>. QED
      BY <3>1, <3>2, <3>3, <3>4
  <2>5. seen'.files = answer.files /\ seen'.clauses = clauses
    BY <2>1
  <2>6. "no version" # None
    BY NoneAssumption DEF Reasons
  <2> HIDE DEF v, answer
  <2>7. SUFFICES ASSUME ~Departs(clauses, answer.files) PROVE AsDocumented'
    BY <2>5 DEF PinIsBest, Departs, PreReleasesRefused
  <2> DEFINE choice == Documented(clauses, answer.files)
  <2>8. IF v = None THEN choice = {} ELSE v \in choice /\ \A w \in choice : Rank(w) <= Rank(v)
    BY <1>1, <2>3, <2>7, SelectionIsBest DEF clauses, v
  <2>9. Documented(seen'.clauses, seen'.files) = choice
    BY <2>5
  <2> HIDE DEF choice
  <2>. QED
    BY <2>4, <2>6, <2>8, <2>9 DEF AsDocumented
<1>. QED
  BY <1>3, <1>4, <1>5 DEF PinInv, PinIsBest

-----------------------------------------------------------------------------
(* What a command says of a hook. *)

\* What SyncedRunsOffline asks of a hook before it says that an offline run runs it.
Deserves(p) ==
    LET hook == world.hooks[p] IN
    /\ p \in synced /\ ParseSource(hook.from) = "pypi" /\ hook.tool # "missing"
    /\ KnownToRun(hook) /\ WrittenAsListed(hook, IndexUrl(hook.from, world.sources))

\* What may be said of the hook in hand.
MaySay(status) ==
    /\ status \in Good \cup {"error", "raised"}
    /\ command.kind = "sync" /\ status \in Held => Promised(Head(todo))
    /\ command.offline /\ Deserves(Head(todo)) => status = "ran"

\* Neither a report nor a moment of the index ends what was promised.
LEMMA PromisesKept ==
    ASSUME UNCHANGED world, DOMAIN cache \subseteq DOMAIN cache', NEW p, Promised(p)
    PROVE  Promised(p)'
  BY DEF Promised, WrittenAsListed, Urls

\* The hook in hand is reported, and maybe the ones after it are dropped.
LEMMA Reported ==
    ASSUME PinningInv, phase # "idle", NEW status, MaySay(status),
           report' = report \cup {[hook |-> Head(todo), status |-> status]},
           UNCHANGED <<world, cache, command>>,
           UNCHANGED synced \/ (command.kind = "sync" /\ synced' = {r.hook : r \in {s \in report' : s.status \in Held}})
    PROVE  ReportInv' /\ SyncedRunsOffline'
<1>1. Head(todo) \in DOMAIN world.hooks /\ command \in Commands
  BY HookFacts
<1>2. ASSUME NEW r \in report'
      PROVE  /\ r.hook \in DOMAIN world.hooks /\ r.status \in Good \cup {"error", "raised"}
             /\ command.kind = "sync" /\ r.status \in Held => Promised(r.hook)
  <2>1. CASE r \in report
    BY <2>1 DEF PinningInv, ReportInv
  <2>2. CASE r = [hook |-> Head(todo), status |-> status]
    BY <1>1, <2>2 DEF MaySay
  <2>. QED
    BY <1>2, <2>1, <2>2
<1>3. \A p : Promised(p) => Promised(p)'
  BY PromisesKept
<1>4. ReportInv'
  <2>1. \A p \in synced' : p \in DOMAIN world.hooks /\ Promised(p)
    BY <1>2 DEF PinningInv, ReportInv
  <2>. QED
    BY <1>2, <1>3, <2>1 DEF ReportInv
<1>5. SyncedRunsOffline'
  <2> SUFFICES ASSUME command.offline, NEW r \in report', Deserves(r.hook)' PROVE r.status = "ran"
    BY DEF SyncedRunsOffline, Deserves
  <2>1. command.kind # "sync"
    <3>1. KnownToRun(world.hooks[r.hook])'
      BY DEF Deserves
    <3>. QED
      BY <3>1 DEF KnownToRun
  <2>2. Deserves(r.hook)
    BY <2>1 DEF Deserves, KnownToRun, WrittenAsListed
  <2>3. CASE r \in report
    BY <1>1, <2>2, <2>3, NoneAssumption DEF PinningInv, SyncedRunsOffline, Deserves
  <2>4. CASE r = [hook |-> Head(todo), status |-> status]
    BY <2>2, <2>4 DEF MaySay
  <2>. QED
    BY <2>3, <2>4
<1>. QED
  BY <1>4, <1>5

LEMMA SettleKeeps ==
    ASSUME PinningInv, phase # "idle", NEW status, MaySay(status), Settle(status), UNCHANGED cache
    PROVE  CommandInv' /\ EnvironmentInv' /\ ReportInv' /\ SyncedRunsOffline'
<1>1. UNCHANGED <<world, now, left, command>>
  BY DEF Settle
<1>2. /\ todo' = Tail(todo) /\ phase' = IF Len(todo) = 1 THEN "idle" ELSE FirstPhase(command.kind)
      /\ report' = report \cup {[hook |-> Head(todo), status |-> status]}
  BY DEF Settle
<1>3. CommandInv' /\ EnvironmentInv'
  BY <1>1, <1>2, HookFacts DEF CommandInv, EnvironmentInv, FirstPhase, Phases, Commands, Kinds
<1>4. UNCHANGED synced
      \/ (command.kind = "sync" /\ synced' = {r.hook : r \in {s \in report' : s.status \in Held}})
  BY DEF Settle, Said, Held
<1>. QED
  BY <1>1, <1>2, <1>3, <1>4, Reported

LEMMA RaiseKeeps ==
    ASSUME PinningInv, phase # "idle", MaySay("raised"), Raise, UNCHANGED cache
    PROVE  CommandInv' /\ EnvironmentInv' /\ ReportInv' /\ SyncedRunsOffline'
<1>1. CommandInv' /\ EnvironmentInv'
  BY EmptySeq DEF Raise, CommandInv, EnvironmentInv, Phases
<1>. QED
  BY <1>1, Reported DEF Raise

-----------------------------------------------------------------------------
(* The steps. *)

LEMMA PinUntouched ==
    ASSUME PinInv, UNCHANGED <<world, pin, seen>>
    PROVE  PinInv'
  BY DEF PinInv, PinIsBest, AsDocumented, Departs, PreReleasesRefused

\* A hook without a pin to make: its tool is where it is, or an error is said.
LEMMA WithoutPinningKeeps ==
    ASSUME PinningInv, phase # "idle", UNCHANGED cache,
           NEW located, located \in {"ready", "not-applicable", "ran"}, WithoutPinning(located)
    PROVE  PinningInv'
<1>1. Dispatch \in {"source error", "env error", "located"}
  BY DEF WithoutPinning
<1>2. ASSUME ParseSource(Hook.from) = "pypi" PROVE Dispatch = "env error" /\ Hook.tool = None
  BY <1>1, <1>2 DEF Dispatch
<1>3. Hook = world.hooks[Head(todo)]
  BY DEF Hook
<1>4. Deserves(Head(todo)) => Hook.tool # None
  BY <1>3 DEF Deserves, PinningInv, ReportInv, Promised
<1>5. ~Deserves(Head(todo))
  BY <1>2, <1>3, <1>4 DEF Deserves
<1>6. Dispatch = "located" => Promised(Head(todo))
  BY <1>2, <1>3 DEF Promised
<1>7. MaySay("error") /\ MaySay("raised") /\ (Dispatch = "located" => MaySay(located))
  BY <1>5, <1>6 DEF MaySay, Held, Good
<1>8. /\ UNCHANGED <<world, now, left, command, pin, seen>>
      /\ \/ Settle("error") \/ Raise \/ (Dispatch = "located" /\ Settle(located))
  BY DEF WithoutPinning, SourceFails, EnvFails, Settle, Raise
<1>9. CommandInv' /\ EnvironmentInv' /\ ReportInv' /\ SyncedRunsOffline'
  BY <1>7, <1>8, SettleKeeps, RaiseKeeps
<1>10. WorldInv' /\ CacheInv' /\ PinInv'
  BY <1>8, PinUntouched DEF PinningInv, WorldInv, CacheInv
<1>. QED
  BY <1>9, <1>10 DEF PinningInv

\* What was promised of a hook is what an offline run pins and finds.
LEMMA PromiseFound ==
    ASSUME PinningInv, phase # "idle", command.offline, Deserves(Head(todo))
    PROVE  PinOf(Hook.from).error = None /\ Key(PinOf(Hook.from)) \in DOMAIN cache
<1> DEFINE from == Hook.from
           r == from.requirement
           url == IndexUrl(from, world.sources)
           p == Pinned(r.canonical, ExactVersion(r.clauses), url)
<1>1. Hook = world.hooks[Head(todo)]
  BY DEF Hook
<1>2. Head(todo) \in synced /\ ParseSource(from) = "pypi" /\ KnownToRun(Hook) /\ WrittenAsListed(Hook, url)
  BY <1>1 DEF Deserves
<1>3. /\ url # None /\ url \in Urls(world) /\ ~Unsupported(r)
      /\ ExactVersion(r.clauses) # None
      /\ <<r.canonical, ExactVersion(r.clauses), url>> \in DOMAIN cache
  BY <1>1, <1>2 DEF PinningInv, ReportInv, Promised
<1>4. IndexUrl(from, Sources) = url /\ Python = None
  BY <1>2 DEF KnownToRun, Sources, Python
<1>5. url \in DOMAIN Index
  BY <1>3, WorldFacts DEF PinningInv
<1>6. PinOf(from) = p
  <2> HIDE DEF url, from
  <2>. QED
    BY <1>3, <1>4, <1>5 DEF PinOf, OfflinePin
<1>7. p.error = None /\ Key(p) = <<r.canonical, ExactVersion(r.clauses), url>>
  BY <1>4 DEF Pinned, Key
<1>. QED
  BY <1>3, <1>6, <1>7

\* What a sync finds or builds for a hook is what an offline run will look for.
LEMMA PromiseMade ==
    ASSUME PinningInv, phase # "idle", command.kind = "sync", Hook.tool # None,
           NEW p, PinFits(p, Hook.from), Key(p) \in DOMAIN cache
    PROVE  Promised(Head(todo))
<1> DEFINE from == Hook.from
           r == from.requirement
           url == IndexUrl(from, world.sources)
<1>1. Hook = world.hooks[Head(todo)]
  BY DEF Hook
<1>2. SUFFICES ASSUME ParseSource(from) = "pypi", WrittenAsListed(Hook, url)
               PROVE  /\ url # None /\ url \in Urls(world) /\ ~Unsupported(r)
                      /\ ExactVersion(r.clauses) # None
                      /\ <<r.canonical, ExactVersion(r.clauses), url>> \in DOMAIN cache
  BY <1>1 DEF Promised
<1>3. Sources = world.sources /\ Python = None
  BY DEF Sources, Python
<1>4. /\ p = Pinned(r.canonical, p.version, url) /\ p.version \in DOMAIN Versions
      /\ p.url # None /\ p.url \in Urls(world) /\ Satisfies(p.version, r.clauses) /\ ~Unsupported(r)
  BY <1>3 DEF PinFits
<1>5. p.url = url /\ p.name = r.canonical
  BY <1>4 DEF Pinned
<1>6. PICK c \in r.clauses :
        /\ r.clauses = {c} /\ c.op = "=="
        /\ \A i \in DOMAIN world.history : \A f \in ToSet(world.history[i][url].files) :
              f.version # None /\ Equals(f.version, c.version) => f.version = c.version
  BY <1>2 DEF WrittenAsListed
<1>7. r.clauses \in SUBSET Clauses
  BY <1>2, HookFacts DEF Requirements
<1>8. ExactVersion(r.clauses) = c.version /\ c.version \in DOMAIN Versions
  <2>1. (CHOOSE x \in r.clauses : TRUE) = c
    BY <1>6
  <2>. QED
    BY <1>6, <1>7, <2>1 DEF ExactVersion, Clauses
<1>9. p.version = c.version
  <2>1. Equals(p.version, c.version)
    BY <1>4, <1>6 DEF Satisfies, Matches
  <2>2. CASE command.offline
    BY <1>8, <2>2 DEF PinFits
  <2>3. CASE ~command.offline
    <3>1. PICK i \in DOMAIN world.history :
            \E f \in ToSet(world.history[i][url].files) : f.version = p.version
      BY <1>5, <2>3 DEF PinFits
    <3>. QED
      BY <1>4, <1>6, <2>1, <3>1, NoneAssumption
  <2>. QED
    BY <2>2, <2>3
<1>10. Key(p) = <<r.canonical, ExactVersion(r.clauses), url>>
  BY <1>3, <1>5, <1>8, <1>9 DEF Key
<1>. QED
  BY <1>4, <1>5, <1>8, <1>10, NoneAssumption

\* What the hook in hand may be said to be, when its source is a package.
LEMMA MaySayError ==
    ASSUME PinningInv, command.offline => ~Deserves(Head(todo))
    PROVE  MaySay("error") /\ MaySay("raised")
  BY DEF MaySay, Held

\* A step that goes on with the hook in hand says nothing.
LEMMA ProceedKeeps ==
    ASSUME PinningInv, phase # "idle", command.kind # "why",
           NEW next \in {"resolve", "build", "check"}, Proceed(next),
           DOMAIN cache \subseteq DOMAIN cache'
    PROVE  WorldInv' /\ CommandInv' /\ ReportInv' /\ SyncedRunsOffline'
<1>1. UNCHANGED <<world, now, left, command, todo, report, synced>> /\ phase' = next
  BY DEF Proceed
<1>2. WorldInv' /\ CommandInv'
  BY <1>1 DEF PinningInv, WorldInv, CommandInv, Phases
<1>3. \A p : Promised(p) => Promised(p)'
  BY <1>1, PromisesKept
<1>4. ReportInv'
  BY <1>1, <1>3 DEF PinningInv, ReportInv
<1>5. SyncedRunsOffline'
  BY <1>1 DEF PinningInv, SyncedRunsOffline, KnownToRun, WrittenAsListed
<1>. QED
  BY <1>2, <1>4, <1>5

\* A step that settles the hook in hand after a pin was made of it.
LEMMA SettleAfterPin ==
    ASSUME PinningInv, phase # "idle", NEW status, MaySay(status), Settle(status),
           UNCHANGED cache, PinInv'
    PROVE  PinningInv'
<1>1. CommandInv' /\ EnvironmentInv' /\ ReportInv' /\ SyncedRunsOffline'
  BY SettleKeeps
<1>2. UNCHANGED <<world, now, left>>
  BY DEF Settle
<1>3. WorldInv' /\ CacheInv'
  BY <1>2 DEF PinningInv, WorldInv, CacheInv
<1>. QED
  BY <1>1, <1>3 DEF PinningInv

\* A pin fails in both of its ways.
LEMMA FailedAfterPin ==
    ASSUME PinningInv, phase # "idle", ~(command.offline /\ Deserves(Head(todo))), PinFails,
           UNCHANGED cache, PinInv'
    PROVE  PinningInv'
<1>1. MaySay("error") /\ MaySay("raised")
  BY MaySayError
<1>2. CASE EnvFails
  BY <1>1, <1>2, SettleAfterPin DEF EnvFails
<1>3. CASE Raise
  <2>1. CommandInv' /\ EnvironmentInv' /\ ReportInv' /\ SyncedRunsOffline'
    BY <1>1, <1>3, RaiseKeeps
  <2>2. WorldInv' /\ CacheInv'
    BY <1>3 DEF Raise, PinningInv, WorldInv, CacheInv
  <2>. QED
    BY <2>1, <2>2 DEF PinningInv
<1>. QED
  BY <1>2, <1>3 DEF PinFails

LEMMA ExplainStep == ASSUME PinningInv, Explain PROVE PinningInv'
<1>1. /\ phase = "explain" /\ UNCHANGED <<cache, world>>
      /\ command.kind \in {"sync", "why"}
  BY DEF Explain, PinningInv, CommandInv, WithoutPinning, SourceFails, EnvFails, PinFails, Settle,
     Raise, Proceed
<1>2. CASE WithoutPinning(IF command.kind = "sync" THEN "ready" ELSE "not-applicable")
  BY <1>1, <1>2, WithoutPinningKeeps
<1>3. CASE /\ Dispatch = "pypi" /\ MakePin
           /\ IF pin'.error # None THEN PinFails
              ELSE IF command.kind = "why" THEN Settle(IF Healthy(pin') THEN "hit" ELSE "miss")
              ELSE IF Healthy(pin') THEN Settle("cached") ELSE Proceed("resolve")
  <2>1. ParseSource(Hook.from) = "pypi" /\ Hook.tool # None
    BY <1>3 DEF Dispatch
  <2>2. PinInv' /\ (pin'.error = None => PinFits(pin', Hook.from))
    BY <1>1, <1>3, <2>1, MakePinFits
  <2>3. ~Deserves(Head(todo))
    BY <1>1 DEF Deserves, KnownToRun
  <2>4. MaySay("error") /\ MaySay("hit") /\ MaySay("miss")
    BY <2>3 DEF MaySay, Held, Good
  <2>5. CASE PinFails
    BY <1>1, <2>2, <2>3, <2>5, FailedAfterPin
  <2>6. CASE Settle("hit") \/ Settle("miss")
    BY <1>1, <2>2, <2>4, <2>6, SettleAfterPin
  <2>7. CASE pin'.error = None /\ command.kind = "sync" /\ Healthy(pin') /\ Settle("cached")
    <3>1. Promised(Head(todo))
      BY <1>1, <2>1, <2>2, <2>7, PromiseMade DEF Healthy
    <3>2. MaySay("cached")
      BY <2>3, <3>1 DEF MaySay, Good
    <3>. QED
      BY <1>1, <2>2, <2>7, <3>2, SettleAfterPin
  <2>8. CASE Proceed("resolve") /\ command.kind = "sync"
    <3>1. WorldInv' /\ CommandInv' /\ ReportInv' /\ SyncedRunsOffline'
      BY <1>1, <2>8, ProceedKeeps
    <3>2. EnvironmentInv' /\ CacheInv'
      BY <1>1, <2>8 DEF Proceed, EnvironmentInv, PinningInv, CacheInv
    <3>. QED
      BY <2>2, <3>1, <3>2 DEF PinningInv
  <2>. QED
    BY <1>1, <1>3, <2>5, <2>6, <2>7, <2>8
<1>. QED
  BY <1>2, <1>3 DEF Explain

LEMMA ResolveStep == ASSUME PinningInv, Resolve PROVE PinningInv'
<1>1. phase = "resolve" /\ UNCHANGED <<cache, world>> /\ command.kind # "why"
  BY DEF Resolve, PinningInv, CommandInv, WithoutPinning, SourceFails, EnvFails, PinFails, Settle,
     Raise, Proceed
<1>2. CASE WithoutPinning("ran")
  BY <1>1, <1>2, WithoutPinningKeeps
<1>3. CASE /\ Dispatch = "pypi" /\ MakePin
           /\ IF pin'.error # None THEN PinFails
              ELSE IF command.offline /\ ~Healthy(pin') THEN EnvFails
              ELSE Proceed(IF Healthy(pin') THEN "check" ELSE "build")
  <2>1. ParseSource(Hook.from) = "pypi" /\ Hook.tool # None
    BY <1>3 DEF Dispatch
  <2>2. PinInv' /\ (pin'.error = None => PinFits(pin', Hook.from)) /\ pin' = PinOf(Hook.from)
    BY <1>1, <1>3, <2>1, MakePinFits DEF MakePin
  <2>3. CASE \/ PinFails /\ pin'.error # None
             \/ EnvFails /\ command.offline /\ ~Healthy(pin')
    <3>1. command.offline => ~Deserves(Head(todo))
      BY <1>1, <2>2, <2>3, PromiseFound DEF Healthy
    <3>2. CASE PinFails
      BY <1>1, <2>2, <3>1, <3>2, FailedAfterPin
    <3>3. CASE EnvFails
      BY <1>1, <2>2, <3>1, <3>3, MaySayError, SettleAfterPin DEF EnvFails
    <3>. QED
      BY <2>3, <3>2, <3>3
  <2>4. CASE /\ pin'.error = None /\ (command.offline => Healthy(pin'))
             /\ Proceed(IF Healthy(pin') THEN "check" ELSE "build")
    <3>1. WorldInv' /\ CommandInv' /\ ReportInv' /\ SyncedRunsOffline'
      BY <1>1, <2>4, ProceedKeeps
    <3>2. /\ UNCHANGED <<world, command, todo, cache>>
          /\ phase' = IF Key(pin') \in DOMAIN cache THEN "check" ELSE "build"
      BY <1>1, <2>4 DEF Proceed, Healthy
    <3>3. Hook' = Hook /\ Key(pin)' = Key(pin')
      BY <3>2 DEF Hook, Key, Python
    <3>4. PinFits(pin, Hook.from)'
      BY <2>2, <2>4, <3>2, <3>3 DEF PinFits, Sources, Urls
    <3>5. EnvironmentInv'
      BY <2>1, <2>4, <3>2, <3>3, <3>4 DEF EnvironmentInv, Healthy
    <3>6. CacheInv'
      BY <3>2 DEF PinningInv, CacheInv
    <3>. QED
      BY <2>2, <3>1, <3>5, <3>6 DEF PinningInv
  <2>. QED
    BY <1>3, <2>3, <2>4
<1>. QED
  BY <1>2, <1>3 DEF Resolve

LEMMA BuildStep == ASSUME PinningInv, Build PROVE PinningInv'
<1>1. /\ phase = "build" /\ UNCHANGED <<world, pin, seen>> /\ command.kind # "why" /\ ~command.offline
      /\ ParseSource(Hook.from) = "pypi" /\ Hook.tool # None
      /\ PinFits(pin, Hook.from)
  BY DEF Build, EnvFails, Settle, Proceed, PinningInv, CommandInv, EnvironmentInv
<1>2. PinInv'
  BY <1>1, PinUntouched DEF PinningInv
<1>3. CASE EnvFails /\ UNCHANGED cache
  BY <1>1, <1>2, <1>3, MaySayError, SettleAfterPin DEF EnvFails
<1>4. ASSUME NEW v \in {f.version : f \in {g \in ToSet(Index[pin.url].files) :
                           g.version # None /\ Equals(g.version, pin.version)}},
             cache' = [k \in DOMAIN cache \cup {Key(pin)} |->
                          IF k = Key(pin) THEN Installed(v) ELSE cache[k]],
             Proceed("check")
      PROVE  PinningInv'
  <2>1. DOMAIN cache' = DOMAIN cache \cup {Key(pin)} /\ cache'[Key(pin)] = Installed(v)
        /\ \A k \in DOMAIN cache \ {Key(pin)} : cache'[k] = cache[k]
    BY <1>4
  <2>2. v \in DOMAIN Versions /\ Equals(v, pin.version) /\ pin.version \in DOMAIN Versions
    <3>1. pin.url \in Urls(world)
      BY <1>1 DEF PinFits
    <3>2. Index[pin.url].files \in Seq(Files)
      BY <3>1, WorldFacts DEF PinningInv, Pages
    <3>3. \A g \in ToSet(Index[pin.url].files) : g \in Files
      BY <3>2, ElementOfSeq DEF ToSet
    <3>. QED
      BY <1>1, <3>3 DEF Files, Optional, PinFits
  <2>3. /\ Key(pin)[1] = pin.name /\ Key(pin)[2] = pin.version /\ Key(pin)[3] = pin.url
        /\ Python = IF Len(Key(pin)) = 4 THEN Key(pin)[4] ELSE None
    BY DEF Key
  <2>4. CacheInv'
    <3>1. ASSUME NEW k \in DOMAIN cache'
          PROVE  /\ k[2] \in DOMAIN Versions /\ cache'[k].version \in DOMAIN Versions
                 /\ Equals(cache'[k].version, k[2])
                 /\ cache'[k].name = k[1] /\ cache'[k].url = k[3]
                 /\ cache'[k].python = IF Len(k) = 4 THEN k[4] ELSE None
      <4>1. CASE k = Key(pin)
        BY <2>1, <2>2, <2>3, <4>1 DEF Installed
      <4>2. CASE k # Key(pin)
        BY <2>1, <3>1, <4>2 DEF PinningInv, CacheInv
      <4>. QED
        BY <4>1, <4>2
    <3>. QED
      BY <3>1 DEF CacheInv
  <2>5. WorldInv' /\ CommandInv' /\ ReportInv' /\ SyncedRunsOffline'
    BY <1>1, <1>4, <2>1, ProceedKeeps
  <2>6. EnvironmentInv'
    <3>1. UNCHANGED <<world, command, todo, pin>> /\ phase' = "check"
      BY <1>1, <1>4 DEF Proceed
    <3>2. Hook' = Hook /\ Key(pin)' = Key(pin)
      BY <3>1 DEF Hook, Key, Python
    <3>3. PinFits(pin, Hook.from)'
      BY <1>1, <3>1, <3>2 DEF PinFits, Sources, Urls
    <3>. QED
      BY <1>1, <2>1, <3>1, <3>2, <3>3 DEF EnvironmentInv
  <2>. QED
    BY <1>2, <2>4, <2>5, <2>6 DEF PinningInv
<1>. QED
  BY <1>3, <1>4 DEF Build

LEMMA CheckStep == ASSUME PinningInv, Check PROVE PinningInv'
<1>1. /\ phase = "check" /\ UNCHANGED <<world, cache, pin, seen>> /\ command.kind # "why"
      /\ Hook.tool # None /\ PinFits(pin, Hook.from) /\ Key(pin) \in DOMAIN cache
  BY DEF Check, EnvFails, Settle, PinningInv, CommandInv, EnvironmentInv
<1>2. PinInv'
  BY <1>1, PinUntouched DEF PinningInv
<1>3. Hook = world.hooks[Head(todo)]
  BY DEF Hook
<1>4. CASE Hook.tool = "missing" /\ EnvFails
  <2>1. ~Deserves(Head(todo))
    BY <1>3, <1>4 DEF Deserves
  <2>. QED
    BY <1>1, <1>2, <1>4, <2>1, MaySayError, SettleAfterPin DEF EnvFails
<1>5. CASE command.kind = "sync" /\ Settle("built")
  <2>1. Promised(Head(todo))
    BY <1>1, <1>5, PromiseMade
  <2>2. ~Deserves(Head(todo))
    BY <1>5 DEF Deserves, KnownToRun
  <2>3. MaySay("built")
    BY <2>1, <2>2 DEF MaySay, Good
  <2>. QED
    BY <1>1, <1>2, <1>5, <2>3, SettleAfterPin
<1>6. CASE command.kind # "sync" /\ Settle("ran")
  <2>1. MaySay("ran")
    BY <1>6 DEF MaySay, Good
  <2>. QED
    BY <1>1, <1>2, <1>6, <2>1, SettleAfterPin
<1>. QED
  BY <1>4, <1>5, <1>6 DEF Check

\* The index moves on, or nothing happens at all.
LEMMA IdleStep ==
    ASSUME PinningInv, IndexMoves \/ UNCHANGED vars
    PROVE  PinningInv'
<1>1. UNCHANGED <<world, cache, left, command, todo, phase, pin, seen, report, synced>>
  BY DEF IndexMoves, vars
<1>2. WorldInv'
  BY WorldFacts, <1>1 DEF IndexMoves, vars, PinningInv, WorldInv
<1>3. CommandInv' /\ CacheInv' /\ PinInv'
  BY <1>1, PinUntouched DEF PinningInv, CommandInv, CacheInv
<1>4. EnvironmentInv'
  BY <1>1 DEF PinningInv, EnvironmentInv, PinFits, Hook, Key, Python, Sources, Urls
<1>5. ReportInv'
  BY <1>1, PromisesKept DEF PinningInv, ReportInv
<1>6. SyncedRunsOffline'
  BY <1>1 DEF PinningInv, SyncedRunsOffline, KnownToRun, WrittenAsListed
<1>. QED
  BY <1>2, <1>3, <1>4, <1>5, <1>6 DEF PinningInv

LEMMA RejectedStep == ASSUME PinningInv, NEW kind \in Kinds, Rejected(kind) PROVE PinningInv'
<1>1. /\ UNCHANGED <<world, now, cache, todo, phase, pin, seen, synced>>
      /\ phase = "idle" /\ left > 0 /\ left' = left - 1 /\ report' = {}
  BY DEF Rejected
<1>2. WorldInv'
  BY WorldFacts, <1>1 DEF PinningInv, WorldInv
<1>3. CommandInv' /\ CacheInv' /\ PinInv' /\ EnvironmentInv'
  BY <1>1, PinUntouched DEF PinningInv, CommandInv, CacheInv, EnvironmentInv
<1>4. ReportInv' /\ SyncedRunsOffline'
  BY <1>1, PromisesKept DEF PinningInv, ReportInv, SyncedRunsOffline
<1>. QED
  BY <1>2, <1>3, <1>4 DEF PinningInv

LEMMA StartStep ==
    ASSUME PinningInv, NEW kind \in Kinds, NEW offline \in BOOLEAN, Start(kind, offline)
    PROVE  PinningInv'
<1>1. /\ UNCHANGED <<world, now, cache, synced>>
      /\ left > 0 /\ left' = left - 1 /\ report' = {} /\ seen' = None /\ pin' = None
      /\ command' = [kind |-> kind, offline |-> offline] /\ phase' = FirstPhase(kind)
  BY DEF Start
<1>2. WorldInv'
  BY WorldFacts, <1>1 DEF PinningInv, WorldInv
<1>3. todo' \in Seq(DOMAIN world.hooks) /\ todo' # <<>>
  <2>1. world.hooks \in Seq(Hooks) /\ world.hooks # <<>>
    BY WorldFacts DEF PinningInv
  <2>2. Len(world.hooks) \in Nat \ {0} /\ DOMAIN world.hooks = 1..Len(world.hooks)
    BY <2>1, LenProperties, EmptySeq
  <2>3. AllHooks \in Seq(DOMAIN world.hooks) /\ Len(AllHooks) = Len(world.hooks)
    BY <2>2, IsASeq, LenProperties DEF AllHooks
  <2>4. AllHooks # <<>>
    BY <2>2, <2>3, EmptySeq
  <2>5. ASSUME NEW p \in DOMAIN world.hooks
        PROVE  <<p>> \in Seq(DOMAIN world.hooks) /\ <<p>> # <<>>
    <3> DEFINE S == DOMAIN world.hooks
    <3> HIDE DEF S
    <3>1. p \in S /\ <<p>> = [i \in 1..1 |-> p]
      BY DEF S
    <3>2. <<p>> \in Seq(S) /\ Len(<<p>>) = 1
      BY <3>1, IsASeq
    <3>. QED
      BY <3>2, EmptySeq DEF S
  <2>. QED
    BY <2>3, <2>4, <2>5 DEF Start
<1>4. CommandInv'
  BY <1>1, <1>3 DEF CommandInv, FirstPhase, Phases, Commands, Kinds
<1>5. CacheInv' /\ PinInv' /\ EnvironmentInv'
  BY <1>1 DEF PinningInv, CacheInv, PinInv, PinIsBest, EnvironmentInv, FirstPhase
<1>6. ReportInv' /\ SyncedRunsOffline'
  BY <1>1, PromisesKept DEF PinningInv, ReportInv, SyncedRunsOffline
<1>. QED
  BY <1>2, <1>4, <1>5, <1>6 DEF PinningInv

LEMMA PinningStep == PinningInv /\ [Next]_vars => PinningInv'
<1> SUFFICES ASSUME PinningInv, [Next]_vars PROVE PinningInv'
  OBVIOUS
<1>. QED
  BY IdleStep, RejectedStep, StartStep, ExplainStep, ResolveStep, BuildStep, CheckStep DEF Next

-----------------------------------------------------------------------------
(* The theorems. *)

\* What the invariant says of pins, slots, reports and the hook in hand is always so.
THEOREM PinningInvariant == Spec => []PinningInv
  BY PinningInit, PinningStep, PTL DEF Spec

(***************************************************************************)
(* The types: every version in a pin or in a slot is one that packaging    *)
(* knows, and a command is idle when it has dealt with all of its hooks.   *)
(***************************************************************************)
THEOREM PinningTypeCorrect == Spec => []TypeOK
<1>1. PinningInv => TypeOK
  BY DEF PinningInv, TypeOK, WorldInv, CommandInv, CacheInv, PinInv, ReportInv
<1>. QED
  BY <1>1, PinningInvariant, PTL

(***************************************************************************)
(* The pin made online is the one that the documented rule selects         *)
(* (registry/pypi_resolver.py), whatever the index lists and withdraws,    *)
(* outside the three cases that Departs names.                             *)
(***************************************************************************)
THEOREM PinIsAlwaysBest == Spec => []PinIsBest
<1>1. PinningInv => PinIsBest
  BY DEF PinningInv, PinInv
<1>. QED
  BY <1>1, PinningInvariant, PTL

(***************************************************************************)
(* A hook runs in an environment of its own package, version, index and    *)
(* interpreter, whichever command built it (env/manager.py).  In a slot is *)
(* what its key says, and the key is made of all four.                     *)
(***************************************************************************)
THEOREM EnvironmentAlwaysFits == Spec => []EnvironmentFits
<1>1. PinningInv => EnvironmentFits
  <2> SUFFICES ASSUME PinningInv, phase = "check" PROVE EnvironmentFits
    BY DEF EnvironmentFits
  <2>1. PinFits(pin, Hook.from) /\ Key(pin) \in DOMAIN cache
    BY DEF PinningInv, EnvironmentInv
  <2>2. /\ Key(pin)[1] = pin.name /\ Key(pin)[2] = pin.version /\ Key(pin)[3] = pin.url
        /\ Python = IF Len(Key(pin)) = 4 THEN Key(pin)[4] ELSE None
    BY DEF Key
  <2>3. /\ cache[Key(pin)].name = pin.name /\ cache[Key(pin)].url = pin.url
        /\ Equals(cache[Key(pin)].version, pin.version) /\ cache[Key(pin)].python = Python
    BY <2>1, <2>2 DEF PinningInv, CacheInv
  <2>4. pin.name = Hook.from.requirement.canonical
    BY <2>1 DEF PinFits, Pinned
  <2>. QED
    BY <2>1, <2>3, <2>4 DEF EnvironmentFits, PinFits, Python
<1>. QED
  BY <1>1, PinningInvariant, PTL

(***************************************************************************)
(* After a sync, an offline run finds what the sync said is there, however *)
(* the index has moved since: the key of the exact pin is in the cache     *)
(* (env/sync.py, registry/pypi_resolver.py).                               *)
(***************************************************************************)
THEOREM SyncedAlwaysRunsOffline == Spec => []SyncedRunsOffline
<1>1. PinningInv => SyncedRunsOffline
  BY DEF PinningInv
<1>. QED
  BY <1>1, PinningInvariant, PTL
=============================================================================
