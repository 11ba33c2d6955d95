-------------------------- MODULE RunCommandProofs --------------------------
(***************************************************************************)
(* Theorems about `gatecheck run`, for every tree and command line: which  *)
(* packages --affected chooses, that the report leaves no hook out, that   *)
(* the command succeeds only if what it guards passed, and that a hook is  *)
(* given its files.                                                        *)
(***************************************************************************)
EXTENDS RunCommand, WorkspaceProofs

-----------------------------------------------------------------------------
(* The choice of packages. *)

\* The phases before the packages are discovered, and those after they are chosen.
Unread == {"options", "load", "discover"}
Chosen == {"packages", "plan", "plan error", "execute", "report", "reported"}

CaseInv == \E k \in Cases : tree = k.tree /\ invocation = k.invocation

Places == DOMAIN tree.checkToml \cup DOMAIN tree.pyproject
ConfigInv ==
    /\ configDir # None => configDir \in Places
    /\ phase = "load" => configDir # None
    /\ phase \notin {"options", "load", "usage error", "no config", "config error"} =>
           config \in Configs(tree)

\* Without --affected there are no packages, and no phase that is about them.
ModeInv ==
    /\ phase \in Phases
    /\ phase \in {"discover", "dependencies", "cycles", "spread", "packages",
                  "unknown package", "package cycle"} => invocation.affected
    /\ phase \in {"branch", "begin"} => ~invocation.affected
    /\ phase = "load" => ~(invocation.commitMsg /\ invocation.affected)
    /\ ~invocation.affected => packages = <<>>

PackagesInv ==
    /\ packages \in Seq(ToSet(packages))
    /\ \A p \in ToSet(packages) : p.path \in ToSet(tree.dirs) /\ p.config \in Configs(tree)
    /\ phase \in Unread => packages = <<>>

\* The search for a cycle: not begun, going on, over with a cycle, or over with none.
SearchInv ==
    /\ WalkInv /\ DoneInv
    /\ phase \in Unread => walk = <<>> /\ done = {}
    /\ phase = "cycles" => DepsKnown
    /\ phase = "package cycle" => \E T \in SUBSET Names : CycleAmong(T)

\* The collection of what is affected: not begun, going on, or over.
SpreadInv ==
    /\ phase \notin Chosen \cup {"spread", "raised"} => stack = <<>> /\ affected = {}
    /\ ~invocation.affected => stack = <<>> /\ affected = {}
    /\ phase \in Chosen \cup {"raised"} => stack = <<>> /\ affected \subseteq Names
    /\ phase \in Chosen \cup {"spread"} /\ invocation.affected => ReachInv /\ Names \subseteq done
    /\ phase \in Chosen \cup {"spread"} => \A p \in ToSet(packages) : IsUnder(p.path, configDir)

WorkspaceInv == CaseInv /\ ConfigInv /\ ModeInv /\ PackagesInv /\ SearchInv /\ SpreadInv

LEMMA ConfigFacts ==
    ASSUME CaseInv, NEW c \in Configs(tree)
    PROVE  /\ c.hooks \in Seq(ToSet(c.hooks)) /\ "hooks" \in DOMAIN c
           /\ \A g \in DOMAIN c.groups : c.groups[g].hooks \in Seq(ToSet(c.groups[g].hooks))
           /\ c.package # None => c.package.dependsOn \in Seq(ToSet(c.package.dependsOn))
<1>1. PICK k \in Cases : tree = k.tree
  BY DEF CaseInv
<1>. QED
  BY <1>1, ConfigsAssumption

LEMMA CaseFacts ==
    ASSUME CaseInv
    PROVE  /\ invocation.cwd \in Seq(ToSet(invocation.cwd))
           /\ invocation.explicit # None => invocation.explicit \in Places
           /\ tree.dirs \in Seq(ToSet(tree.dirs)) /\ IsInjective(tree.dirs)
<1>1. PICK k \in Cases : tree = k.tree /\ invocation = k.invocation
  BY DEF CaseInv
<1>. QED
  BY <1>1, CasesAssumption DEF Places

LEMMA PackagesAreListed ==
    ASSUME CaseInv, PackagesInv
    PROVE  PackagesListed
<1>1. ASSUME NEW p \in ToSet(packages)
      PROVE  DeclaredDeps(p) \in Seq(ToSet(DeclaredDeps(p)))
  <2>1. p.config \in Configs(tree)
    BY DEF PackagesInv
  <2>2. CASE p.config.package = None
    BY <2>2, EmptySeq DEF DeclaredDeps
  <2>3. CASE p.config.package # None
    BY <2>1, <2>3, ConfigFacts DEF DeclaredDeps
  <2>. QED
    BY <2>2, <2>3
<1>. QED
  BY <1>1 DEF PackagesListed, PackagesInv

LEMMA DiscoveredIsPlace ==
    ASSUME CaseInv
    PROVE  Discovered(invocation.cwd) = None \/ Discovered(invocation.cwd) \in Places
<1> DEFINE cwd == invocation.cwd
           up == [i \in 1..(Len(cwd) + 1) |-> SubSeq(cwd, 1, Len(cwd) + 1 - i)]
           inside == {i \in DOMAIN up : tree.top = None \/ ~IsStrictPrefix(up[i], tree.top)}
           dirs == Searched(cwd)
           I == {i \in 1..Len(dirs) : dirs[i] \in Places}
<1>1. Len(cwd) \in Nat
  BY CaseFacts, LenProperties
<1>2. Len(dirs) \in Nat
  <2>1. DOMAIN up = 1..(Len(cwd) + 1)
    OBVIOUS
  <2>2. up \in Seq({up[i] : i \in 1..(Len(cwd) + 1)})
    BY <1>1
  <2>3. dirs = AtPositions(up, inside)
    BY DEF Searched
  <2>4. inside \subseteq DOMAIN up
    OBVIOUS
  <2> HIDE DEF up, inside
  <2>. QED
    BY <2>2, <2>3, <2>4, AtPositionsOf, LenProperties
<1>3. Discovered(cwd) = IF I # {} THEN dirs[Min(I)] ELSE None
  <2>1. \A i \in I : i # 0
    OBVIOUS
  <2>2. I # {} => Min(I) \in I
    BY <1>2, MinOfPositions
  <2>. QED
    BY <2>1, <2>2 DEF Discovered, SelectInSeq, Places
<1>4. I # {} => Min(I) \in I
  BY <1>2, MinOfPositions
<1>. QED
  BY <1>3, <1>4

LEMMA SearchKeeps ==
    ASSUME WalkInv, DoneInv, UNCHANGED <<packages, search>>
    PROVE  WalkInv' /\ DoneInv'
<1>1. /\ UNCHANGED <<visiting, done, walk>> /\ Names' = Names
      /\ \A name : Deps(name)' = Deps(name) /\ DepSet(name)' = DepSet(name)
  BY GraphKeeps DEF search
<1>2. \A i : CalledBy(i)' = CalledBy(i)
  BY <1>1 DEF CalledBy
<1>3. Frames' = Frames
  BY <1>1 DEF Frames
<1>4. WalkInv'
  BY <1>1, <1>2, <1>3 DEF WalkInv
<1>5. Acyclic(done)' = Acyclic(done)
  BY <1>1 DEF Acyclic
<1>. QED
  BY <1>1, <1>4, <1>5 DEF DoneInv

LEMMA ReachKeeps ==
    ASSUME ReachInv, UNCHANGED <<packages, changed, configDir, spread>>
    PROVE  ReachInv'
<1>1. /\ UNCHANGED <<stack, affected>> /\ Names' = Names /\ Seeds' = Seeds
      /\ \A name : DepSet(name)' = DepSet(name)
  BY GraphKeeps, SeedsKeep DEF spread
<1>2. Reached' = Reached
  BY <1>1 DEF Reached
<1>3. \A S : Closed(S)' = Closed(S)
  BY <1>1 DEF Closed
<1>. QED
  BY <1>1, <1>2, <1>3 DEF ReachInv

\* A step that chooses nothing.
LEMMA WorkspaceKeeps ==
    ASSUME WorkspaceInv, UNCHANGED <<workspaceVars, invocation>>,
           \/ phase' = phase
           \/ phase = "branch" /\ phase' = "begin"
           \/ phase \in Chosen \cup {"begin"} /\ phase' \in Chosen \cup {"raised"},
           phase' = "packages" => invocation.affected
    PROVE  WorkspaceInv'
<1> USE DEF WorkspaceInv
<1>1. /\ UNCHANGED <<tree, config, configDir, packages, changed, search, spread, invocation>>
      /\ UNCHANGED <<visiting, done, walk, stack, affected>>
  BY DEF workspaceVars, search, spread
<1>2. CaseInv'
  BY <1>1 DEF CaseInv
<1>3. Places' = Places /\ Configs(tree)' = Configs(tree)
  BY <1>1 DEF Places, Configs
<1>4. ConfigInv'
  BY <1>1, <1>3 DEF ConfigInv, Chosen
<1>5. ModeInv'
  BY <1>1 DEF ModeInv, Chosen, Phases, Errors
<1>6. PackagesInv'
  BY <1>1, <1>3 DEF PackagesInv, Chosen, Unread
<1>7. SearchInv'
  <2>1. WalkInv' /\ DoneInv'
    BY <1>1, SearchKeeps DEF SearchInv
  <2>2. DepsKnown' = DepsKnown /\ Names' = Names
    BY <1>1, GraphKeeps
  <2>3. \A T : CycleAmong(T)' = CycleAmong(T)
    BY <1>1, GraphKeeps DEF CycleAmong
  <2>. QED
    BY <1>1, <2>1, <2>2, <2>3 DEF SearchInv, Unread, Chosen
<1>8. SpreadInv'
  <2>1. phase' \in Chosen \cup {"spread"} /\ invocation.affected => ReachInv /\ Names \subseteq done
    BY DEF SpreadInv, Chosen, ModeInv
  <2>2. ReachInv => ReachInv'
    BY <1>1, ReachKeeps
  <2>3. Names' = Names
    BY <1>1, GraphKeeps
  <2>4. phase' \in Chosen \cup {"spread"} => \A p \in ToSet(packages) : IsUnder(p.path, configDir)
    <3>1. CASE phase \in Chosen \cup {"spread"}
      BY <3>1 DEF SpreadInv
    <3>2. CASE phase = "begin" \/ phase = "branch"
      <4>1. packages = <<>>
        BY <3>2 DEF ModeInv
      <4>. QED
        BY <4>1 DEF ToSet
    <3>3. phase' \in Chosen \cup {"spread"} =>
              phase \in Chosen \cup {"spread"} \/ phase = "begin" \/ phase = "branch"
      BY DEF Chosen
    <3>. QED
      BY <3>1, <3>2, <3>3
  <2>5. phase' \in Chosen \cup {"raised"} => stack = <<>> /\ affected \subseteq Names
    BY DEF SpreadInv, Chosen, ModeInv
  <2>. QED
    BY <1>1, <2>1, <2>2, <2>3, <2>4, <2>5 DEF SpreadInv, Chosen, ModeInv
<1>. QED
  BY <1>2, <1>4, <1>5, <1>6, <1>7, <1>8

LEMMA WorkspaceInit ==
    ASSUME Init
    PROVE  WorkspaceInv
<1>1. /\ phase = "options" /\ packages = <<>> /\ visiting = {} /\ done = {} /\ walk = <<>>
      /\ stack = <<>> /\ affected = {} /\ configDir = None
  BY DEF Init
<1>2. CaseInv
  BY DEF Init, CaseInv
<1>3. ConfigInv /\ ModeInv
  BY <1>1 DEF ConfigInv, ModeInv, Phases
<1>4. PackagesInv
  BY <1>1, EmptySeq DEF PackagesInv, Unread, ToSet
<1>5. SearchInv
  <2>1. WalkInv
    BY <1>1, EmptySeq DEF WalkInv
  <2>2. DoneInv
    BY <1>1 DEF DoneInv, Acyclic
  <2>. QED
    BY <1>1, <2>1, <2>2 DEF SearchInv, Unread
<1>6. SpreadInv
  BY <1>1 DEF SpreadInv, Chosen
<1>. QED
  BY <1>2, <1>3, <1>4, <1>5, <1>6 DEF WorkspaceInv

\* A step taken before the packages are discovered.
LEMMA UnreadKeeps ==
    ASSUME WorkspaceInv, phase \in Unread,
           phase' \notin Chosen \cup {"spread", "cycles", "package cycle", "raised"},
           UNCHANGED <<packages, search, spread, tree, invocation>>
    PROVE  CaseInv' /\ PackagesInv' /\ SearchInv' /\ SpreadInv'
<1> USE DEF WorkspaceInv
<1>1. UNCHANGED <<packages, visiting, done, walk, stack, affected, tree, invocation>>
  BY DEF search, spread
<1>2. packages = <<>> /\ walk = <<>> /\ done = {} /\ stack = <<>> /\ affected = {}
  BY DEF PackagesInv, SearchInv, SpreadInv, Unread, Chosen
<1>3. CaseInv' /\ Configs(tree)' = Configs(tree)
  BY <1>1 DEF CaseInv, Configs
<1>4. PackagesInv'
  BY <1>1, <1>2, <1>3 DEF PackagesInv
<1>5. SearchInv'
  BY <1>1, <1>2, SearchKeeps DEF SearchInv
<1>6. SpreadInv'
  BY <1>1, <1>2 DEF SpreadInv, Chosen
<1>. QED
  BY <1>3, <1>4, <1>5, <1>6

LEMMA OptionsKeeps == WorkspaceInv /\ Options => WorkspaceInv'
<1> SUFFICES ASSUME WorkspaceInv, Options PROVE WorkspaceInv'
  OBVIOUS
<1> USE DEF WorkspaceInv
<1> DEFINE i == invocation
           dir == IF i.explicit # None THEN i.explicit ELSE Discovered(i.cwd)
           wrong == \/ i.allFiles /\ i.base # None
                    \/ i.commitMsg /\ (i.allFiles \/ i.base # None \/ i.affected)
<1>1. /\ phase = "options" /\ UNCHANGED <<tree, config, packages, search, spread, invocation>>
      /\ IF wrong THEN phase' = "usage error" /\ UNCHANGED configDir
         ELSE configDir' = dir /\ phase' = IF dir = None THEN "no config" ELSE "load"
  BY DEF Options
<1>2. dir = None \/ dir \in Places
  BY CaseFacts, DiscoveredIsPlace
<1>3. phase' \in {"usage error", "no config", "load"}
  BY <1>1
<1>4. CaseInv' /\ PackagesInv' /\ SearchInv' /\ SpreadInv'
  BY <1>1, <1>3, UnreadKeeps DEF Unread, Chosen
<1> HIDE DEF dir
<1>5. Places' = Places
  BY <1>1 DEF Places
<1>6. ConfigInv'
  BY <1>1, <1>2, <1>3, <1>5 DEF ConfigInv
<1>7. ModeInv'
  <2>1. phase' = "load" => ~(i.commitMsg /\ i.affected)
    BY <1>1
  <2>. QED
    BY <1>1, <1>3, <2>1 DEF ModeInv, Phases, Errors
<1>. QED
  BY <1>4, <1>6, <1>7

LEMMA LoadKeeps == WorkspaceInv /\ Load => WorkspaceInv'
<1> SUFFICES ASSUME WorkspaceInv, Load PROVE WorkspaceInv'
  OBVIOUS
<1> USE DEF WorkspaceInv
<1>1. /\ phase = "load" /\ UNCHANGED <<tree, configDir, packages, search, spread, invocation>>
      /\ config' \in {ConfigIn(configDir)} \cup ConfigsIn(configDir)
      /\ phase' = IF config' = Broken THEN "config error"
                  ELSE IF invocation.commitMsg THEN "begin"
                  ELSE IF invocation.affected THEN "discover" ELSE "changeset"
  BY DEF Load, commandVars
<1>2. configDir \in Places
  BY <1>1 DEF ConfigInv
<1>3. config' # Broken => config' \in Configs(tree)
  BY <1>1, <1>2 DEF ConfigIn, ConfigsIn, Places, Configs, Range
<1>4. Places' = Places /\ Configs(tree)' = Configs(tree)
  BY <1>1 DEF Places, Configs
<1>5. ConfigInv'
  BY <1>1, <1>2, <1>3, <1>4 DEF ConfigInv
<1>6. ModeInv'
  BY <1>1 DEF ModeInv, Phases, Errors
<1>7. CaseInv' /\ PackagesInv' /\ SearchInv' /\ SpreadInv'
  BY <1>1, UnreadKeeps DEF Unread, Chosen
<1>. QED
  BY <1>5, <1>6, <1>7

LEMMA ChangesetKeeps == WorkspaceInv /\ Changeset => WorkspaceInv'
<1> SUFFICES ASSUME WorkspaceInv, Changeset PROVE WorkspaceInv'
  OBVIOUS
<1> USE DEF WorkspaceInv
<1>1. /\ phase = "changeset"
      /\ UNCHANGED <<tree, config, configDir, packages, search, spread, invocation>>
      /\ UNCHANGED <<stack, affected>>
      /\ phase' \in {"git error", "dependencies", "branch"}
      /\ phase' = "dependencies" => invocation.affected
      /\ phase' = "branch" => ~invocation.affected
  BY DEF Changeset, commandVars, spread
<1>2. CaseInv' /\ Places' = Places /\ Configs(tree)' = Configs(tree)
  BY <1>1 DEF CaseInv, Places, Configs
<1>3. ConfigInv' /\ ModeInv'
  BY <1>1, <1>2 DEF ConfigInv, ModeInv, Phases, Errors
<1>4. PackagesInv'
  BY <1>1, <1>2 DEF PackagesInv, Unread
<1>5. SearchInv'
  BY <1>1, SearchKeeps DEF SearchInv, Unread
<1>6. SpreadInv'
  BY <1>1 DEF SpreadInv, Chosen
<1>. QED
  BY <1>2, <1>3, <1>4, <1>5, <1>6

LEMMA DiscoverKeeps == WorkspaceInv /\ DiscoverPackages /\ UNCHANGED invocation => WorkspaceInv'
<1> SUFFICES ASSUME WorkspaceInv, DiscoverPackages, UNCHANGED invocation PROVE WorkspaceInv'
  OBVIOUS
<1> USE DEF WorkspaceInv
<1> DEFINE matched == IF config.workspace = None THEN {}
                      ELSE UNION {Matched(g) : g \in Range(config.workspace.packages)}
           places == {p \in DOMAIN tree.dirs : \E m \in matched : tree.target[m] = tree.dirs[p]}
           found == AtPositions(tree.dirs, places)
<1>1. /\ phase = "discover" /\ UNCHANGED <<tree, config, configDir, search, spread>>
      /\ UNCHANGED <<visiting, done, walk, stack, affected>>
  BY DEF DiscoverPackages, search, spread
<1>2. matched \subseteq DOMAIN tree.checkToml
  BY DEF Matched
<1>3. \/ phase' = "config error" /\ UNCHANGED packages
      \/ /\ phase' = "changeset" /\ \A m \in matched : tree.checkToml[m] # Broken
         /\ \E match \in [ToSet(found) -> matched] :
              packages' = [i \in DOMAIN found |->
                             [name |-> Last(match[found[i]]), path |-> found[i],
                              config |-> tree.checkToml[match[found[i]]]]]
  BY DEF DiscoverPackages
<1> HIDE DEF matched
<1>4. places \subseteq DOMAIN tree.dirs
  OBVIOUS
<1> HIDE DEF places
<1>5. found \in Seq(ToSet(tree.dirs)) /\ Len(found) \in Nat /\ DOMAIN found = 1..Len(found)
  BY <1>4, CaseFacts, AtPositionsOf, LenProperties
<1> HIDE DEF found
<1>6. CaseInv' /\ Places' = Places /\ Configs(tree)' = Configs(tree)
  BY <1>1 DEF CaseInv, Places, Configs
<1>7. invocation.affected /\ phase' \in {"config error", "changeset"}
  BY <1>1, <1>3 DEF ModeInv
<1>8. ConfigInv' /\ ModeInv'
  BY <1>1, <1>6, <1>7 DEF ConfigInv, ModeInv, Phases, Errors
<1>9. CASE phase' = "config error" /\ UNCHANGED packages
  BY <1>1, <1>8, <1>9, UnreadKeeps DEF Unread, Chosen
<1>10. CASE phase' = "changeset" /\ ~(UNCHANGED packages /\ phase' = "config error")
  <2>1. \A m \in matched : tree.checkToml[m] \in Configs(tree)
    BY <1>2, <1>3, <1>10 DEF Configs, Range
  <2>2. PICK match \in [ToSet(found) -> matched] :
              packages' = [i \in DOMAIN found |->
                             [name |-> Last(match[found[i]]), path |-> found[i],
                              config |-> tree.checkToml[match[found[i]]]]]
    BY <1>3, <1>10
  <2>3. /\ DOMAIN packages' = 1..Len(found)
        /\ \A i \in 1..Len(found) : /\ packages'[i].path = found[i]
                                    /\ packages'[i].config = tree.checkToml[match[found[i]]]
        /\ packages' = [i \in 1..Len(found) |-> packages'[i]]
    BY <1>5, <2>2
  <2>4. packages' \in Seq(ToSet(packages'))
    <3>1. \A i \in 1..Len(found) : packages'[i] \in ToSet(packages')
      BY <2>3 DEF ToSet
    <3>2. packages' \in [1..Len(found) -> ToSet(packages')]
      BY <2>3, <3>1
    <3>. QED
      BY <1>5, <3>2
  <2>5. ASSUME NEW p \in ToSet(packages')
        PROVE  p.path \in ToSet(tree.dirs) /\ p.config \in Configs(tree)
    <3>1. PICK i \in 1..Len(found) : p = packages'[i]
      BY <2>3 DEF ToSet
    <3>2. found[i] \in ToSet(found) /\ found[i] \in ToSet(tree.dirs)
      BY <1>5, ElementOfSeq DEF ToSet
    <3>3. match[found[i]] \in matched
      BY <3>2
    <3>. QED
      BY <2>1, <2>3, <3>1, <3>2, <3>3
  <2>6. PackagesInv'
    BY <1>1, <1>6, <1>10, <2>4, <2>5 DEF PackagesInv, Unread
  <2>7. SearchInv'
    <3>1. walk' = <<>> /\ done' = {} /\ visiting' = {}
      BY <1>1 DEF SearchInv, Unread, WalkInv
    <3>2. WalkInv'
      BY <3>1, EmptySeq DEF WalkInv
    <3>3. DoneInv'
      BY <3>1 DEF DoneInv, Acyclic
    <3>. QED
      BY <1>10, <3>1, <3>2, <3>3 DEF SearchInv
  <2>8. SpreadInv'
    BY <1>1, <1>10 DEF SpreadInv, Chosen
  <2>. QED
    BY <1>6, <1>8, <2>6, <2>7, <2>8
<1>. QED
  BY <1>3, <1>9, <1>10

\* A step of the search that changes none of the lists it works on.
LEMMA ListsKeep ==
    ASSUME CaseInv, ConfigInv, PackagesInv, UNCHANGED <<tree, config, configDir, packages, invocation>>,
           phase \in {"dependencies", "cycles", "spread"},
           phase' \in {"unknown package", "cycles", "package cycle", "spread", "packages", "raised"}
    PROVE  CaseInv' /\ ConfigInv' /\ PackagesInv'
<1>1. CaseInv' /\ Places' = Places /\ Configs(tree)' = Configs(tree)
  BY DEF CaseInv, Places, Configs
<1>2. ConfigInv'
  BY <1>1 DEF ConfigInv
<1>3. PackagesInv'
  BY <1>1 DEF PackagesInv, Unread
<1>. QED
  BY <1>1, <1>2, <1>3

LEMMA ValidateKeeps == WorkspaceInv /\ ValidateDeps /\ UNCHANGED invocation => WorkspaceInv'
<1> SUFFICES ASSUME WorkspaceInv, ValidateDeps, UNCHANGED invocation PROVE WorkspaceInv'
  OBVIOUS
<1> USE DEF WorkspaceInv
<1>1. /\ phase = "dependencies" /\ phase' \in {"cycles", "unknown package"}
      /\ phase' = "cycles" => \A p \in ToSet(packages) : ToSet(DeclaredDeps(p)) \subseteq Names
      /\ UNCHANGED <<tree, config, configDir, packages, changed, search, spread>>
      /\ UNCHANGED <<stack, affected>>
  BY DEF ValidateDeps, spread
<1>2. CaseInv' /\ ConfigInv' /\ PackagesInv'
  BY <1>1, ListsKeep
<1>3. ModeInv'
  BY <1>1 DEF ModeInv, Phases, Errors
<1>4. phase' = "cycles" => DepsKnown
  <2> SUFFICES ASSUME phase' = "cycles", NEW name \in Names PROVE DepSet(name) \subseteq Names
    BY DEF DepsKnown
  <2>1. /\ packages[LastNamed(name)] \in ToSet(packages)
        /\ Deps(name) = DeclaredDeps(packages[LastNamed(name)])
    BY PackagesAreListed, DepsFound DEF ToSet
  <2>. QED
    BY <1>1, <2>1 DEF DepSet
<1>5. SearchInv'
  <2>1. WalkInv' /\ DoneInv' /\ DepsKnown' = DepsKnown
    BY <1>1, SearchKeeps, GraphKeeps DEF SearchInv
  <2>. QED
    BY <1>1, <1>4, <2>1 DEF SearchInv, Unread
<1>6. SpreadInv'
  BY <1>1 DEF SpreadInv, Chosen
<1>. QED
  BY <1>2, <1>3, <1>5, <1>6

LEMMA VisitNextStep == WorkspaceInv /\ VisitNext /\ UNCHANGED invocation => WorkspaceInv'
<1> SUFFICES ASSUME WorkspaceInv, VisitNext, UNCHANGED invocation PROVE WorkspaceInv'
  OBVIOUS
<1> USE DEF WorkspaceInv
<1>1. /\ phase = "cycles" /\ phase' \in {"cycles", "spread", "raised"}
      /\ UNCHANGED <<tree, config, configDir, packages, changed, done, affected>>
      /\ phase' # "spread" => stack' = stack
      /\ phase' = "spread" => \A p \in ToSet(packages) : IsUnder(p.path, configDir)
  BY DEF VisitNext
<1>2. CaseInv' /\ ConfigInv' /\ PackagesInv'
  BY <1>1, ListsKeep
<1>3. ModeInv' /\ invocation.affected
  BY <1>1 DEF ModeInv, Phases, Errors
<1>4. affected = {} /\ stack = <<>> /\ DepsKnown
  BY <1>1 DEF SpreadInv, SearchInv, Chosen
<1>5. WalkInv' /\ DoneInv' /\ (phase' = "spread" => Names \subseteq done)
  BY PackagesAreListed, VisitNextKeeps DEF SearchInv
<1>6. DepsKnown' = DepsKnown /\ Names' = Names
  BY <1>1, GraphKeeps
<1>7. SearchInv'
  BY <1>1, <1>4, <1>5, <1>6 DEF SearchInv, Unread
<1>8. phase' = "spread" => ReachInv'
  BY <1>4, PackagesAreListed, SearchEnds
<1>9. SpreadInv'
  <2>1. affected' = {} /\ {} \subseteq Names' /\ (phase' # "spread" => stack' = <<>>)
    BY <1>1, <1>4
  <2>2. CASE phase' = "cycles"
    BY <2>1, <2>2 DEF SpreadInv, Chosen
  <2>3. CASE phase' = "raised"
    BY <2>1, <2>3 DEF SpreadInv, Chosen
  <2>4. CASE phase' = "spread"
    <3>1. (\A p \in ToSet(packages) : IsUnder(p.path, configDir))'
      BY <1>1, <2>4 DEF ToSet, IsUnder
    <3>2. phase' \notin Chosen \cup {"raised"} /\ invocation'.affected
      BY <1>3, <2>4 DEF Chosen
    <3>3. ReachInv' /\ Names' \subseteq done'
      BY <1>1, <1>5, <1>6, <1>8, <2>4
    <3>. QED
      BY <2>4, <3>1, <3>2, <3>3 DEF SpreadInv
  <2>. QED
    BY <1>1, <2>2, <2>3, <2>4
<1>. QED
  BY <1>2, <1>3, <1>7, <1>9

LEMMA VisitDependencyStep ==
    WorkspaceInv /\ VisitDependency /\ UNCHANGED invocation => WorkspaceInv'
<1> SUFFICES ASSUME WorkspaceInv, VisitDependency, UNCHANGED invocation PROVE WorkspaceInv'
  OBVIOUS
<1> USE DEF WorkspaceInv
<1>1. /\ phase = "cycles" /\ UNCHANGED <<tree, config, configDir, packages, stack, affected>>
  BY DEF VisitDependency, spread
<1>2. DepsKnown /\ stack = <<>> /\ affected = {} /\ invocation.affected
  BY <1>1 DEF SearchInv, SpreadInv, ModeInv, Chosen
<1>3. /\ WalkInv' /\ DoneInv' /\ phase' \in {"cycles", "package cycle"}
      /\ phase' = "package cycle" => \E T \in SUBSET Names : CycleAmong(T)
  BY <1>2, PackagesAreListed, VisitDependencyKeeps DEF SearchInv
<1>4. CaseInv' /\ ConfigInv' /\ PackagesInv'
  BY <1>1, <1>3, ListsKeep
<1>5. ModeInv'
  BY <1>1, <1>2, <1>3 DEF ModeInv, Phases, Errors
<1>6. DepsKnown' = DepsKnown /\ Names' = Names /\ \A T : CycleAmong(T)' = CycleAmong(T)
  BY <1>1, GraphKeeps DEF CycleAmong
<1>7. SearchInv'
  BY <1>2, <1>3, <1>6 DEF SearchInv, Unread
<1>8. SpreadInv'
  BY <1>1, <1>2, <1>3 DEF SpreadInv, Chosen
<1>. QED
  BY <1>4, <1>5, <1>7, <1>8

LEMMA LeaveStep == WorkspaceInv /\ Leave /\ UNCHANGED invocation => WorkspaceInv'
<1> SUFFICES ASSUME WorkspaceInv, Leave, UNCHANGED invocation PROVE WorkspaceInv'
  OBVIOUS
<1> USE DEF WorkspaceInv
<1>1. /\ phase = "cycles" /\ phase' = "cycles"
      /\ UNCHANGED <<tree, config, configDir, packages, stack, affected>>
  BY DEF Leave, spread
<1>2. WalkInv' /\ DoneInv'
  BY PackagesAreListed, LeaveKeeps DEF SearchInv
<1>3. CaseInv' /\ ConfigInv' /\ PackagesInv'
  BY <1>1, ListsKeep
<1>4. ModeInv'
  BY <1>1 DEF ModeInv, Phases, Errors
<1>5. DepsKnown' = DepsKnown
  BY <1>1, GraphKeeps
<1>6. SearchInv'
  BY <1>1, <1>2, <1>5 DEF SearchInv, Unread
<1>7. SpreadInv'
  BY <1>1 DEF SpreadInv, Chosen
<1>. QED
  BY <1>3, <1>4, <1>6, <1>7

LEMMA SpreadStep == WorkspaceInv /\ Spread /\ UNCHANGED invocation => WorkspaceInv'
<1> SUFFICES ASSUME WorkspaceInv, Spread, UNCHANGED invocation PROVE WorkspaceInv'
  OBVIOUS
<1> USE DEF WorkspaceInv
<1>1. /\ phase = "spread" /\ UNCHANGED <<tree, config, configDir, packages, search, done>>
  BY DEF Spread, search
<1>2. invocation.affected /\ ReachInv /\ Names \subseteq done
  BY <1>1 DEF SpreadInv, ModeInv
<1>3. /\ ReachInv' /\ phase' \in {"spread", "packages"}
      /\ phase' = "packages" => stack' = <<>>
  BY <1>2, PackagesAreListed, SpreadKeeps
<1>4. CaseInv' /\ ConfigInv' /\ PackagesInv'
  BY <1>1, <1>3, ListsKeep
<1>5. ModeInv'
  BY <1>1, <1>2, <1>3 DEF ModeInv, Phases
<1>6. Names' = Names
  BY <1>1, GraphKeeps
<1>7. SearchInv'
  BY <1>1, <1>3, SearchKeeps DEF SearchInv, Unread
<1>8. SpreadInv'
  <2>1. (\A p \in ToSet(packages) : IsUnder(p.path, configDir))'
    BY <1>1 DEF SpreadInv, ToSet, IsUnder
  <2>2. affected' \subseteq Names'
    BY <1>3 DEF ReachInv
  <2>3. invocation'.affected /\ Names' \subseteq done'
    BY <1>1, <1>2, <1>6
  <2>4. phase' \notin (Chosen \ {"packages"}) \cup {"raised"}
    BY <1>3 DEF Chosen
  <2>. QED
    BY <1>3, <2>1, <2>2, <2>3, <2>4 DEF SpreadInv, Chosen
<1>. QED
  BY <1>4, <1>5, <1>7, <1>8

-----------------------------------------------------------------------------
(* The planner and the results. *)

IdsDistinct(hooks) == \A p, q \in DOMAIN hooks : hooks[p].id = hooks[q].id => p = q
Asking == {"idle", "select", "unknown group", "unknown hook"}

\* What a plan in the making is made of, and how far it has come.
RequestInv ==
    /\ request.hooks \in Seq(ToSet(request.hooks))
    /\ request.group # None /\ request.group \in DOMAIN request.groups =>
          request.groups[request.group] \in Seq(ToSet(request.groups[request.group]))
    /\ UniqueIds /\ ~invocation.affected => IdsDistinct(request.hooks)
SelectedInv ==
    /\ selected \in Seq(ToSet(request.hooks))
    /\ request.group = None => selected = request.hooks
    /\ UniqueIds /\ ~invocation.affected => IdsDistinct(selected)
    /\ verdicts \in Seq({Planner!Verdict(h) : h \in ToSet(selected)})
    /\ Len(verdicts) <= Len(selected)
    /\ \A p \in DOMAIN verdicts : verdicts[p] = Planner!Verdict(selected[p])
PlannerInv ==
    /\ stage \in {"idle", "select", "filter", "check", "sort"} \cup Planner!Ended
    /\ stage # "idle" => RequestInv
    /\ stage \in Asking => verdicts = <<>>
    /\ stage \notin Asking => SelectedInv
    /\ stage \notin Asking \cup {"filter"} => Len(verdicts) = Len(selected)

\* The package in hand, and what is planned for it.
TurnInv ==
    /\ turn \in 0..Len(AffectedPackages)
    /\ phase \notin Chosen \cup {"raised"} \/ ~invocation.affected => turn = 0
    /\ phase \in {"plan", "execute"} => stage # "idle"
    /\ phase = "execute" => stage = "planned"
    /\ phase \in {"plan", "execute"} /\ invocation.affected =>
          /\ turn >= 1
          /\ request.hooks = Effective.hooks /\ request.group = None /\ context.changed = None
    /\ phase \in {"report", "reported"} /\ invocation.affected => turn = Len(AffectedPackages)

\* Each unconditional hook of the package has a result.
Served(p) ==
    \A h \in ToSet(p.config.hooks) :
        Unconditional(h) => \E r \in results : r.hook = h.id /\ r.cwd = p.path

\* What the packages dealt with, or the one plan, left behind.
ResultsInv ==
    /\ \A r \in results : r.status \in Statuses
    /\ UniqueIds /\ phase \in Chosen /\ invocation.affected =>
          \A i \in 1..(IF phase \in {"packages", "report", "reported"} THEN turn ELSE turn - 1) :
              Served(AffectedPackages[i])
    /\ phase \notin {"report", "reported"} /\ ~invocation.affected => results = {}
    /\ phase \in {"report", "reported"} /\ ~invocation.affected =>
          /\ stage = "planned"
          /\ Executed \subseteq Planner!RunningIds
          /\ UniqueIds /\ Executed # Planner!RunningIds =>
                FailFast /\ \E r \in results : r.status # "passed"
          /\ \A r \in results : r.cwd = invocation.cwd

ReportInv ==
    phase = "reported" =>
        /\ report.results = results
        /\ ~invocation.affected => report.skipped = Skipped /\ report.notRun = NotRun

CommandInv == WorkspaceInv /\ PlannerInv /\ TurnInv /\ ResultsInv /\ ReportInv

-----------------------------------------------------------------------------
(* What the planner makes of a request. *)

\* The planner's operators on lists are those of Config.
LEMMA SameOperators ==
    /\ \A s : Planner!ToSet(s) = ToSet(s) /\ Planner!IdsOf(s) = IdsOf(s)
    /\ \A s, id : Planner!Definition(s, id) = Definition(s, id)
    /\ \A s : Planner!FirstMentions(s) = FirstMentions(s)
<1>1. \A s : Planner!ToSet(s) = ToSet(s)
  BY DEF ToSet, Planner!ToSet
<1>2. \A s : Planner!IdsOf(s) = IdsOf(s)
  BY DEF IdsOf, Planner!IdsOf
<1>3. \A s, id : Planner!Definition(s, id) = Definition(s, id)
  <2>1. ASSUME NEW s, NEW id PROVE Planner!Definition(s, id) = Definition(s, id)
    BY DEF Definition, Planner!Definition, SelectLastInSeq, Planner!SelectLastInSeq,
           Max, Planner!Max
  <2>. QED
    BY <2>1
<1>4. \A S : Planner!Cardinality(S) = Cardinality(S)
  BY DEF Cardinality, Planner!Cardinality
<1>5. \A S, order : Planner!InOrder(S, order) = InOrder(S, order)
  BY DEF InOrder, Planner!InOrder, Cardinality, Planner!Cardinality
<1>6. \A S : Planner!Ascending(S) = Ascending(S)
  BY DEF Ascending, Planner!Ascending
<1>7. \A s, S : Planner!AtPositions(s, S) = AtPositions(s, S)
  BY <1>4, <1>5, <1>6 DEF AtPositions, Planner!AtPositions
<1>8. \A s : Planner!FirstMentions(s) = FirstMentions(s)
  BY <1>7 DEF FirstMentions, Planner!FirstMentions
<1>. QED
  BY <1>1, <1>2, <1>3, <1>8


LEMMA VerdictKeeps ==
    ASSUME context' = context, NEW h
    PROVE  Planner!Verdict(h)' = Planner!Verdict(h)
<1>1. Planner!Hurdles(h)' = Planner!Hurdles(h)
  BY DEF Planner!Hurdles, Planner!IsSet, Planner!Offline, Planner!OnCi, Planner!BranchForbids,
         Planner!FilesForbid, Planner!NothingRouted, Planner!RoutedFiles
<1>. QED
  BY <1>1 DEF Planner!Verdict, Planner!SelectInSeq

\* Nothing skips a hook without conditions when the changeset is unknown.
LEMMA UnconditionalPasses ==
    ASSUME NEW h, Unconditional(h), context.changed = None
    PROVE  Planner!Verdict(h) = "run"
<1>1. /\ ~h.when.requiresNetwork /\ h.when.env = None /\ h.when.envNot = None
      /\ h.when.onCi = "any" /\ h.when.branch = None /\ h.when.branchNot = None
      /\ h.when.branchMatches = None /\ h.when.filesMatch = None
  BY DEF Unconditional, Planner!NoConditions
<1>2. Len(Planner!Hurdles(h)) = 7
  BY DEF Planner!Hurdles
<1>3. /\ ~Planner!Hurdles(h)[1][2] /\ ~Planner!Hurdles(h)[2][2] /\ ~Planner!Hurdles(h)[3][2]
  BY <1>1 DEF Planner!Hurdles
<1>4. ~Planner!Hurdles(h)[4][2]
  BY <1>1 DEF Planner!Hurdles
<1>5. ~Planner!Hurdles(h)[5][2]
  BY <1>1 DEF Planner!Hurdles, Planner!BranchForbids
<1>6. ~Planner!Hurdles(h)[6][2] /\ ~Planner!Hurdles(h)[7][2]
  BY <1>1 DEF Planner!Hurdles, Planner!FilesForbid, Planner!NothingRouted
<1>7. \A i \in 1..7 : i = 1 \/ i = 2 \/ i = 3 \/ i = 4 \/ i = 5 \/ i = 6 \/ i = 7
  OBVIOUS
<1>8. {i \in 1..Len(Planner!Hurdles(h)) : Planner!Hurdles(h)[i][2]} = {}
  <2> DEFINE hurdles == Planner!Hurdles(h)
  <2> HIDE DEF hurdles
  <2>1. \A i \in 1..7 : ~hurdles[i][2]
    BY <1>3, <1>4, <1>5, <1>6, <1>7 DEF hurdles
  <2>. QED
    BY <1>2, <2>1 DEF hurdles
<1>. QED
  BY <1>8 DEF Planner!Verdict, Planner!SelectInSeq

LEMMA UnconditionalRuns ==
    ASSUME PlannerInv, stage = "planned", request.group = None, context.changed = None,
           NEW h \in ToSet(request.hooks), Unconditional(h)
    PROVE  h.id \in Planner!RunningIds
<1>1. SelectedInv /\ selected = request.hooks /\ Len(verdicts) = Len(selected)
  BY DEF PlannerInv, SelectedInv, Asking
<1>2. PICK p \in DOMAIN selected : selected[p] = h
  BY <1>1 DEF ToSet
<1>3. p \in DOMAIN verdicts
  BY <1>1, <1>2, LenProperties DEF SelectedInv
<1>4. verdicts[p] = "run"
  BY <1>1, <1>2, <1>3, UnconditionalPasses DEF SelectedInv
<1>. QED
  BY <1>2, <1>3, <1>4 DEF Planner!RunningIds, Planner!Running

\* build_plan begins with a request that is a list of hooks.
LEMMA StartKeeps ==
    ASSUME NEW cfg, NEW g, NEW b, NEW c, StartPlan(cfg, g, b, c), UNCHANGED <<tree, invocation>>,
           cfg.hooks \in Seq(ToSet(cfg.hooks)),
           g # None /\ g \in DOMAIN cfg.groups =>
               cfg.groups[g].hooks \in Seq(ToSet(cfg.groups[g].hooks)),
           UniqueIds /\ ~invocation.affected => IdsDistinct(cfg.hooks)
    PROVE  /\ PlannerInv' /\ stage' = "select" /\ phase' = "plan"
           /\ request'.hooks = cfg.hooks /\ request'.group = g /\ context'.changed = c
<1>1. /\ request' = [hooks |-> cfg.hooks, group |-> g,
                     groups |-> [n \in DOMAIN cfg.groups |-> cfg.groups[n].hooks]]
      /\ stage' = "select" /\ verdicts' = <<>> /\ phase' = "plan" /\ context'.changed = c
  BY DEF StartPlan
<1>2. /\ request'.hooks = cfg.hooks /\ request'.group = g
      /\ request'.groups = [n \in DOMAIN cfg.groups |-> cfg.groups[n].hooks]
  BY <1>1
<1>3. UniqueIds' = UniqueIds
  BY DEF UniqueIds, Configs
<1>4. RequestInv'
  BY <1>2, <1>3 DEF RequestInv, IdsDistinct
<1>. QED
  BY <1>1, <1>2, <1>4 DEF PlannerInv, Asking

LEMMA PlannerKeeps ==
    ASSUME PlannerInv, UNCHANGED <<planningVars, tree, invocation>>
    PROVE  PlannerInv'
<1>1. UNCHANGED <<request, context, stage, selected, verdicts, levels>>
  BY DEF planningVars
<1>2. UniqueIds' = UniqueIds
  BY DEF UniqueIds, Configs
<1>3. \A h : Planner!Verdict(h)' = Planner!Verdict(h)
  BY <1>1, VerdictKeeps
<1>4. RequestInv' = RequestInv
  BY <1>1, <1>2 DEF RequestInv
<1>5. {Planner!Verdict(h) : h \in ToSet(selected)}' = {Planner!Verdict(h) : h \in ToSet(selected)}
  BY <1>1, <1>3
<1>6. SelectedInv => SelectedInv'
  BY <1>1, <1>2, <1>3, <1>5 DEF SelectedInv
<1>. QED
  BY <1>1, <1>4, <1>6 DEF PlannerInv

LEMMA SelectStep ==
    ASSUME PlannerInv, Planner!Select, UNCHANGED <<tree, invocation>>
    PROVE  PlannerInv'
<1>1. /\ stage = "select" /\ UNCHANGED <<request, context, verdicts, levels>>
      /\ verdicts = <<>> /\ RequestInv
  BY DEF Planner!Select, PlannerInv, Asking
<1>2. UniqueIds' = UniqueIds
  BY DEF UniqueIds, Configs
<1>3. RequestInv'
  BY <1>1, <1>2 DEF RequestInv
<1>4. verdicts' = <<>> /\ Len(verdicts') = 0 /\ verdicts' \in Seq({Planner!Verdict(h) : h \in ToSet(selected)}')
  BY <1>1, EmptySeq
<1> DEFINE listed == request.groups[request.group]
<1>5. CASE stage' \in {"unknown group", "unknown hook"}
  BY <1>1, <1>3, <1>4, <1>5 DEF PlannerInv, Asking, Planner!Ended
<1>6. ASSUME stage' = "filter", selected' \in Seq(ToSet(request.hooks)),
             request.group = None => selected' = request.hooks,
             UniqueIds /\ ~invocation.affected => IdsDistinct(selected')
      PROVE  PlannerInv'
  <2>1. Len(verdicts') <= Len(selected')
    BY <1>4, <1>6, LenProperties
  <2>2. SelectedInv'
    BY <1>1, <1>2, <1>4, <1>6, <2>1 DEF SelectedInv, IdsDistinct
  <2>. QED
    BY <1>1, <1>3, <1>6, <2>2 DEF PlannerInv, Asking
<1>7. CASE request.group = None
  <2>1. selected' = request.hooks /\ stage' = "filter"
    BY <1>1, <1>7 DEF Planner!Select
  <2>. QED
    BY <1>1, <1>6, <2>1 DEF RequestInv
<1>8. CASE /\ request.group # None /\ request.group \in DOMAIN request.groups
           /\ ToSet(listed) \subseteq IdsOf(request.hooks)
  <2> DEFINE ids == FirstMentions(listed)
  <2>1. /\ selected' = [p \in DOMAIN ids |-> Definition(request.hooks, ids[p])]
        /\ stage' = "filter"
    BY <1>8, SameOperators DEF Planner!Select
  <2>2. listed \in Seq(ToSet(listed)) /\ request.hooks \in Seq(ToSet(request.hooks))
    BY <1>1, <1>8 DEF RequestInv
  <2>3. ids \in Seq(ToSet(listed)) /\ IsInjective(ids)
    BY <2>2, FirstMentionsOnce
  <2>4. Len(ids) \in Nat /\ DOMAIN ids = 1..Len(ids) /\ \A p \in DOMAIN ids : ids[p] \in IdsOf(request.hooks)
    BY <1>8, <2>3, LenProperties, ElementOfSeq
  <2> HIDE DEF ids
  <2>5. \A p \in DOMAIN ids : /\ Definition(request.hooks, ids[p]) \in ToSet(request.hooks)
                              /\ Definition(request.hooks, ids[p]).id = ids[p]
    BY <2>2, <2>4, DefinitionFound
  <2>6. selected' \in Seq(ToSet(request.hooks))
    <3>1. selected' \in [1..Len(ids) -> ToSet(request.hooks)]
      BY <2>1, <2>4, <2>5
    <3>. QED
      BY <2>4, <3>1
  <2>7. IdsDistinct(selected')
    BY <2>1, <2>3, <2>5 DEF IdsDistinct, IsInjective
  <2>. QED
    BY <1>6, <1>8, <2>1, <2>6, <2>7
<1>9. CASE ~(/\ request.group # None /\ request.group \in DOMAIN request.groups
             /\ ToSet(listed) \subseteq IdsOf(request.hooks)) /\ request.group # None
  BY <1>5, <1>9, SameOperators DEF Planner!Select
<1>. QED
  BY <1>7, <1>8, <1>9

LEMMA FilterStep ==
    ASSUME PlannerInv, Planner!Filter, UNCHANGED <<tree, invocation>>
    PROVE  PlannerInv'
<1> DEFINE next == Len(verdicts) + 1
           all == {Planner!Verdict(h) : h \in ToSet(selected)}
<1>1. /\ stage = "filter" /\ UNCHANGED <<request, context, selected, levels>>
      /\ RequestInv /\ SelectedInv
  BY DEF Planner!Filter, PlannerInv, Asking
<1>2. UniqueIds' = UniqueIds /\ \A h : Planner!Verdict(h)' = Planner!Verdict(h)
  BY <1>1, VerdictKeeps DEF UniqueIds, Configs
<1>3. RequestInv'
  BY <1>1, <1>2 DEF RequestInv
<1>4. all' = all
  BY <1>1, <1>2
<1>5. /\ Len(selected) \in Nat /\ Len(verdicts) \in Nat /\ DOMAIN verdicts = 1..Len(verdicts)
      /\ DOMAIN selected = 1..Len(selected)
  BY <1>1, LenProperties DEF SelectedInv
<1>6. CASE Len(verdicts) < Len(selected)
  <2>1. verdicts' = Append(verdicts, Planner!Verdict(selected[next])) /\ stage' = "filter"
    BY <1>1, <1>6 DEF Planner!Filter
  <2>2. selected[next] \in ToSet(selected)
    BY <1>5, <1>6 DEF ToSet
  <2>3. Planner!Verdict(selected[next]) \in all /\ verdicts \in Seq(all)
    BY <1>1, <2>2 DEF SelectedInv
  <2> HIDE DEF all
  <2>4. /\ verdicts' \in Seq(all) /\ Len(verdicts') = next /\ DOMAIN verdicts' = 1..next
        /\ verdicts'[next] = Planner!Verdict(selected[next])
        /\ \A p \in 1..Len(verdicts) : verdicts'[p] = verdicts[p]
    BY <1>5, <2>1, <2>3, AppendProperties
  <2>5. \A p \in 1..next : verdicts'[p] = Planner!Verdict(selected[p])
    <3> SUFFICES ASSUME NEW p \in 1..next PROVE verdicts'[p] = Planner!Verdict(selected[p])
      OBVIOUS
    <3>1. CASE p = next
      BY <2>4, <3>1
    <3>2. CASE p # next
      <4>1. p \in 1..Len(verdicts)
        BY <1>5, <3>2
      <4>. QED
        BY <1>1, <1>5, <2>4, <4>1 DEF SelectedInv
    <3>. QED
      BY <3>1, <3>2
  <2>6. SelectedInv'
    <3>1. Len(verdicts') <= Len(selected')
      BY <1>1, <1>5, <1>6, <2>4
    <3>2. verdicts' \in Seq({Planner!Verdict(h) : h \in ToSet(selected)})'
      BY <1>4, <2>4 DEF all
    <3>3. \A p \in DOMAIN verdicts' : verdicts'[p] = Planner!Verdict(selected[p])'
      BY <1>1, <1>2, <2>4, <2>5
    <3>. QED
      BY <1>1, <1>2, <3>1, <3>2, <3>3 DEF SelectedInv
  <2>. QED
    BY <1>3, <2>1, <2>6 DEF PlannerInv, Asking
<1>7. CASE ~(Len(verdicts) < Len(selected))
  <2>1. stage' = "check" /\ verdicts' = verdicts
    BY <1>7 DEF Planner!Filter
  <2>2. Len(verdicts) = Len(selected)
    <3>1. Len(verdicts) <= Len(selected)
      BY <1>1 DEF SelectedInv
    <3>2. Len(selected) \in Nat /\ Len(verdicts) \in Nat
      BY <1>5
    <3> HIDE DEF all
    <3>. QED
      BY <1>7, <3>1, <3>2
  <2>3. SelectedInv'
    BY <1>1, <1>2, <1>4, <2>1 DEF SelectedInv
  <2>. QED
    BY <1>1, <1>3, <2>1, <2>2, <2>3 DEF PlannerInv, Asking
<1>. QED
  BY <1>6, <1>7

LEMMA SortStep ==
    ASSUME PlannerInv, Planner!CheckDependencies \/ Planner!Sort, UNCHANGED <<tree, invocation>>
    PROVE  PlannerInv'
<1>1. /\ stage \in {"check", "sort"} /\ UNCHANGED <<request, context, selected, verdicts>>
      /\ stage' \in {"sort", "unknown dependency", "planned", "cycle"}
  BY DEF Planner!CheckDependencies, Planner!Sort
<1>2. RequestInv /\ SelectedInv /\ Len(verdicts) = Len(selected)
  BY <1>1 DEF PlannerInv, Asking
<1>3. UniqueIds' = UniqueIds /\ \A h : Planner!Verdict(h)' = Planner!Verdict(h)
  BY <1>1, VerdictKeeps DEF UniqueIds, Configs
<1>4. RequestInv'
  BY <1>1, <1>2, <1>3 DEF RequestInv
<1>5. {Planner!Verdict(h) : h \in ToSet(selected)}' = {Planner!Verdict(h) : h \in ToSet(selected)}
  BY <1>1, <1>3
<1>6. SelectedInv'
  BY <1>1, <1>2, <1>3, <1>5 DEF SelectedInv
<1>. QED
  BY <1>1, <1>2, <1>4, <1>6 DEF PlannerInv, Asking, Planner!Ended

-----------------------------------------------------------------------------
(* The invariant is inductive. *)

\* The packages whose names are chosen, as a list.
Named(list, names) == AtPositions(list, {i \in DOMAIN list : list[i].name \in names})

LEMMA NamedFound ==
    ASSUME NEW list, list \in Seq(ToSet(list)), NEW names
    PROVE  /\ Named(list, names) \in Seq(ToSet(list))
           /\ Len(Named(list, names)) \in Nat
           /\ DOMAIN Named(list, names) = 1..Len(Named(list, names))
           /\ ToSet(Named(list, names)) = {p \in ToSet(list) : p.name \in names}
<1> DEFINE places == {i \in DOMAIN list : list[i].name \in names}
           part == AtPositions(list, places)
<1>1. places \subseteq DOMAIN list
  OBVIOUS
<1>2. {list[i] : i \in places} = {p \in ToSet(list) : p.name \in names}
  BY DEF ToSet
<1> HIDE DEF places
<1>3. part \in Seq(ToSet(list)) /\ ToSet(part) = {list[i] : i \in places}
  BY <1>1, AtPositionsOf
<1>4. Len(part) \in Nat /\ DOMAIN part = 1..Len(part)
  BY <1>3, LenProperties
<1>. QED
  BY <1>2, <1>3, <1>4 DEF places, Named

LEMMA AffectedFound ==
    ASSUME PackagesInv
    PROVE  /\ Len(AffectedPackages) \in Nat /\ DOMAIN AffectedPackages = 1..Len(AffectedPackages)
           /\ ToSet(AffectedPackages) = {p \in ToSet(packages) : p.name \in affected}
           /\ \A i \in 1..Len(AffectedPackages) : AffectedPackages[i] \in ToSet(packages)
<1>1. /\ AffectedPackages \in Seq(ToSet(packages)) /\ Len(AffectedPackages) \in Nat
      /\ DOMAIN AffectedPackages = 1..Len(AffectedPackages)
      /\ ToSet(AffectedPackages) = {p \in ToSet(packages) : p.name \in affected}
  <2>1. packages \in Seq(ToSet(packages))
    BY DEF PackagesInv
  <2>2. AffectedPackages = Named(packages, affected)
    BY DEF AffectedPackages, Named
  <2>. QED
    BY <2>1, <2>2, NamedFound
<1>. QED
  BY <1>1, ElementOfSeq

\* What depends on the config and the packages stays as they do.
LEMMA CommandKeeps ==
    ASSUME UNCHANGED <<workspaceVars, invocation>>
    PROVE  /\ AffectedPackages' = AffectedPackages /\ FailFast' = FailFast
           /\ UniqueIds' = UniqueIds
<1>1. UNCHANGED <<tree, config, packages, affected, invocation>>
  BY DEF workspaceVars, spread
<1>. QED
  BY <1>1 DEF AffectedPackages, FailFast, GroupAsked, UniqueIds, Configs

LEMMA CommandInit == Init => CommandInv
<1> SUFFICES ASSUME Init PROVE CommandInv
  OBVIOUS
<1>1. WorkspaceInv
  BY WorkspaceInit
<1>2. /\ phase = "options" /\ turn = 0 /\ results = {} /\ stage = "idle" /\ verdicts = <<>>
      /\ selected = <<>>
  BY DEF Init
<1>3. PlannerInv
  BY <1>2, EmptySeq DEF PlannerInv, Asking
<1>4. TurnInv
  <2>1. Len(AffectedPackages) \in Nat
    BY <1>1, AffectedFound DEF WorkspaceInv
  <2>. QED
    BY <1>2, <2>1 DEF TurnInv
<1>5. ResultsInv /\ ReportInv
  BY <1>2 DEF ResultsInv, ReportInv, Chosen
<1>. QED
  BY <1>1, <1>3, <1>4, <1>5 DEF CommandInv

\* A step taken before the packages are chosen, the last such included.
LEMMA EarlyKeeps ==
    ASSUME CommandInv, WorkspaceInv', phase \notin Chosen, phase' \notin Chosen \ {"packages"},
           phase # "raised", UNCHANGED <<planningVars, tree, invocation, turn, results>>
    PROVE  CommandInv'
<1> USE DEF CommandInv
<1>1. PlannerInv'
  BY PlannerKeeps
<1>2. turn' = 0
  BY DEF TurnInv
<1>3. phase' = "packages" => invocation'.affected
  BY DEF WorkspaceInv, ModeInv
<1>4. TurnInv'
  <2>1. packages' \in Seq(ToSet(packages'))
    BY DEF WorkspaceInv, PackagesInv
  <2>2. Len(AffectedPackages') \in Nat
    BY <2>1, NamedFound DEF AffectedPackages, Named
  <2>3. turn' \in 0..Len(AffectedPackages')
    BY <1>2, <2>2
  <2>4. phase' \notin {"plan", "execute", "report", "reported"}
    BY DEF Chosen
  <2>. QED
    BY <1>2, <2>3, <2>4 DEF TurnInv
<1>5. ResultsInv'
  <2>1. \A i \in 1..turn' : FALSE
    BY <1>2
  <2>2. phase' \in Chosen => phase' = "packages"
    OBVIOUS
  <2>3. \A r \in results' : r.status \in Statuses
    BY DEF ResultsInv
  <2>4. ~invocation'.affected => results' = {}
    BY DEF ResultsInv, Chosen
  <2>5. phase' \notin {"report", "reported"}
    BY DEF Chosen
  <2>. QED
    BY <2>1, <2>2, <2>3, <2>4, <2>5 DEF ResultsInv
<1>6. ReportInv'
  BY DEF ReportInv, Chosen
<1>. QED
  BY <1>1, <1>4, <1>5, <1>6

LEMMA OptionsStep == CommandInv /\ Options => CommandInv'
<1> SUFFICES ASSUME CommandInv, Options PROVE CommandInv'
  OBVIOUS
<1>1. WorkspaceInv'
  BY OptionsKeeps DEF CommandInv
<1>2. /\ phase = "options" /\ phase' \in {"usage error", "no config", "load"}
      /\ UNCHANGED <<planningVars, tree, invocation, turn, results>>
  BY DEF Options
<1>. QED
  BY <1>1, <1>2, EarlyKeeps DEF Chosen

LEMMA LoadStep == CommandInv /\ Load => CommandInv'
<1> SUFFICES ASSUME CommandInv, Load PROVE CommandInv'
  OBVIOUS
<1>1. WorkspaceInv'
  BY LoadKeeps DEF CommandInv
<1>2. /\ phase = "load" /\ phase' \in {"config error", "begin", "discover", "changeset"}
      /\ UNCHANGED <<planningVars, tree, invocation, turn, results>>
  BY DEF Load, commandVars
<1>. QED
  BY <1>1, <1>2, EarlyKeeps DEF Chosen

LEMMA ChangesetStep == CommandInv /\ Changeset => CommandInv'
<1> SUFFICES ASSUME CommandInv, Changeset PROVE CommandInv'
  OBVIOUS
<1>1. WorkspaceInv'
  BY ChangesetKeeps DEF CommandInv
<1>2. /\ phase = "changeset" /\ phase' \in {"git error", "dependencies", "branch"}
      /\ UNCHANGED <<planningVars, tree, invocation, turn, results>>
  BY DEF Changeset, commandVars
<1>. QED
  BY <1>1, <1>2, EarlyKeeps DEF Chosen

LEMMA SelectingStep == CommandInv /\ Selecting /\ UNCHANGED <<commandVars, planningVars>> => CommandInv'
<1> SUFFICES ASSUME CommandInv, Selecting, UNCHANGED <<commandVars, planningVars>> PROVE CommandInv'
  OBVIOUS
<1>1. UNCHANGED <<planningVars, invocation, turn, results>>
  BY DEF commandVars
<1>2. WorkspaceInv'
  BY <1>1, DiscoverKeeps, ValidateKeeps, VisitNextStep, VisitDependencyStep, LeaveStep, SpreadStep
     DEF CommandInv, Selecting
<1>3. CASE DiscoverPackages
  <2>1. phase = "discover" /\ tree' = tree /\ phase' \in {"config error", "changeset"}
    BY <1>3 DEF DiscoverPackages
  <2>. QED
    BY <1>1, <1>2, <2>1, EarlyKeeps DEF Chosen
<1>4. CASE ValidateDeps
  <2>1. phase = "dependencies" /\ tree' = tree /\ phase' \in {"cycles", "unknown package"}
    BY <1>4 DEF ValidateDeps
  <2>. QED
    BY <1>1, <1>2, <2>1, EarlyKeeps DEF Chosen
<1>5. CASE VisitNext
  <2>1. phase = "cycles" /\ tree' = tree /\ phase' \in {"cycles", "spread", "raised"}
    BY <1>5 DEF VisitNext
  <2>. QED
    BY <1>1, <1>2, <2>1, EarlyKeeps DEF Chosen
<1>6. CASE VisitDependency
  <2>1. phase = "cycles" /\ tree' = tree /\ phase' \in {"cycles", "package cycle"}
    BY <1>6 DEF VisitDependency
  <2>. QED
    BY <1>1, <1>2, <2>1, EarlyKeeps DEF Chosen
<1>7. CASE Leave
  <2>1. phase = "cycles" /\ tree' = tree /\ phase' = "cycles"
    BY <1>7 DEF Leave
  <2>. QED
    BY <1>1, <1>2, <2>1, EarlyKeeps DEF Chosen
<1>8. CASE Spread
  <2>1. phase = "spread" /\ tree' = tree /\ phase' \in {"spread", "packages"}
    BY <1>8 DEF Spread
  <2>. QED
    BY <1>1, <1>2, <2>1, EarlyKeeps DEF Chosen
<1>. QED
  BY <1>3, <1>4, <1>5, <1>6, <1>7, <1>8 DEF Selecting

LEMMA BranchStep == CommandInv /\ Branch => CommandInv'
<1> SUFFICES ASSUME CommandInv, Branch PROVE CommandInv'
  OBVIOUS
<1>1. /\ phase = "branch" /\ phase' = "begin"
      /\ UNCHANGED <<workspaceVars, planningVars, tree, invocation, turn, results>>
  BY DEF Branch, workspaceVars
<1>2. WorkspaceInv'
  BY <1>1, WorkspaceKeeps DEF CommandInv
<1>. QED
  BY <1>1, <1>2, EarlyKeeps DEF Chosen

LEMMA BeginStep == CommandInv /\ Begin => CommandInv'
<1> SUFFICES ASSUME CommandInv, Begin PROVE CommandInv'
  OBVIOUS
<1> USE DEF CommandInv
<1>1. /\ phase = "begin" /\ UNCHANGED <<workspaceVars, tree, invocation, turn, results>>
      /\ StartPlan(config, invocation.group, branch, changed)
  BY DEF Begin, commandVars, workspaceVars
<1>2. ~invocation.affected /\ config \in Configs(tree)
  BY <1>1 DEF WorkspaceInv, ModeInv, ConfigInv
<1>3. UniqueIds => IdsDistinct(config.hooks)
  BY <1>2 DEF UniqueIds, IdsDistinct, IsInjective
<1>4. PlannerInv' /\ stage' = "select" /\ phase' = "plan"
  BY <1>1, <1>2, <1>3, ConfigFacts, StartKeeps DEF WorkspaceInv
<1>5. WorkspaceInv'
  BY <1>1, <1>4, WorkspaceKeeps DEF Chosen
<1>6. AffectedPackages' = AffectedPackages
  BY <1>1, CommandKeeps
<1>7. TurnInv'
  BY <1>1, <1>2, <1>4, <1>6 DEF TurnInv
<1>8. ResultsInv' /\ ReportInv'
  BY <1>1, <1>2, <1>4 DEF ResultsInv, ReportInv
<1>. QED
  BY <1>4, <1>5, <1>7, <1>8

LEMMA NextPackageStep == CommandInv /\ NextPackage => CommandInv'
<1> SUFFICES ASSUME CommandInv, NextPackage PROVE CommandInv'
  OBVIOUS
<1> USE DEF CommandInv
<1>1. phase = "packages" /\ UNCHANGED <<workspaceVars, tree, config, invocation, results>>
  BY DEF NextPackage, workspaceVars
<1>2. invocation.affected /\ config \in Configs(tree)
  BY <1>1 DEF WorkspaceInv, ModeInv, ConfigInv
<1>3. /\ AffectedPackages' = AffectedPackages /\ UniqueIds' = UniqueIds
      /\ Len(AffectedPackages) \in Nat /\ turn \in 0..Len(AffectedPackages)
  BY <1>1, CommandKeeps, AffectedFound DEF WorkspaceInv, TurnInv
<1>4. \A p : Served(p)' = Served(p)
  BY <1>1 DEF Served
<1>5. CASE turn < Len(AffectedPackages)
  <2> DEFINE own == AffectedPackages[turn + 1].config
             cfg == EffectiveConfig(config, own)
  <2>1. turn' = turn + 1 /\ StartPlan(cfg, None, None, None)
    BY <1>5 DEF NextPackage
  <2>2. own \in Configs(tree)
    BY <1>3, <1>5, AffectedFound DEF WorkspaceInv, PackagesInv
  <2>3. cfg.hooks \in Seq(ToSet(cfg.hooks))
    BY <1>2, <2>2, ConfigFacts, EffectiveHooks DEF WorkspaceInv
  <2> HIDE DEF cfg
  <2>4. /\ PlannerInv' /\ stage' = "select" /\ phase' = "plan"
        /\ request'.hooks = cfg.hooks /\ request'.group = None /\ context'.changed = None
    BY <1>1, <1>2, <2>1, <2>3, StartKeeps
  <2>5. WorkspaceInv'
    BY <1>1, <2>4, WorkspaceKeeps DEF Chosen
  <2>6. Effective' = cfg
    BY <1>1, <1>3, <2>1 DEF Effective, Package, cfg
  <2>7. turn' \in 1..Len(AffectedPackages) /\ turn' - 1 = turn
    BY <1>3, <1>5, <2>1
  <2>8. TurnInv'
    BY <1>1, <1>2, <1>3, <2>4, <2>6, <2>7 DEF TurnInv, Chosen
  <2>9. ResultsInv'
    BY <1>1, <1>2, <1>3, <1>4, <2>4, <2>7 DEF ResultsInv, Chosen
  <2>10. ReportInv'
    BY <2>4 DEF ReportInv
  <2>. QED
    BY <2>4, <2>5, <2>8, <2>9, <2>10
<1>6. CASE ~(turn < Len(AffectedPackages))
  <2>1. phase' = "report" /\ UNCHANGED <<turn, planningVars>>
    BY <1>6 DEF NextPackage
  <2>2. WorkspaceInv'
    BY <1>1, <2>1, WorkspaceKeeps DEF Chosen
  <2>3. PlannerInv'
    BY <1>1, <2>1, PlannerKeeps
  <2>4. turn = Len(AffectedPackages)
    BY <1>3, <1>6
  <2>5. TurnInv'
    BY <1>1, <1>2, <1>3, <2>1, <2>4 DEF TurnInv, Chosen
  <2>6. ResultsInv'
    BY <1>1, <1>2, <1>3, <1>4, <2>1 DEF ResultsInv, Chosen
  <2>7. ReportInv'
    BY <2>1 DEF ReportInv
  <2>. QED
    BY <2>2, <2>3, <2>5, <2>6, <2>7
<1>. QED
  BY <1>5, <1>6

\* A step that neither chooses a package nor adds a result.
LEMMA PlainKeeps ==
    ASSUME CommandInv, UNCHANGED <<workspaceVars, invocation, turn, results>>,
           phase \in {"plan"}, phase' \in {"plan", "plan error", "execute"}
    PROVE  /\ WorkspaceInv' /\ ReportInv' /\ ResultsInv'
           /\ AffectedPackages' = AffectedPackages /\ Package' = Package /\ Effective' = Effective
<1> USE DEF CommandInv
<1>1. UNCHANGED <<tree, config>>
  BY DEF workspaceVars
<1>2. WorkspaceInv'
  BY WorkspaceKeeps DEF Chosen
<1>3. AffectedPackages' = AffectedPackages /\ UniqueIds' = UniqueIds /\ \A p : Served(p)' = Served(p)
  BY CommandKeeps DEF Served
<1>4. Package' = Package
  BY <1>3 DEF Package
<1>5. ResultsInv'
  BY <1>3 DEF ResultsInv, Chosen
<1>. QED
  BY <1>1, <1>2, <1>3, <1>4, <1>5 DEF ReportInv, Effective

LEMMA PlanningStep == CommandInv /\ Planning => CommandInv'
<1> SUFFICES ASSUME CommandInv, Planning PROVE CommandInv'
  OBVIOUS
<1> USE DEF CommandInv
<1>1. /\ phase = "plan" /\ phase' = "plan"
      /\ UNCHANGED <<workspaceVars, tree, invocation, turn, results>>
  BY DEF Planning, commandVars, workspaceVars
<1>2. Planner!Select \/ Planner!Filter \/ Planner!CheckDependencies \/ Planner!Sort
  BY DEF Planning
<1>3. PlannerInv'
  BY <1>1, <1>2, SelectStep, FilterStep, SortStep
<1>4. UNCHANGED <<request, context>> /\ stage' # "idle"
  BY <1>1, <1>2 DEF Planner!Select, Planner!Filter, Planner!CheckDependencies, Planner!Sort
<1>5. TurnInv'
  BY <1>1, <1>4, PlainKeeps DEF TurnInv, Chosen
<1>. QED
  BY <1>1, <1>3, <1>5, PlainKeeps

LEMMA PlannedStep == CommandInv /\ Planned => CommandInv'
<1> SUFFICES ASSUME CommandInv, Planned PROVE CommandInv'
  OBVIOUS
<1> USE DEF CommandInv
<1>1. /\ phase = "plan" /\ phase' = IF stage = "planned" THEN "execute" ELSE "plan error"
      /\ UNCHANGED <<workspaceVars, planningVars, tree, invocation, turn, results>>
      /\ UNCHANGED <<request, context, stage>>
  BY DEF Planned, commandVars, workspaceVars, planningVars
<1>2. PlannerInv'
  BY <1>1, PlannerKeeps
<1>3. TurnInv'
  BY <1>1, PlainKeeps DEF TurnInv, Chosen
<1>. QED
  BY <1>1, <1>2, <1>3, PlainKeeps

\* No two of the hooks that run have one id.
OneEach == \A p, q \in Planner!Running : selected[p].id = selected[q].id => p = q

\* What the engine may return: the hooks that run, all of them or up to a failure.
LEMMA OutcomeFacts ==
    ASSUME NEW statuses \in Outcomes
    PROVE  /\ DOMAIN statuses \subseteq Planner!RunningIds
           /\ \A id \in DOMAIN statuses : statuses[id] \in Statuses
           /\ ~FailFast => DOMAIN statuses = Planner!RunningIds
           /\ OneEach /\ DOMAIN statuses # Planner!RunningIds =>
                 FailFast /\ \E id \in DOMAIN statuses : statuses[id] # "passed"
<1>1. PICK run \in Runs : statuses \in Returned(run)
  BY DEF Outcomes
<1>2. /\ DOMAIN run \subseteq Planner!Running
      /\ DOMAIN run # Planner!Running => FailFast /\ \E p \in DOMAIN run : run[p] # "passed"
  BY DEF Runs, MayReturn
<1>3. /\ DOMAIN statuses = {selected[p].id : p \in DOMAIN run}
      /\ \A id \in DOMAIN statuses : statuses[id] \in Statuses
      /\ \A id \in DOMAIN statuses : \E p \in DOMAIN run : selected[p].id = id /\ run[p] = statuses[id]
  BY <1>1 DEF Returned
<1>4. DOMAIN statuses \subseteq Planner!RunningIds
  BY <1>2, <1>3 DEF Planner!RunningIds
<1>5. DOMAIN run = Planner!Running => DOMAIN statuses = Planner!RunningIds
  BY <1>3 DEF Planner!RunningIds
<1>6. ASSUME OneEach, NEW p \in DOMAIN run, run[p] # "passed"
      PROVE  \E id \in DOMAIN statuses : statuses[id] # "passed"
  <2>1. PICK q \in DOMAIN run : selected[q].id = selected[p].id /\ run[q] = statuses[selected[p].id]
    BY <1>3
  <2>2. q = p
    BY <1>2, <1>6, <2>1 DEF OneEach
  <2>. QED
    BY <1>3, <1>6, <2>1, <2>2
<1>. QED
  BY <1>2, <1>3, <1>4, <1>5, <1>6

\* A result of a hook run says which hook, how it ended and where it ran.
LEMMA ResultFacts ==
    ASSUME NEW statuses
    PROVE  /\ \A r \in HookResults(statuses) :
                /\ r.hook \in DOMAIN statuses /\ r.status = statuses[r.hook]
                /\ r.cwd = IF invocation.affected THEN Package.path ELSE invocation.cwd
           /\ \A id \in DOMAIN statuses : \E r \in HookResults(statuses) : r.hook = id
<1> DEFINE here == IF invocation.affected THEN Package.path ELSE invocation.cwd
           name == IF invocation.affected THEN Package.name ELSE None
           result(id) == [package |-> name, hook |-> id, status |-> statuses[id], cwd |-> here,
                          files |-> FilesOf(Planner!RunningDefinition(id))]
<1>1. HookResults(statuses) = {result(id) : id \in DOMAIN statuses}
  BY DEF HookResults
<1>2. \A id : /\ result(id).hook = id /\ result(id).status = statuses[id]
              /\ result(id).cwd = here
  OBVIOUS
<1> HIDE DEF result
<1>. QED
  BY <1>1, <1>2

LEMMA ExecuteStep == CommandInv /\ Execute => CommandInv'
<1> SUFFICES ASSUME CommandInv, Execute PROVE CommandInv'
  OBVIOUS
<1> USE DEF CommandInv
<1>1. phase = "execute" /\ UNCHANGED <<workspaceVars, planningVars, tree, config, invocation, turn>>
  BY DEF Execute, workspaceVars
<1>2. UNCHANGED <<request, context, stage, selected, verdicts>> /\ stage = "planned"
  BY <1>1 DEF planningVars, TurnInv
<1>3. /\ AffectedPackages' = AffectedPackages /\ FailFast' = FailFast /\ UniqueIds' = UniqueIds
      /\ Planner!RunningIds' = Planner!RunningIds
  BY <1>1, <1>2, CommandKeeps DEF Planner!RunningIds, Planner!Running
<1>4. PlannerInv'
  BY <1>1, PlannerKeeps
<1>5. \/ phase' = "raised" /\ UNCHANGED results
      \/ /\ \E statuses \in Outcomes : results' = results \cup HookResults(statuses)
         /\ phase' = IF invocation.affected THEN "packages" ELSE "report"
  BY DEF Execute
<1>6. phase' \in {"raised", "packages", "report"}
  BY <1>5
<1>7. WorkspaceInv'
  BY <1>1, <1>5, WorkspaceKeeps DEF Chosen
<1>8. turn \in 0..Len(AffectedPackages) /\ Len(AffectedPackages) \in Nat
  BY AffectedFound DEF TurnInv, WorkspaceInv
<1>9. TurnInv'
  <2>1. phase' = "report" => ~invocation.affected
    BY <1>5
  <2>. QED
    BY <1>1, <1>3, <1>6, <1>8, <2>1 DEF TurnInv, Chosen
<1>10. ReportInv'
  BY <1>6 DEF ReportInv
<1>11. CASE phase' = "raised" /\ UNCHANGED results
  <2>1. \A p : Served(p)' = Served(p)
    BY <1>11 DEF Served
  <2>2. ResultsInv'
    BY <1>1, <1>3, <1>11, <2>1 DEF ResultsInv, Chosen
  <2>. QED
    BY <1>4, <1>7, <1>9, <1>10, <2>2
<1>12. ASSUME NEW statuses \in Outcomes, results' = results \cup HookResults(statuses),
              phase' = IF invocation.affected THEN "packages" ELSE "report"
       PROVE  ResultsInv'
  <2>1. \A r \in results' : r.status \in Statuses
    BY <1>12, OutcomeFacts, ResultFacts DEF ResultsInv
  <2>2. CASE ~invocation.affected
    <3>1. results' = HookResults(statuses) /\ phase' = "report"
      BY <1>1, <1>12, <2>2 DEF ResultsInv
    <3>2. Executed' = DOMAIN statuses
      <4>1. {r.hook : r \in HookResults(statuses)} = DOMAIN statuses
        BY ResultFacts
      <4>. QED
        BY <3>1, <4>1 DEF Executed
    <3>3. UniqueIds /\ DOMAIN statuses # Planner!RunningIds =>
             FailFast /\ \E r \in results' : r.status # "passed"
      <4>1. ASSUME NEW id \in DOMAIN statuses, statuses[id] # "passed"
            PROVE  \E r \in results' : r.status # "passed"
        BY <3>1, <4>1, ResultFacts
      <4>2. ASSUME UniqueIds PROVE OneEach
        <5>1. IdsDistinct(selected) /\ SelectedInv /\ Len(verdicts) = Len(selected)
          BY <1>2, <2>2, <4>2 DEF PlannerInv, Asking, SelectedInv
        <5>2. DOMAIN verdicts = DOMAIN selected
          BY <5>1, LenProperties DEF SelectedInv
        <5>. QED
          BY <5>1, <5>2 DEF OneEach, IdsDistinct, Planner!Running
      <4>. QED
        BY <4>1, <4>2, OutcomeFacts
    <3>4. \A r \in results' : r.cwd = invocation.cwd
      BY <2>2, <3>1, ResultFacts
    <3>. QED
      BY <1>1, <1>2, <1>3, <2>1, <2>2, <3>1, <3>2, <3>3, <3>4, OutcomeFacts DEF ResultsInv
  <2>3. CASE invocation.affected
    <3>1. phase' = "packages" /\ DOMAIN statuses = Planner!RunningIds
      BY <1>12, <2>3, OutcomeFacts DEF FailFast, GroupAsked
    <3>2. \A p : Served(p) => Served(p)'
      BY <1>12 DEF Served
    <3>3. /\ turn >= 1 /\ request.hooks = Effective.hooks /\ request.group = None
          /\ context.changed = None
      BY <1>1, <2>3 DEF TurnInv
    <3>4. ASSUME UniqueIds PROVE Served(Package)'
      <4>1. Package = AffectedPackages[turn] /\ turn \in 1..Len(AffectedPackages)
        BY <1>8, <3>3 DEF Package
      <4>2. Package.config \in Configs(tree) /\ config \in Configs(tree)
        BY <1>1, <4>1, AffectedFound DEF WorkspaceInv, PackagesInv, ConfigInv
      <4>3. IsInjective([p \in DOMAIN Package.config.hooks |-> Package.config.hooks[p].id])
        BY <3>4, <4>2 DEF UniqueIds
      <4>4. ToSet(Package.config.hooks) \subseteq ToSet(request.hooks)
        BY <3>3, <4>2, <4>3, ConfigFacts, EffectiveHooks DEF WorkspaceInv, Effective
      <4>5. ASSUME NEW h \in ToSet(Package.config.hooks), Unconditional(h)
            PROVE  \E r \in results' : r.hook = h.id /\ r.cwd = Package.path
        <5>1. h.id \in DOMAIN statuses
          BY <1>2, <3>1, <3>3, <4>4, <4>5, UnconditionalRuns
        <5>2. PICK r \in HookResults(statuses) : r.hook = h.id
          BY <5>1, ResultFacts
        <5>3. r.cwd = Package.path
          BY <2>3, ResultFacts
        <5>. QED
          BY <1>12, <5>2, <5>3
      <4>6. Package' = Package /\ \A h : Unconditional(h)' = Unconditional(h)
        BY <1>1, <1>3 DEF Package, Unconditional, Planner!NoConditions
      <4> DEFINE p == Package
      <4>7. PICK q : q = Package
        OBVIOUS
      <4>8. Served(q)'
        BY <4>5, <4>6, <4>7 DEF Served
      <4>. QED
        BY <4>6, <4>7, <4>8 DEF Served
    <3>5. ASSUME UniqueIds, NEW i \in 1..turn PROVE Served(AffectedPackages[i])'
      <4>1. CASE i = turn
        <5>1. Package' = AffectedPackages[i]'
          BY <1>1, <4>1 DEF Package
        <5>. QED
          BY <3>4, <3>5, <5>1 DEF Served
      <4>2. CASE i # turn
        <5>1. i \in 1..(turn - 1)
          BY <1>8, <4>2
        <5>2. Served(AffectedPackages[i])
          BY <1>1, <2>3, <3>5, <5>1 DEF ResultsInv, Chosen
        <5>3. PICK q : q = AffectedPackages[i]
          OBVIOUS
        <5>4. Served(q)'
          BY <3>2, <5>2, <5>3
        <5>. QED
          BY <1>3, <5>3, <5>4 DEF Served
      <4>. QED
        BY <4>1, <4>2
    <3>. QED
      BY <1>1, <1>3, <2>1, <2>3, <3>1, <3>5 DEF ResultsInv
  <2>. QED
    BY <2>2, <2>3
<1>. QED
  BY <1>4, <1>5, <1>7, <1>9, <1>10, <1>11, <1>12

LEMMA ReportStep == CommandInv /\ Report => CommandInv'
<1> SUFFICES ASSUME CommandInv, Report PROVE CommandInv'
  OBVIOUS
<1> USE DEF CommandInv
<1>1. /\ phase = "report" /\ phase' = "reported"
      /\ UNCHANGED <<workspaceVars, planningVars, tree, invocation, turn, results>>
      /\ UNCHANGED <<stage, selected, verdicts>>
  BY DEF Report, workspaceVars, planningVars
<1>2. PlannerInv' /\ WorkspaceInv'
  BY <1>1, PlannerKeeps, WorkspaceKeeps DEF Chosen
<1>3. /\ AffectedPackages' = AffectedPackages /\ FailFast' = FailFast /\ UniqueIds' = UniqueIds
      /\ Planner!RunningIds' = Planner!RunningIds /\ Executed' = Executed
      /\ \A p : Served(p)' = Served(p)
  BY <1>1, CommandKeeps DEF Planner!RunningIds, Planner!Running, Executed, Served
<1>4. TurnInv'
  BY <1>1, <1>3 DEF TurnInv, Chosen
<1>5. ResultsInv'
  BY <1>1, <1>3 DEF ResultsInv, Chosen
<1>6. Skipped' = Skipped /\ NotRun' = NotRun
  BY <1>1, <1>3 DEF Skipped, NotRun
<1>7. report' = IF invocation.affected
                THEN [results |-> results, skipped |-> {}, notRun |-> {}]
                ELSE [results |-> results, skipped |-> Skipped, notRun |-> NotRun]
  BY DEF Report
<1>8. ReportInv'
  BY <1>1, <1>6, <1>7 DEF ReportInv
<1>. QED
  BY <1>2, <1>4, <1>5, <1>8

LEMMA CommandStep == CommandInv /\ [Next]_vars => CommandInv'
<1> SUFFICES ASSUME CommandInv, [Next]_vars PROVE CommandInv'
  OBVIOUS
<1>1. CASE UNCHANGED vars
  <2> USE DEF CommandInv
  <2>1. UNCHANGED <<phase, workspaceVars, tree, invocation, turn, results, report, planningVars>>
    BY <1>1 DEF vars, workspaceVars, commandVars
  <2>2. UNCHANGED <<config, request, context, stage, selected, verdicts>>
    BY <2>1 DEF workspaceVars, planningVars
  <2>3. WorkspaceInv' /\ PlannerInv'
    BY <2>1, WorkspaceKeeps, PlannerKeeps DEF WorkspaceInv, ModeInv
  <2>4. /\ AffectedPackages' = AffectedPackages /\ FailFast' = FailFast /\ UniqueIds' = UniqueIds
        /\ Planner!RunningIds' = Planner!RunningIds /\ Executed' = Executed
        /\ \A p : Served(p)' = Served(p)
    BY <2>1, <2>2, CommandKeeps DEF Planner!RunningIds, Planner!Running, Executed, Served
  <2>5. Package' = Package
    BY <2>1, <2>4 DEF Package
  <2>6. Effective' = Effective
    BY <2>2, <2>5 DEF Effective
  <2>7. TurnInv'
    BY <2>1, <2>2, <2>4, <2>6 DEF TurnInv
  <2>8. ResultsInv'
    BY <2>1, <2>2, <2>4 DEF ResultsInv
  <2>9. ReportInv'
    BY <2>1, <2>2, <2>4 DEF ReportInv, Skipped, NotRun
  <2>. QED
    BY <2>3, <2>7, <2>8, <2>9
<1>2. CASE Ended
  BY <1>1, <1>2 DEF Ended
<1>. QED
  BY <1>1, <1>2, OptionsStep, LoadStep, SelectingStep, ChangesetStep, BranchStep, BeginStep,
     NextPackageStep, PlanningStep, PlannedStep, ExecuteStep, ReportStep DEF Next

\* What the invariant says is true of every run of the command.
THEOREM CommandInvariant == Spec => []CommandInv
BY CommandInit, CommandStep, PTL DEF Spec

-----------------------------------------------------------------------------
(* What is true of every run. *)

(***************************************************************************)
(* The variables keep their types: the config is one that was found, the   *)
(* packages are in the tree, and what is visited, done, on the stack or    *)
(* affected are names of packages.                                         *)
(***************************************************************************)
THEOREM RunTypeCorrect == Spec => []TypeOK
<1>1. CommandInv => TypeOK
  <2> SUFFICES ASSUME CommandInv PROVE TypeOK
    OBVIOUS
  <2> USE DEF CommandInv, WorkspaceInv
  <2>1. done \subseteq Names /\ visiting \cap done = {} /\ visiting = {walk[i].name : i \in DOMAIN walk}
    BY DEF SearchInv, WalkInv
  <2>2. visiting \subseteq Names
    BY <2>1, WalkFacts DEF SearchInv
  <2>3. affected \subseteq Names /\ ToSet(stack) \subseteq Names
    <3>1. CASE stack = <<>> /\ affected = {}
      BY <3>1 DEF ToSet
    <3>2. CASE ReachInv
      <4>1. affected \subseteq Names /\ stack \in Seq(Names)
        BY <3>2 DEF ReachInv
      <4>. QED
        BY <4>1, ElementOfSeq, LenProperties DEF ToSet
    <3>3. CASE stack = <<>> /\ affected \subseteq Names
      BY <3>3 DEF ToSet
    <3>4. CASE phase \in Chosen \cup {"raised"}
      BY <3>3, <3>4 DEF SpreadInv
    <3>5. CASE phase \notin Chosen \cup {"raised", "spread"}
      BY <3>1, <3>5 DEF SpreadInv
    <3>6. CASE phase = "spread"
      <4>1. invocation.affected
        BY <3>6 DEF ModeInv
      <4>. QED
        BY <3>2, <3>6, <4>1 DEF SpreadInv
    <3>. QED
      BY <3>4, <3>5, <3>6
  <2>4. /\ phase \in Phases
        /\ configDir # None => configDir \in DOMAIN tree.checkToml \cup DOMAIN tree.pyproject
        /\ \A p \in ToSet(packages) : p.path \in ToSet(tree.dirs) /\ p.config \in Configs(tree)
    BY DEF ModeInv, ConfigInv, Places, PackagesInv
  <2>5. turn \in 0..Len(AffectedPackages) /\ \A r \in results : r.status \in Statuses
    BY DEF TurnInv, ResultsInv
  <2>. QED
    BY <2>1, <2>2, <2>3, <2>4, <2>5 DEF TypeOK
<1>. QED
  BY <1>1, CommandInvariant, PTL

\* With unique names, the depends-on that counts for a name is that of its package.
LEMMA UniqueMeans ==
    ASSUME CaseInv, PackagesInv, UniqueNames, NEW p \in ToSet(packages)
    PROVE  p.name \in Names /\ DepSet(p.name) = DependOn(p)
<1> DEFINE f == [i \in 1..Len(packages) |-> packages[i].name]
<1>1. PackagesListed /\ Len(packages) \in Nat /\ DOMAIN packages = 1..Len(packages)
  BY PackagesAreListed, LenProperties DEF PackagesInv
<1>2. f \in Surjection(1..Len(packages), Names)
  BY <1>1 DEF Surjection, Names
<1> HIDE DEF f
<1>3. IsFiniteSet(1..Len(packages)) /\ Cardinality(1..Len(packages)) = Len(packages)
  <2>1. \A n \in Nat : IsFiniteSet(1..n) /\ Cardinality(1..n) = n
    BY FS_Interval
  <2>. QED
    BY <1>1, <2>1
<1>4. f \in Injection(1..Len(packages), Names)
  BY <1>2, <1>3, FS_Surjection DEF UniqueNames
<1>5. PICK i \in 1..Len(packages) : packages[i] = p
  BY <1>1 DEF ToSet
<1>6. p.name \in Names
  BY <1>1, <1>5 DEF Names
<1>7. /\ LastNamed(p.name) \in 1..Len(packages) /\ packages[LastNamed(p.name)].name = p.name
      /\ Deps(p.name) = DeclaredDeps(packages[LastNamed(p.name)])
  BY <1>1, <1>6, DepsFound
<1>8. LastNamed(p.name) = i
  BY <1>4, <1>5, <1>7 DEF Injection, IsInjective, f
<1>9. ToSet(DeclaredDeps(p)) = DependOn(p)
  BY DEF DeclaredDeps, DependOn, ToSet
<1>. QED
  BY <1>5, <1>6, <1>7, <1>8, <1>9 DEF DepSet

(***************************************************************************)
(* With --affected exactly the packages are chosen that a change reaches:  *)
(* the least set that holds those with a changed file (all, if a shared    *)
(* file changed) and the dependents of its members; and the command gives  *)
(* up on a cycle exactly when the packages have one.                       *)
(***************************************************************************)
THEOREM AffectedAlwaysExactly == Spec => []AffectedExactly
<1>1. CommandInv => AffectedExactly
  <2> SUFFICES ASSUME CommandInv, UniqueNames
               PROVE  /\ phase = "package cycle" =>
                            \E S \in (SUBSET Names) \ {{}} :
                                \A p \in ToSet(packages) : p.name \in S => DependOn(p) \cap S # {}
                      /\ phase = "packages" =>
                            /\ \A S \in (SUBSET Names) \ {{}} :
                                  \E p \in ToSet(packages) : p.name \in S /\ DependOn(p) \cap S = {}
                            /\ ClosedUnderDependents(affected)
                            /\ \A S \in SUBSET affected : ClosedUnderDependents(S) => S = affected
    BY DEF AffectedExactly
  <2> USE DEF CommandInv, WorkspaceInv
  <2>1. \A p \in ToSet(packages) : p.name \in Names /\ DepSet(p.name) = DependOn(p)
    BY UniqueMeans
  <2>2. \A name \in Names : \E p \in ToSet(packages) : p.name = name
    BY DEF Names, ToSet
  <2>3. CASE phase = "package cycle"
    <3>1. PICK T \in SUBSET Names : CycleAmong(T)
      BY <2>3 DEF SearchInv
    <3>2. T \in (SUBSET Names) \ {{}} /\ \A name \in T : DepSet(name) \cap T # {}
      BY <3>1 DEF CycleAmong
    <3>3. \A p \in ToSet(packages) : p.name \in T => DependOn(p) \cap T # {}
      BY <2>1, <3>2
    <3> HIDE DEF CommandInv
    <3>. QED
      BY <2>3, <3>2, <3>3
  <2>4. CASE phase = "packages"
    <3>1. ReachInv /\ Names \subseteq done /\ stack = <<>> /\ Acyclic(done)
      BY <2>4 DEF SpreadInv, Chosen, ModeInv, SearchInv, DoneInv
    <3>2. Reached = affected
      BY <3>1 DEF Reached, ToSet
    <3>3. ASSUME NEW S \in (SUBSET Names) \ {{}}
          PROVE  \E p \in ToSet(packages) : p.name \in S /\ DependOn(p) \cap S = {}
      <4>1. PICK name \in S : DepSet(name) \cap S = {}
        BY <3>1 DEF Acyclic
      <4>2. PICK p \in ToSet(packages) : p.name = name
        BY <2>2, <4>1
      <4>. QED
        BY <2>1, <4>1, <4>2
    <3>4. /\ \A p \in ToSet(packages) : Shared \/ Touched(p) => p.name \in Seeds
          /\ \A m \in Seeds : Shared \/ \E p \in ToSet(packages) : p.name = m /\ Touched(p)
      <4>1. Shared <=> HasRootChange
        BY DEF Shared, HasRootChange, IsUnder, PackageRel
      <4>2. \A p : Touched(p) <=> \E f \in changed : IsUnder(f, PackageRel(p))
        BY DEF Touched, IsUnder, PackageRel
      <4>3. DirectlyChanged = {p.name : p \in {q \in ToSet(packages) : Touched(q)}}
        BY <4>2 DEF DirectlyChanged
      <4>. QED
        BY <2>1, <4>1, <4>3 DEF Seeds
    <3>5. ClosedUnderDependents(affected)
      <4> SUFFICES ASSUME NEW p \in ToSet(packages),
                          Shared \/ Touched(p) \/ DependOn(p) \cap affected # {}
                   PROVE  p.name \in affected
        BY DEF ClosedUnderDependents
      <4>1. Shared \/ Touched(p) => p.name \in Seeds
        BY <3>4
      <4>2. Seeds \subseteq affected
        BY <3>1, <3>2 DEF ReachInv
      <4>3. DepSet(p.name) \cap affected # {} => p.name \in affected
        BY <2>1, <3>1, <3>2 DEF ReachInv
      <4>. QED
        BY <2>1, <4>1, <4>2, <4>3
    <3>6. ASSUME NEW S \in SUBSET affected, ClosedUnderDependents(S) PROVE S = affected
      <4>1. S \in SUBSET Names
        BY <3>1 DEF ReachInv
      <4>2. Seeds \subseteq S
        <5> SUFFICES ASSUME NEW m \in Seeds PROVE m \in S
          OBVIOUS
        <5>1. CASE Shared
          <6>1. m \in Names
            BY PackagesAreListed, NamesFinite
          <6>. QED
            BY <2>2, <3>6, <5>1, <6>1 DEF ClosedUnderDependents
        <5>2. CASE ~Shared
          BY <3>4, <3>6, <5>2 DEF ClosedUnderDependents
        <5>. QED
          BY <5>1, <5>2
      <4>3. \A m \in Names : DepSet(m) \cap S # {} => m \in S
        BY <2>1, <2>2, <3>6 DEF ClosedUnderDependents
      <4>4. Closed(S)
        BY <4>2, <4>3 DEF Closed
      <4>. QED
        BY <3>1, <3>2, <4>1, <4>4 DEF ReachInv
    <3>. QED
      BY <2>4, <3>3, <3>5, <3>6
  <2>. QED
    BY <2>3, <2>4
<1>. QED
  BY <1>1, CommandInvariant, PTL

LEMMA DisjointUnion ==
    ASSUME NEW S, IsFiniteSet(S), NEW T, IsFiniteSet(T), S \cap T = {}
    PROVE  Cardinality(S \cup T) = Cardinality(S) + Cardinality(T)
<1>1. /\ Cardinality(S \cup T) = Cardinality(S) + Cardinality(T) - Cardinality(S \cap T)
      /\ Cardinality(S \cap T) = 0
  BY FS_Union, FS_EmptySet
<1>2. Cardinality(S) \in Nat /\ Cardinality(T) \in Nat
  BY FS_CardinalityType
<1>. QED
  BY <1>1, <1>2

\* Of hooks with distinct ids there are as many as there are ids.
LEMMA DistinctIds ==
    ASSUME NEW hooks, hooks \in Seq(ToSet(hooks)), IdsDistinct(hooks)
    PROVE  IsFiniteSet(IdsOf(hooks)) /\ Cardinality(IdsOf(hooks)) = Len(hooks)
<1> DEFINE f == [i \in 1..Len(hooks) |-> hooks[i].id]
<1>1. Len(hooks) \in Nat /\ DOMAIN hooks = 1..Len(hooks)
  BY LenProperties
<1>2. f \in Surjection(1..Len(hooks), IdsOf(hooks))
  BY <1>1 DEF Surjection, IdsOf
<1>3. f \in Injection(1..Len(hooks), IdsOf(hooks))
  BY <1>1, <1>2 DEF Injection, IsInjective, IdsDistinct, IdsOf
<1>4. IsFiniteSet(1..Len(hooks)) /\ Cardinality(1..Len(hooks)) = Len(hooks)
  BY <1>1, FS_Interval
<1>. QED
  BY <1>2, <1>3, <1>4, FS_Surjection

(***************************************************************************)
(* The report leaves no hook out and counts none twice: each selected hook *)
(* ran, was skipped by its conditions, or was not run for a failure in a   *)
(* fail-fast group.                                                        *)
(***************************************************************************)
THEOREM EveryHookAlwaysAccountedFor == Spec => []EveryHookAccountedFor
<1>1. CommandInv => EveryHookAccountedFor
  <2> DEFINE ran == {r.hook : r \in report.results}
  <2> SUFFICES ASSUME CommandInv, UniqueIds, phase = "reported", ~invocation.affected
               PROVE  /\ ran \cup report.skipped \cup report.notRun = IdsOf(selected)
                      /\ Cardinality(ran) + Cardinality(report.skipped) + Cardinality(report.notRun)
                           = Len(selected)
                      /\ report.notRun # {} => FailFast /\ \E r \in report.results : r.status # "passed"
    BY DEF EveryHookAccountedFor
  <2> USE DEF CommandInv
  <2>1. report.results = results /\ report.skipped = Skipped /\ report.notRun = NotRun
    BY DEF ReportInv
  <2>2. /\ stage = "planned" /\ Executed \subseteq Planner!RunningIds
        /\ Executed # Planner!RunningIds => FailFast /\ \E r \in results : r.status # "passed"
    BY DEF ResultsInv
  <2>3. SelectedInv /\ RequestInv /\ Len(verdicts) = Len(selected)
    BY <2>2 DEF PlannerInv, Asking
  <2>4. ran = Executed
    BY <2>1 DEF Executed
  <2> HIDE DEF ran
  <2>5. selected \in Seq(ToSet(selected)) /\ IdsDistinct(selected)
    <3>1. selected \in Seq(ToSet(request.hooks)) /\ IdsDistinct(selected)
      BY <2>3 DEF SelectedInv
    <3>. QED
      BY <3>1, LenProperties DEF ToSet
  <2>6. DOMAIN verdicts = DOMAIN selected
    BY <2>3, <2>5, LenProperties DEF SelectedInv
  <2>7. IdsOf(selected) = Planner!RunningIds \cup Skipped
    BY <2>6 DEF IdsOf, Planner!RunningIds, Planner!Running, Skipped
  <2>8. Planner!RunningIds \cap Skipped = {}
    BY <2>5, <2>6 DEF Planner!RunningIds, Planner!Running, Skipped, IdsDistinct
  <2>9. NotRun = Planner!RunningIds \ Executed
    BY DEF NotRun
  <2>10. IsFiniteSet(IdsOf(selected)) /\ Cardinality(IdsOf(selected)) = Len(selected)
    BY <2>5, DistinctIds
  <2>11. Cardinality(Executed) + Cardinality(Skipped) + Cardinality(NotRun) = Len(selected)
    <3>1. /\ IsFiniteSet(Executed) /\ IsFiniteSet(Skipped) /\ IsFiniteSet(NotRun)
          /\ IsFiniteSet(Executed \cup Skipped)
      BY <2>2, <2>7, <2>9, <2>10, FS_Subset
    <3>2. Cardinality(Executed \cup Skipped) = Cardinality(Executed) + Cardinality(Skipped)
      <4>1. Executed \cap Skipped = {}
        BY <2>2, <2>8
      <4>. QED
        BY <3>1, <4>1, DisjointUnion
    <3>3. Cardinality((Executed \cup Skipped) \cup NotRun)
            = Cardinality(Executed \cup Skipped) + Cardinality(NotRun)
      <4>1. (Executed \cup Skipped) \cap NotRun = {}
        BY <2>8, <2>9
      <4>. QED
        BY <3>1, <4>1, DisjointUnion
    <3>4. (Executed \cup Skipped) \cup NotRun = IdsOf(selected)
      BY <2>2, <2>7, <2>9
    <3>. QED
      BY <2>10, <3>2, <3>3, <3>4
  <2>. QED
    BY <2>1, <2>2, <2>4, <2>7, <2>9, <2>11
<1>. QED
  BY <1>1, CommandInvariant, PTL

(***************************************************************************)
(* The gate is honest: it opens only if every hook that was not skipped    *)
(* passed, and with --affected only if in each package with a changed file *)
(* each unconditional hook passed there.                                   *)
(***************************************************************************)
THEOREM GateOpensOnlyIfPassed == Spec => []OpenOnlyIfPassed
<1>1. CommandInv => OpenOnlyIfPassed
  <2> SUFFICES ASSUME CommandInv, UniqueIds, phase = "reported", ExitCode = 0
               PROVE  IF invocation.affected
                      THEN \A p \in ToSet(packages) :
                              (\E f \in changed : IsUnder(f, RelativeTo(p.path, configDir))) =>
                                  \A h \in Range(p.config.hooks) : Unconditional(h) => PassedIn(h, p.path)
                      ELSE \A h \in Range(selected) :
                              h.id \notin report.skipped => PassedIn(h, invocation.cwd)
    BY DEF OpenOnlyIfPassed
  <2> USE DEF CommandInv
  <2>1. report.results = results
    BY DEF ReportInv
  <2>2. \A r \in results : r.status = "passed"
    BY <2>1 DEF ExitCode, ReportExitCode, ResultsInv, Statuses
  <2>3. ASSUME invocation.affected, NEW p \in ToSet(packages),
               \E f \in changed : IsUnder(f, RelativeTo(p.path, configDir)),
               NEW h \in Range(p.config.hooks), Unconditional(h)
        PROVE  PassedIn(h, p.path)
    <3>1. ReachInv /\ stack = <<>> /\ turn = Len(AffectedPackages)
      BY <2>3 DEF WorkspaceInv, SpreadInv, Chosen, TurnInv
    <3>2. p.name \in Names /\ p.name \in DirectlyChanged
      BY <2>3 DEF Names, ToSet, DirectlyChanged, PackageRel
    <3>3. p.name \in affected
      BY <3>1, <3>2 DEF ReachInv, Reached, Seeds, ToSet
    <3>4. p \in ToSet(AffectedPackages) /\ DOMAIN AffectedPackages = 1..Len(AffectedPackages)
      BY <3>3, AffectedFound DEF WorkspaceInv
    <3>5. PICK i \in 1..Len(AffectedPackages) : AffectedPackages[i] = p
      BY <3>4 DEF ToSet
    <3>6. Served(p)
      BY <2>3, <3>1, <3>5 DEF ResultsInv, Chosen
    <3>7. h \in ToSet(p.config.hooks)
      BY <2>3 DEF Range, ToSet
    <3>. QED
      BY <2>1, <2>2, <2>3, <3>6, <3>7 DEF Served, PassedIn
  <2>4. ASSUME ~invocation.affected, NEW h \in Range(selected), h.id \notin report.skipped
        PROVE  PassedIn(h, invocation.cwd)
    <3>1. /\ report.skipped = Skipped /\ stage = "planned" /\ Executed = Planner!RunningIds
          /\ \A r \in results : r.cwd = invocation.cwd
      BY <2>2, <2>4 DEF ReportInv, ResultsInv
    <3>2. SelectedInv /\ Len(verdicts) = Len(selected)
      BY <3>1 DEF PlannerInv, Asking
    <3>3. PICK p \in DOMAIN selected : selected[p] = h
      BY <2>4 DEF Range
    <3>4. p \in DOMAIN verdicts
      BY <3>2, <3>3, LenProperties DEF SelectedInv
    <3>5. h.id \in Planner!RunningIds
      BY <2>4, <3>1, <3>3, <3>4 DEF Skipped, Planner!RunningIds, Planner!Running
    <3>. QED
      BY <2>1, <2>2, <3>1, <3>5 DEF Executed, PassedIn
  <2>. QED
    BY <2>3, <2>4
<1>. QED
  BY <1>1, CommandInvariant, PTL

-----------------------------------------------------------------------------
(* What a hook is given to look at. *)

\* The files below a directory, named from there.
Below(dir) ==
    LET rel == RelativeTo(dir, configDir)
    IN  {RelativeTo(f, rel) : f \in {g \in changed : IsUnder(g, rel)}}

\* A hook is given those of its globs, among the changed files below the package it runs in.
Sees(r) ==
    /\ r.files = FilesForHook(HookOf(r), IF invocation.affected THEN Below(r.cwd) ELSE changed, None)
    /\ IF invocation.affected THEN r.cwd \in ToSet(tree.dirs) /\ IsUnder(r.cwd, configDir)
       ELSE r.cwd = invocation.cwd

\* The phases in which nothing is known of what has changed.
Unchanged == Unread \cup {"changeset", "usage error", "no config", "config error", "git error"}

SightInv ==
    /\ \A p, q \in ToSet(packages) : p.path = q.path => p = q
    /\ phase \notin Unchanged /\ ~invocation.commitMsg => \A f \in changed : f \in Seq(ToSet(f))
    /\ phase \notin Chosen \cup {"raised"} => results = {}
    /\ phase \in {"plan", "execute"} /\ ~invocation.affected => request.hooks = config.hooks
    /\ UniqueIds /\ ~invocation.commitMsg => \A r \in results : Sees(r)

\* Of hooks with distinct ids one carries a given id.
LEMMA OneOfId ==
    ASSUME NEW hooks, IdsDistinct(hooks), NEW g \in ToSet(hooks), NEW h \in ToSet(hooks), g.id = h.id
    PROVE  g = h
BY DEF IdsDistinct, ToSet

\* The hooks of a package have distinct ids when those of both configs do.
LEMMA EffectiveDistinct ==
    ASSUME NEW root, root.hooks \in Seq(ToSet(root.hooks)), IdsDistinct(root.hooks),
           NEW own, own.hooks \in Seq(ToSet(own.hooks)), "hooks" \in DOMAIN own, IdsDistinct(own.hooks)
    PROVE  IdsDistinct(EffectiveConfig(root, own).hooks)
<1>1. CASE InheritMode(root, own) # "merge"
  <2>1. EffectiveConfig(root, own) = [own EXCEPT !.workspace = None]
    BY <1>1 DEF EffectiveConfig
  <2>2. EffectiveConfig(root, own).hooks = own.hooks
    BY <2>1
  <2>. QED
    BY <2>2
<1>2. CASE InheritMode(root, own) = "merge"
  <2> DEFINE rootIds == [i \in DOMAIN root.hooks |-> root.hooks[i].id]
             ownIds == [i \in DOMAIN own.hooks |-> own.hooks[i].id]
             new == {p \in DOMAIN own.hooks : own.hooks[p].id \notin IdsOf(root.hooks)}
             part == AtPositions(ownIds, new)
             mentions == FirstMentions(part)
             order == rootIds \o mentions
             all == root.hooks \o own.hooks
             T == IdsOf(root.hooks) \cup IdsOf(own.hooks)
             merged == [i \in DOMAIN order |-> Definition(all, order[i])]
  <2>1. EffectiveConfig(root, own).hooks = merged
    BY <1>2 DEF EffectiveConfig, MergeHooks
  <2>2. /\ rootIds \in Seq(IdsOf(root.hooks)) /\ Len(rootIds) \in Nat /\ DOMAIN rootIds = 1..Len(rootIds)
        /\ ownIds \in Seq(IdsOf(own.hooks)) /\ DOMAIN ownIds = DOMAIN own.hooks
    BY IdList, LenProperties
  <2>3. \A i, j \in 1..Len(rootIds) : rootIds[i] = rootIds[j] => i = j
    BY <2>2 DEF IdsDistinct
  <2>4. \A p \in new : ownIds[p] = own.hooks[p].id /\ ownIds[p] \notin IdsOf(root.hooks)
    OBVIOUS
  <2>5. new \subseteq DOMAIN ownIds
    BY <2>2
  <2> HIDE DEF rootIds, ownIds, new
  <2>6. part \in Seq(IdsOf(own.hooks)) /\ ToSet(part) = {ownIds[p] : p \in new}
    BY <2>2, <2>5, AtPositionsOf
  <2> HIDE DEF part
  <2>7. mentions \in Seq(ToSet(part)) /\ IsInjective(mentions)
    BY <2>6, FirstMentionsOnce
  <2>8. ToSet(part) \subseteq T /\ ToSet(part) \cap IdsOf(root.hooks) = {}
    <3>1. ToSet(part) \subseteq IdsOf(own.hooks)
      BY <2>6, LenProperties, ElementOfSeq DEF ToSet
    <3>. QED
      BY <2>4, <2>6, <3>1
  <2> HIDE DEF mentions
  <2>9. rootIds \in Seq(T) /\ mentions \in Seq(T)
    BY <2>2, <2>7, <2>8, SeqMonotonic
  <2>10. Len(mentions) \in Nat /\ DOMAIN mentions = 1..Len(mentions)
    BY <2>9, LenProperties
  <2>11. /\ \A i \in 1..Len(rootIds) : rootIds[i] \in IdsOf(root.hooks)
         /\ \A i \in 1..Len(mentions) : mentions[i] \notin IdsOf(root.hooks)
    <3>1. \A i \in 1..Len(mentions) : mentions[i] \in ToSet(part)
      BY <2>7, ElementOfSeq
    <3>2. \A i \in 1..Len(rootIds) : rootIds[i] \in IdsOf(root.hooks)
      BY <2>2, ElementOfSeq
    <3>. QED
      BY <2>8, <3>1, <3>2
  <2>12. /\ order \in Seq(T) /\ Len(order) = Len(rootIds) + Len(mentions)
         /\ \A i \in 1..(Len(rootIds) + Len(mentions)) :
               order[i] = IF i <= Len(rootIds) THEN rootIds[i] ELSE mentions[i - Len(rootIds)]
    BY <2>9, ConcatProperties
  <2> HIDE DEF order
  <2>13. DOMAIN order = 1..Len(order) /\ \A i \in DOMAIN order : order[i] \in T
    BY <2>12, LenProperties, ElementOfSeq
  <2>14. ASSUME NEW i \in DOMAIN order, NEW j \in DOMAIN order, order[i] = order[j] PROVE i = j
    <3> DEFINE m == Len(rootIds)
               n == Len(mentions)
    <3>1. m \in Nat /\ n \in Nat /\ i \in 1..(m + n) /\ j \in 1..(m + n)
      BY <2>2, <2>10, <2>12, <2>13
    <3>2. /\ i <= m => i \in 1..m /\ order[i] = rootIds[i] /\ order[i] \in IdsOf(root.hooks)
          /\ j <= m => j \in 1..m /\ order[j] = rootIds[j] /\ order[j] \in IdsOf(root.hooks)
      BY <2>11, <2>12, <3>1
    <3>3. /\ ~(i <= m) => /\ i - m \in 1..n /\ order[i] = mentions[i - m]
                          /\ order[i] \notin IdsOf(root.hooks)
          /\ ~(j <= m) => /\ j - m \in 1..n /\ order[j] = mentions[j - m]
                          /\ order[j] \notin IdsOf(root.hooks)
      <4>1. ~(i <= m) => i - m \in 1..n /\ order[i] = mentions[i - m]
        BY <2>12, <3>1
      <4>2. ~(j <= m) => j - m \in 1..n /\ order[j] = mentions[j - m]
        BY <2>12, <3>1
      <4>. QED
        BY <2>11, <4>1, <4>2
    <3>4. \A k, l \in 1..n : mentions[k] = mentions[l] => k = l
      BY <2>7, <2>10 DEF IsInjective
    <3>5. \A k, l \in 1..m : rootIds[k] = rootIds[l] => k = l
      BY <2>3
    <3> HIDE DEF m, n
    <3>6. CASE i <= m /\ j <= m
      BY <2>14, <3>2, <3>5, <3>6
    <3>7. CASE ~(i <= m) /\ ~(j <= m)
      <4>1. i - m = j - m
        BY <2>14, <3>3, <3>4, <3>7
      <4>. QED
        BY <3>1, <4>1
    <3>. QED
      BY <2>14, <3>2, <3>3, <3>6, <3>7
  <2>15. \A i \in DOMAIN order : merged[i].id = order[i]
    <3>1. all \in Seq(ToSet(all)) /\ T \subseteq IdsOf(all)
      <4>1. /\ all \in Seq(ToSet(root.hooks) \cup ToSet(own.hooks))
            /\ ToSet(all) = ToSet(root.hooks) \cup ToSet(own.hooks)
        <5>1. /\ root.hooks \in Seq(ToSet(root.hooks) \cup ToSet(own.hooks))
              /\ own.hooks \in Seq(ToSet(root.hooks) \cup ToSet(own.hooks))
          BY SeqMonotonic
        <5>. QED
          BY <5>1, ConcatOf
      <4> HIDE DEF all
      <4>2. \A hooks : IdsOf(hooks) = {h.id : h \in ToSet(hooks)}
        BY DEF IdsOf, ToSet
      <4>3. IdsOf(all) = {h.id : h \in ToSet(all)}
        BY <4>2
      <4>4. IdsOf(root.hooks) \subseteq IdsOf(all) /\ IdsOf(own.hooks) \subseteq IdsOf(all)
        BY <4>1, <4>2, <4>3
      <4>. QED
        BY <4>1, <4>4
    <3> HIDE DEF all, T
    <3>2. \A i \in DOMAIN order : Definition(all, order[i]).id = order[i]
      BY <2>13, <3>1, DefinitionFound
    <3>. QED
      BY <3>2
  <2>16. DOMAIN merged = DOMAIN order
    OBVIOUS
  <2> HIDE DEF merged
  <2>17. IdsDistinct(merged)
    BY <2>14, <2>15, <2>16 DEF IdsDistinct
  <2>. QED
    BY <2>1, <2>17
<1>. QED
  BY <1>1, <1>2

\* The planner runs one of the definitions that it selected.
LEMMA RunningFound ==
    ASSUME selected \in Seq(ToSet(selected)), verdicts \in Seq(ToSet(verdicts)),
           Len(verdicts) = Len(selected), NEW id \in Planner!RunningIds
    PROVE  /\ Planner!RunningDefinition(id) \in ToSet(selected)
           /\ Planner!RunningDefinition(id).id = id
<1> DEFINE S == {p \in Planner!Running : selected[p].id = id}
<1>1. /\ Len(selected) \in Nat /\ DOMAIN verdicts = 1..Len(selected) /\ DOMAIN selected = 1..Len(selected)
  BY LenProperties
<1>2. Planner!Running \subseteq 1..Len(selected)
  BY <1>1 DEF Planner!Running
<1>3. S \subseteq 1..Len(selected) /\ S # {}
  BY <1>2 DEF Planner!RunningIds
<1>4. Max(S) \in S
  BY <1>1, <1>3, MaxOfPositions
<1>5. Planner!RunningDefinition(id) = selected[Max(S)]
  BY DEF Planner!RunningDefinition, Planner!Max, Max
<1>6. Max(S) \in 1..Len(selected) /\ selected[Max(S)].id = id
  BY <1>3, <1>4
<1>. QED
  BY <1>1, <1>5, <1>6 DEF ToSet

\* What a hook should see stays as the workspace does.
LEMMA SeesKeeps ==
    ASSUME UNCHANGED <<tree, config, configDir, packages, changed, invocation>>
    PROVE  UniqueIds' = UniqueIds /\ \A r : Sees(r)' = Sees(r)
<1>1. UniqueIds' = UniqueIds
  BY DEF UniqueIds, Configs
<1>2. ASSUME NEW r PROVE HookOf(r)' = HookOf(r)
  BY DEF HookOf, Definition, SelectLastInSeq, Max
<1>3. ASSUME NEW dir PROVE Below(dir)' = Below(dir)
  BY DEF Below
<1>4. ASSUME NEW r PROVE Sees(r)' = Sees(r)
  BY <1>2, <1>3 DEF Sees
<1>. QED
  BY <1>1, <1>4

LEMMA SightInit == Init => SightInv
<1> SUFFICES ASSUME Init PROVE SightInv
  OBVIOUS
<1>1. phase = "options" /\ packages = <<>> /\ results = {}
  BY DEF Init
<1>. QED
  BY <1>1 DEF SightInv, Unchanged, Unread, ToSet

\* A step that reads nothing and runs nothing.
LEMMA SightKeeps ==
    ASSUME SightInv, UNCHANGED <<tree, config, configDir, packages, changed, invocation, results>>,
           phase' \notin Unchanged /\ ~invocation.commitMsg => phase \notin Unchanged,
           phase \in Chosen \cup {"raised"} => phase' \in Chosen \cup {"raised"},
           phase' \in {"plan", "execute"} /\ ~invocation.affected => request'.hooks = config.hooks
    PROVE  SightInv'
<1>1. (\A p, q \in ToSet(packages) : p.path = q.path => p = q)'
  BY DEF SightInv
<1>2. (phase \notin Unchanged /\ ~invocation.commitMsg => \A f \in changed : f \in Seq(ToSet(f)))'
  BY DEF SightInv, Unchanged
<1>3. (phase \notin Chosen \cup {"raised"} => results = {})'
  BY DEF SightInv
<1>4. (UniqueIds /\ ~invocation.commitMsg => \A r \in results : Sees(r))'
  <2>1. UniqueIds' = UniqueIds /\ \A r : Sees(r)' = Sees(r)
    BY SeesKeeps
  <2> SUFFICES ASSUME UniqueIds', ~invocation'.commitMsg, NEW r \in results' PROVE Sees(r)'
    OBVIOUS
  <2>2. Sees(r)
    BY <2>1 DEF SightInv
  <2>. QED
    BY <2>1, <2>2
<1>. QED
  BY <1>1, <1>2, <1>3, <1>4 DEF SightInv

\* A step that reads what the run is about.
LEMMA SightEarly ==
    ASSUME SightInv, UNCHANGED results, phase \notin Chosen \cup {"raised"},
           phase' \notin Chosen \cup {"raised"},
           \A p, q \in ToSet(packages') : p.path = q.path => p = q,
           phase' \notin Unchanged /\ ~invocation'.commitMsg =>
               \A f \in changed' : f \in Seq(ToSet(f))
    PROVE  SightInv'
<1>1. results' = {} /\ phase' \notin {"plan", "execute"}
  BY DEF SightInv, Chosen
<1>. QED
  BY <1>1 DEF SightInv

LEMMA DirsArePaths ==
    ASSUME CaseInv
    PROVE  \A d \in ToSet(tree.dirs) : d \in Seq(ToSet(d))
<1>1. PICK k \in Cases : tree = k.tree
  BY DEF CaseInv
<1> DEFINE paths == k.tree.staged \cup k.tree.tracked \cup ToSet(k.tree.dirs)
                      \cup UNION Range(k.tree.since)
<1>2. \A f \in paths : f \in Seq(ToSet(f))
  BY CasesAssumption
<1>3. ToSet(k.tree.dirs) \subseteq paths
  OBVIOUS
<1> HIDE DEF paths
<1>. QED
  BY <1>1, <1>2, <1>3

\* What git says has changed are paths.
LEMMA ChangedArePaths ==
    ASSUME CaseInv, Changeset, phase' # "git error"
    PROVE  \A f \in changed' : f \in Seq(ToSet(f))
<1>1. PICK k \in Cases : tree = k.tree /\ invocation = k.invocation
  BY DEF CaseInv
<1>2. /\ \A f \in tree.staged \cup tree.tracked \cup UNION Range(tree.since) : f \in Seq(ToSet(f))
      /\ invocation.cwd \in Seq(ToSet(invocation.cwd))
      /\ tree.top # None => tree.top \in Seq(ToSet(tree.top))
  BY <1>1, CasesAssumption
<1>3. tree.top # None => \A f \in TrackedFiles : f \in Seq(ToSet(f))
  <2> DEFINE below == RelativeTo(invocation.cwd, tree.top)
  <2> SUFFICES ASSUME tree.top # None, NEW g \in tree.tracked
               PROVE  RelativeTo(g, below) \in Seq(ToSet(RelativeTo(g, below)))
    BY DEF TrackedFiles
  <2>1. Len(tree.top) \in Nat
    BY <1>2, LenProperties
  <2>2. below \in Seq(ToSet(invocation.cwd))
    BY <1>2, <2>1, RestIsPath
  <2> HIDE DEF below
  <2>3. Len(below) \in Nat
    BY <2>2, LenProperties
  <2>4. RelativeTo(g, below) \in Seq(ToSet(g))
    BY <1>2, <2>3, RestIsPath
  <2>. QED
    BY <2>4, PathOfItsParts
<1>4. /\ tree.top # None /\ (invocation.base # None => invocation.base \in DOMAIN tree.since)
      /\ changed' = IF invocation.base # None THEN tree.since[invocation.base]
                    ELSE IF invocation.allFiles THEN TrackedFiles ELSE tree.staged
  BY DEF Changeset
<1>5. invocation.base # None => tree.since[invocation.base] \in Range(tree.since)
  BY <1>4 DEF Range
<1>. QED
  BY <1>2, <1>3, <1>4, <1>5

\* Each directory is a package once.
LEMMA PackagesDistinct ==
    ASSUME CaseInv, DiscoverPackages, phase' = "changeset"
    PROVE  \A p, q \in ToSet(packages') : p.path = q.path => p = q
<1> DEFINE matched == IF config.workspace = None THEN {}
                      ELSE UNION {Matched(g) : g \in Range(config.workspace.packages)}
           places == {p \in DOMAIN tree.dirs : \E m \in matched : tree.target[m] = tree.dirs[p]}
           found == AtPositions(tree.dirs, places)
<1>1. \E match \in [ToSet(found) -> matched] :
        packages' = [i \in DOMAIN found |->
                       [name |-> Last(match[found[i]]), path |-> found[i],
                        config |-> tree.checkToml[match[found[i]]]]]
  BY DEF DiscoverPackages
<1>2. \A i, j \in DOMAIN found : found[i] = found[j] => i = j
  <2>1. places \subseteq DOMAIN tree.dirs
    OBVIOUS
  <2> HIDE DEF places
  <2>2. IsInjective(found)
    BY <2>1, CaseFacts, PartInjective
  <2>. QED
    BY <2>2 DEF IsInjective
<1> HIDE DEF found
<1>3. /\ DOMAIN packages' = DOMAIN found
      /\ \A i \in DOMAIN found : packages'[i].path = found[i]
  BY <1>1
<1>. QED
  BY <1>2, <1>3 DEF ToSet

\* A hook that runs is given its files.
LEMMA ResultsSee ==
    ASSUME CommandInv, SightInv, phase = "execute", UniqueIds, ~invocation.commitMsg,
           NEW statuses \in Outcomes, NEW r \in HookResults(statuses)
    PROVE  Sees(r)
<1> USE DEF CommandInv
<1> DEFINE d == Planner!RunningDefinition(r.hook)
<1>1. /\ r.hook \in Planner!RunningIds /\ r.files = FilesOf(d)
      /\ r.cwd = IF invocation.affected THEN Package.path ELSE invocation.cwd
  <2>1. r.hook \in DOMAIN statuses /\ r.cwd = IF invocation.affected THEN Package.path ELSE invocation.cwd
    BY ResultFacts
  <2>2. r.files = FilesOf(d)
    BY DEF HookResults
  <2>. QED
    BY <2>1, <2>2, OutcomeFacts
<1> HIDE DEF d
<1>2. SelectedInv /\ RequestInv /\ Len(verdicts) = Len(selected) /\ stage = "planned"
  BY DEF PlannerInv, TurnInv, Asking
<1>3. selected \in Seq(ToSet(request.hooks)) /\ selected \in Seq(ToSet(selected))
      /\ verdicts \in Seq(ToSet(verdicts))
  <2>1. selected \in Seq(ToSet(request.hooks))
    BY <1>2 DEF SelectedInv
  <2>2. verdicts \in Seq({Planner!Verdict(h) : h \in ToSet(selected)})
    BY <1>2 DEF SelectedInv
  <2>. QED
    BY <2>1, <2>2, PathOfItsParts
<1>4. d \in ToSet(request.hooks) /\ d.id = r.hook
  <2>1. d \in ToSet(selected) /\ d.id = r.hook
    BY <1>1, <1>2, <1>3, RunningFound DEF d
  <2>2. ToSet(selected) \subseteq ToSet(request.hooks)
    BY <1>3, LenProperties, ElementOfSeq DEF ToSet
  <2>. QED
    BY <2>1, <2>2
<1>5. ASSUME IdsDistinct(request.hooks) PROVE Definition(request.hooks, r.hook) = d
  <2>1. r.hook \in IdsOf(request.hooks) /\ request.hooks \in Seq(ToSet(request.hooks))
    BY <1>2, <1>4 DEF IdsOf, ToSet, RequestInv
  <2>2. /\ Definition(request.hooks, r.hook) \in ToSet(request.hooks)
        /\ Definition(request.hooks, r.hook).id = r.hook
    BY <2>1, DefinitionFound
  <2>. QED
    BY <1>4, <1>5, <2>2, OneOfId
<1>6. CASE ~invocation.affected
  <2>1. request.hooks = config.hooks /\ IdsDistinct(request.hooks)
    BY <1>2, <1>6 DEF SightInv, RequestInv
  <2>2. HookOf(r) = d
    BY <1>5, <1>6, <2>1 DEF HookOf
  <2>3. FilesOf(d) = FilesForHook(d, changed, None)
    BY <1>6 DEF FilesOf
  <2>. QED
    BY <1>1, <1>6, <2>2, <2>3 DEF Sees
<1>7. CASE invocation.affected
  <2>1. turn \in 1..Len(AffectedPackages) /\ request.hooks = Effective.hooks
    BY <1>7, AffectedFound DEF TurnInv, WorkspaceInv
  <2>2. Package \in ToSet(packages)
    BY <2>1, AffectedFound DEF WorkspaceInv, Package
  <2>3. Package.path \in ToSet(tree.dirs) /\ Package.config \in Configs(tree) /\ config \in Configs(tree)
    BY <2>2 DEF WorkspaceInv, PackagesInv, ConfigInv
  <2>4. IdsDistinct(request.hooks)
    <3>1. IdsDistinct(config.hooks) /\ IdsDistinct(Package.config.hooks)
      BY <2>3 DEF UniqueIds, IdsDistinct, IsInjective
    <3>. QED
      BY <2>1, <2>3, <3>1, ConfigFacts, EffectiveDistinct DEF WorkspaceInv, Effective
  <2>5. HookOf(r) = d
    <3>1. (CHOOSE q \in ToSet(packages) : q.path = r.cwd) = Package
      BY <1>1, <1>7, <2>2 DEF SightInv
    <3>2. HookOf(r) = Definition(Effective.hooks, r.hook)
      BY <1>7, <3>1 DEF HookOf, Effective
    <3>. QED
      BY <1>5, <2>1, <2>4, <3>2
  <2>6. FilesOf(d) = FilesForHook(d, PackageFiles, None)
    BY <1>7 DEF FilesOf
  <2>7. PackageFiles = Below(Package.path)
    BY DEF PackageFiles, Below, PackageRel
  <2>8. IsUnder(Package.path, configDir)
    BY <2>2 DEF WorkspaceInv, SpreadInv, Chosen
  <2>. QED
    BY <1>1, <1>7, <2>3, <2>5, <2>6, <2>7, <2>8 DEF Sees
<1>. QED
  BY <1>6, <1>7

LEMMA SightStep == CommandInv /\ SightInv /\ [Next]_vars => SightInv'
<1> SUFFICES ASSUME CommandInv, SightInv, [Next]_vars PROVE SightInv'
  OBVIOUS
<1> USE DEF CommandInv
<1>1. CASE UNCHANGED vars
  <2>1. /\ UNCHANGED <<tree, config, configDir, packages, changed, invocation, results>>
        /\ UNCHANGED <<phase, request>>
    BY <1>1 DEF vars, workspaceVars, commandVars, planningVars
  <2>. QED
    BY <2>1, SightKeeps DEF SightInv
<1>2. CASE Options
  <2>1. /\ phase = "options" /\ phase' \in {"usage error", "no config", "load"}
        /\ UNCHANGED <<packages, results>>
    BY <1>2 DEF Options
  <2>2. \A p, q \in ToSet(packages') : p.path = q.path => p = q
    BY <2>1 DEF SightInv
  <2>3. phase' \in Unchanged
    BY <2>1 DEF Unchanged, Unread
  <2>. QED
    BY <2>1, <2>2, <2>3, SightEarly DEF Chosen
<1>3. CASE Load
  <2>1. /\ phase = "load" /\ phase' \in {"config error", "begin", "discover", "changeset"}
        /\ UNCHANGED <<packages, results, invocation>>
        /\ phase' = "begin" => invocation.commitMsg
    BY <1>3 DEF Load, commandVars
  <2>2. \A p, q \in ToSet(packages') : p.path = q.path => p = q
    BY <2>1 DEF SightInv
  <2>3. phase' \in Unchanged \/ invocation'.commitMsg
    BY <2>1 DEF Unchanged, Unread
  <2>. QED
    BY <2>1, <2>2, <2>3, SightEarly DEF Chosen
<1>4. CASE Changeset
  <2>1. /\ phase = "changeset" /\ phase' \in {"git error", "dependencies", "branch"}
        /\ UNCHANGED <<packages, results>>
    BY <1>4 DEF Changeset, commandVars
  <2>2. \A p, q \in ToSet(packages') : p.path = q.path => p = q
    BY <2>1 DEF SightInv
  <2>3. phase' = "git error" \/ \A f \in changed' : f \in Seq(ToSet(f))
    BY <1>4, ChangedArePaths DEF WorkspaceInv
  <2>4. "git error" \in Unchanged
    BY DEF Unchanged
  <2>. QED
    BY <2>1, <2>2, <2>3, <2>4, SightEarly DEF Chosen
<1>5. CASE Selecting /\ UNCHANGED <<commandVars, planningVars>>
  <2>1. UNCHANGED <<invocation, results, request>>
    BY <1>5 DEF commandVars, planningVars
  <2>2. CASE DiscoverPackages
    <3>1. /\ phase = "discover" /\ phase' \in {"config error", "changeset"}
          /\ phase' = "config error" => packages' = packages
      BY <2>2 DEF DiscoverPackages
    <3>2. \A p, q \in ToSet(packages') : p.path = q.path => p = q
      <4>1. CASE phase' = "changeset"
        BY <2>2, <4>1, PackagesDistinct DEF WorkspaceInv
      <4>2. CASE phase' = "config error"
        BY <3>1, <4>2 DEF SightInv
      <4>. QED
        BY <3>1, <4>1, <4>2
    <3>3. phase' \in Unchanged
      BY <3>1 DEF Unchanged
    <3>. QED
      BY <2>1, <3>1, <3>2, <3>3, SightEarly DEF Chosen
  <2>3. CASE ValidateDeps \/ VisitNext \/ VisitDependency \/ Leave \/ Spread
    <3>1. UNCHANGED <<tree, config, configDir, packages, changed>>
      BY <2>3 DEF ValidateDeps, VisitNext, VisitDependency, Leave, Spread
    <3>2. /\ phase \in {"dependencies", "cycles", "spread"}
          /\ phase' \notin {"plan", "execute"}
      BY <2>3 DEF ValidateDeps, VisitNext, VisitDependency, Leave, Spread
    <3>3. phase \notin Unchanged \cup Chosen \cup {"raised"}
      BY <3>2 DEF Unchanged, Unread, Chosen
    <3>. QED
      BY <2>1, <3>1, <3>2, <3>3, SightKeeps
  <2>. QED
    BY <1>5, <2>2, <2>3 DEF Selecting
<1>6. CASE Branch \/ Begin \/ NextPackage \/ Planning \/ Planned \/ Report
  <2>1. UNCHANGED <<tree, config, configDir, packages, changed, invocation, results>>
    BY <1>6 DEF Branch, Begin, NextPackage, Planning, Planned, Report, workspaceVars, commandVars
  <2>2. phase \in {"branch", "begin"} \cup Chosen
    BY <1>6 DEF Branch, Begin, NextPackage, Planning, Planned, Report, Chosen
  <2>3. phase \notin Unchanged
    BY <2>2 DEF Unchanged, Unread, Chosen
  <2>4. phase \in Chosen => phase' \in Chosen
    BY <1>6 DEF Branch, Begin, NextPackage, StartPlan, Planning, Planned, Report, Chosen
  <2>5. phase # "raised"
    BY <2>2 DEF Chosen
  <2>6. phase' \in {"plan", "execute"} /\ ~invocation.affected => request'.hooks = config.hooks
    <3> SUFFICES ASSUME phase' \in {"plan", "execute"}, ~invocation.affected
                 PROVE  request'.hooks = config.hooks
      OBVIOUS
    <3>1. CASE Begin
      BY <3>1 DEF Begin, StartPlan
    <3>2. CASE Planning \/ Planned
      <4>1. phase = "plan" /\ request' = request
        BY <3>2 DEF Planning, Planned, planningVars, Planner!Select, Planner!Filter,
                    Planner!CheckDependencies, Planner!Sort
      <4>. QED
        BY <4>1 DEF SightInv
    <3>3. CASE NextPackage
      BY <3>3 DEF NextPackage, WorkspaceInv, ModeInv
    <3>4. CASE Branch \/ Report
      BY <3>4 DEF Branch, Report
    <3>. QED
      BY <1>6, <3>1, <3>2, <3>3, <3>4
  <2>. QED
    BY <2>1, <2>3, <2>4, <2>5, <2>6, SightKeeps
<1>7. CASE Execute
  <2>1. /\ phase = "execute" /\ phase' \in {"packages", "report", "raised"}
        /\ UNCHANGED <<tree, config, configDir, packages, changed, invocation>>
    BY <1>7 DEF Execute, workspaceVars
  <2>2. phase \notin Unchanged /\ phase' \in Chosen \cup {"raised"}
    BY <2>1 DEF Unchanged, Unread, Chosen
  <2>3. CASE UNCHANGED results
    BY <2>1, <2>2, <2>3, SightKeeps
  <2>4. ASSUME NEW statuses \in Outcomes, results' = results \cup HookResults(statuses)
        PROVE  SightInv'
    <3>1. UniqueIds' = UniqueIds /\ \A r : Sees(r)' = Sees(r)
      BY <2>1, SeesKeeps
    <3>2. ASSUME UniqueIds', ~invocation'.commitMsg, NEW r \in results' PROVE Sees(r)'
      <4>1. CASE r \in results
        <5>1. Sees(r)
          BY <2>1, <3>1, <3>2, <4>1 DEF SightInv
        <5>. QED
          BY <3>1, <5>1
      <4>2. CASE r \in HookResults(statuses)
        <5>1. Sees(r)
          BY <2>1, <3>1, <3>2, <4>2, ResultsSee
        <5>. QED
          BY <3>1, <5>1
      <4>. QED
        BY <2>4, <3>2, <4>1, <4>2
    <3>3. (\A p, q \in ToSet(packages) : p.path = q.path => p = q)'
      BY <2>1 DEF SightInv
    <3>4. (phase \notin Unchanged /\ ~invocation.commitMsg => \A f \in changed : f \in Seq(ToSet(f)))'
      BY <2>1, <2>2 DEF SightInv
    <3>. QED
      BY <2>1, <2>2, <3>2, <3>3, <3>4 DEF SightInv
  <2>. QED
    BY <1>7, <2>3, <2>4 DEF Execute
<1>. QED
  BY <1>1, <1>2, <1>3, <1>4, <1>5, <1>6, <1>7 DEF Next, Ended

\* What is said of the results is true of every run.
LEMMA SightAlways == Spec => []SightInv
BY SightInit, SightStep, CommandInvariant, PTL DEF Spec

(***************************************************************************)
(* Run at the top of the repository, each hook is given exactly those of   *)
(* the changed files below the directory it runs in that its globs select, *)
(* by the names they have there.                                           *)
(***************************************************************************)
THEOREM HooksAlwaysSeeTheirFiles == Spec => []HooksSeeTheirFiles
<1>1. CommandInv /\ SightInv => HooksSeeTheirFiles
  <2> SUFFICES ASSUME CommandInv, SightInv, UniqueIds, invocation.cwd = tree.top,
                      configDir = tree.top, ~invocation.commitMsg, NEW r \in results
               PROVE  {r.cwd \o f : f \in r.files} =
                        {a \in {tree.top \o f : f \in changed} :
                            /\ IsPrefix(r.cwd, a)
                            /\ Selects(HookOf(r), SubSeq(a, Len(r.cwd) + 1, Len(a)))}
    BY DEF HooksSeeTheirFiles
  <2> DEFINE top == tree.top
             dir == r.cwd
             h == HookOf(r)
  <2>1. Sees(r) /\ \A f \in changed : f \in Seq(ToSet(f))
    <3>1. phase \notin Unchanged
      BY DEF SightInv, Chosen, Unchanged, Unread
    <3>. QED
      BY <3>1 DEF SightInv
  <2>2. top \in Seq(ToSet(top)) /\ \A d \in ToSet(tree.dirs) : d \in Seq(ToSet(d))
    BY CaseFacts, DirsArePaths DEF CommandInv, WorkspaceInv
  <2>3. \A files : FilesForHook(h, files, None) = {f \in files : Selects(h, f)}
    BY DEF FilesForHook, Selects
  <2>4. \A a : SubSeq(a, Len(dir) + 1, Len(a)) = RelativeTo(a, dir)
    BY DEF RelativeTo
  <2>5. CASE ~invocation.affected
    <3>1. dir = top /\ r.files = {f \in changed : Selects(h, f)}
      BY <2>1, <2>3, <2>5 DEF Sees
    <3>2. ASSUME NEW f \in changed PROVE IsPrefix(top, top \o f) /\ RelativeTo(top \o f, top) = f
      <4> DEFINE T == ToSet(top) \cup ToSet(f)
      <4>1. ToSet(top) \subseteq T /\ ToSet(f) \subseteq T
        OBVIOUS
      <4> HIDE DEF T, top
      <4>2. top \in Seq(T) /\ f \in Seq(T)
        BY <2>1, <2>2, <4>1, SeqMonotonic
      <4>. QED
        BY <4>2, PathJoined
    <3> HIDE DEF dir, top, h
    <3>3. {top \o f : f \in {g \in changed : Selects(h, g)}} =
            {a \in {top \o f : f \in changed} : IsPrefix(top, a) /\ Selects(h, RelativeTo(a, top))}
      BY <3>2
    <3>. QED
      BY <2>4, <3>1, <3>3 DEF dir, top, h
  <2>6. CASE invocation.affected
    <3> DEFINE rel == RelativeTo(dir, top)
    <3>1. /\ dir \in ToSet(tree.dirs) /\ IsPrefix(top, dir)
          /\ r.files = {f \in Below(dir) : Selects(h, f)}
      BY <2>1, <2>3, <2>6 DEF Sees, IsUnder
    <3>2. Below(dir) = {RelativeTo(f, rel) : f \in {g \in changed : IsPrefix(rel, g)}}
      BY DEF Below, IsUnder
    <3>3. \A f \in changed :
            /\ IsPrefix(dir, top \o f) <=> IsPrefix(rel, f)
            /\ IsPrefix(rel, f) => /\ top \o f = dir \o RelativeTo(f, rel)
                                   /\ RelativeTo(top \o f, dir) = RelativeTo(f, rel)
      BY <2>1, <2>2, <3>1, FilesBelow
    <3> HIDE DEF dir, top, h, rel
    <3>4. {dir \o g : g \in {f \in Below(dir) : Selects(h, f)}} =
            {a \in {top \o f : f \in changed} : IsPrefix(dir, a) /\ Selects(h, RelativeTo(a, dir))}
      <4>1. ASSUME NEW g \in Below(dir), Selects(h, g)
            PROVE  /\ dir \o g \in {top \o f : f \in changed} /\ IsPrefix(dir, dir \o g)
                   /\ Selects(h, RelativeTo(dir \o g, dir))
        <5>1. PICK f \in changed : IsPrefix(rel, f) /\ g = RelativeTo(f, rel)
          BY <3>2
        <5>. QED
          BY <3>3, <4>1, <5>1
      <4>2. ASSUME NEW f \in changed, IsPrefix(dir, top \o f), Selects(h, RelativeTo(top \o f, dir))
            PROVE  \E g \in Below(dir) : Selects(h, g) /\ top \o f = dir \o g
        BY <3>2, <3>3, <4>2
      <4> DEFINE given == {f \in Below(dir) : Selects(h, f)}
                 named == {dir \o g : g \in given}
                 all == {top \o f : f \in changed}
                 due == {a \in all : IsPrefix(dir, a) /\ Selects(h, RelativeTo(a, dir))}
      <4>3. \A g \in given : dir \o g \in due
        BY <4>1
      <4>4. \A a \in due : a \in named
        BY <4>2
      <4>. QED
        BY <4>3, <4>4
    <3>. QED
      BY <2>4, <3>1, <3>4 DEF dir, top, h
  <2>. QED
    BY <2>5, <2>6
<1>. QED
  BY <1>1, CommandInvariant, SightAlways, PTL
=============================================================================
