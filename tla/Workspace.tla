------------------------------ MODULE Workspace ------------------------------
(***************************************************************************)
(* The monorepo mode up to the choice of packages: the config a command    *)
(* works with (config/discovery.py, cli/_config.py), the packages of a     *)
(* workspace (workspace/loader.py), what a package inherits                *)
(* (workspace/inheritance.py), and which packages a changeset affects      *)
(* (workspace/affected.py).                                                *)
(*                                                                         *)
(* A path is the sequence of its components; a glob of directories or of   *)
(* files is the set of paths it matches.                                   *)
(***************************************************************************)
EXTENDS Config

CONSTANTS
    None,   \* Python's None
    Broken  \* a config that does not parse or does not validate

(***************************************************************************)
(* A tree is a record of                                                   *)
(*   checkToml, pyproject: the configs in check.toml files, and in the     *)
(*     [tool.gatecheck] tables of pyproject.toml files, by directory;      *)
(*   dirs: the directories a glob may match, in the order of their paths;  *)
(*   target: where a directory, perhaps a symbolic link, really is;        *)
(*   top: the top of the git repository, or None outside of one.           *)
(* A config is Broken or a record of hooks, groups (by name), sources,     *)
(* workspace (None, or packages, a list of globs, and inherit) and package *)
(* (None, or dependsOn, inherit and python).                               *)
(***************************************************************************)
VARIABLES
    tree,      \* the files the command finds
    phase,     \* what the command is doing, or how it ended
    config,    \* the config loaded
    configDir, \* the directory of the config loaded
    packages,  \* the packages discovered, in the order of their paths
    changed,   \* the changed files, as git names them
    visiting,  \* _check_acyclic: the packages being visited
    done,      \* and those that are done
    walk,      \* the calls of visit: packages with the place in their depends-on
    stack,     \* affected_packages: the packages to look at
    affected   \* and the names found affected

search == <<visiting, done, walk>>
spread == <<stack, affected>>

-----------------------------------------------------------------------------
(* Finding the config. *)

\* _walk_up, until the directory that holds .git: cwd and its parents, nearest first.
Searched(cwd) ==
    LET up == [i \in 1..(Len(cwd) + 1) |-> SubSeq(cwd, 1, Len(cwd) + 1 - i)]
    IN  AtPositions(up, {i \in DOMAIN up : tree.top = None \/ ~IsStrictPrefix(up[i], tree.top)})

\* discover_config: the nearest directory with a config; check.toml wins in it.
Discovered(cwd) ==
    LET dirs == Searched(cwd)
        i == SelectInSeq(dirs, LAMBDA d : d \in DOMAIN tree.checkToml \cup DOMAIN tree.pyproject)
    IN  IF i = 0 THEN None ELSE dirs[i]

ConfigIn(dir) ==
    IF dir \in DOMAIN tree.checkToml THEN tree.checkToml[dir] ELSE tree.pyproject[dir]

\* The configs that --config may name in a directory: its two files.
ConfigsIn(dir) ==
    {files[dir] : files \in {f \in {tree.checkToml, tree.pyproject} : dir \in DOMAIN f}}

-----------------------------------------------------------------------------
(* Discovering the packages. *)

Matched(glob) == {m \in glob : m \in DOMAIN tree.checkToml}

\* The matches that may be the first to reach a directory: those of the first glob that does.
FirstMatches(dir) ==
    LET globs == config.workspace.packages
        i == SelectInSeq(globs, LAMBDA g : \E m \in Matched(g) : tree.target[m] = dir)
    IN  {m \in Matched(globs[i]) : tree.target[m] = dir}

\* discover_workspace: each directory once, named as it was first matched.
DiscoverPackages ==
    /\ phase = "discover"
    /\ LET matched == IF config.workspace = None THEN {}
                      ELSE UNION {Matched(g) : g \in Range(config.workspace.packages)}
           found == AtPositions(tree.dirs,
                       {p \in DOMAIN tree.dirs : \E m \in matched : tree.target[m] = tree.dirs[p]})
       IN  IF \E m \in matched : tree.checkToml[m] = Broken
           THEN phase' = "config error" /\ UNCHANGED packages
           ELSE /\ \E match \in [ToSet(found) -> matched] :
                      /\ \A d \in ToSet(found) : match[d] \in FirstMatches(d)
                      /\ packages' = [i \in DOMAIN found |->
                            [name |-> Last(match[found[i]]), path |-> found[i],
                             config |-> tree.checkToml[match[found[i]]]]]
                /\ phase' = "changeset"
    /\ UNCHANGED <<tree, config, configDir, changed, search, spread>>

-----------------------------------------------------------------------------
(* What a package inherits. *)

InheritMode(root, own) ==
    IF own.package # None /\ own.package.inherit # None THEN own.package.inherit
    ELSE IF root.workspace # None THEN root.workspace.inherit ELSE "merge"

\* _merge_hooks: the root's order, new ids appended, the package's definitions winning.
MergeHooks(rootHooks, ownHooks) ==
    LET ids(hooks) == [i \in DOMAIN hooks |-> hooks[i].id]
        new == {p \in DOMAIN ownHooks : ownHooks[p].id \notin IdsOf(rootHooks)}
        order == ids(rootHooks) \o FirstMentions(AtPositions(ids(ownHooks), new))
    IN  [i \in DOMAIN order |-> Definition(rootHooks \o ownHooks, order[i])]

EffectiveConfig(root, own) ==
    IF InheritMode(root, own) = "merge"
    THEN [hooks |-> MergeHooks(root.hooks, own.hooks),
          groups |-> own.groups @@ root.groups,
          sources |-> IF own.sources # None THEN own.sources ELSE root.sources,
          workspace |-> None, package |-> own.package]
    ELSE [own EXCEPT !.workspace = None]

-----------------------------------------------------------------------------
(* The affected packages. *)

Names == {packages[i].name : i \in DOMAIN packages}

DeclaredDeps(p) == IF p.config.package = None THEN <<>> ELSE p.config.package.dependsOn

\* deps: packages of one name share an entry, and the last one's depends-on stays in it.
Deps(name) == DeclaredDeps(packages[SelectLastInSeq(packages, LAMBDA p : p.name = name)])

IsUnder(file, dir) == IsPrefix(dir, file)
RelativeTo(path, dir) == SubSeq(path, Len(dir) + 1, Len(path))
PackageRel(p) == RelativeTo(p.path, configDir)

\* _directly_changed: the packages with a changed file in their directory.
DirectlyChanged ==
    {p.name : p \in {q \in ToSet(packages) : \E f \in changed : IsUnder(f, PackageRel(q))}}

\* A changed file of no package.
HasRootChange == \E f \in changed : \A p \in ToSet(packages) : ~IsUnder(f, PackageRel(p))

\* _validated_deps: every name has to be that of a package.
ValidateDeps ==
    /\ phase = "dependencies"
    /\ phase' = IF \A p \in ToSet(packages) : ToSet(DeclaredDeps(p)) \subseteq Names
                THEN "cycles" ELSE "unknown package"
    /\ UNCHANGED <<tree, config, configDir, packages, changed, search, spread>>

(***************************************************************************)
(* The loop of _check_acyclic: the first package that is not done, in the  *)
(* order of the dict; then the packages to begin with.  A package outside  *)
(* of the workspace, which a link may lead to, has no path from its root:  *)
(* relative_to raises, and nobody catches it.                              *)
(***************************************************************************)
VisitNext ==
    /\ phase = "cycles" /\ walk = <<>>
    /\ LET i == SelectInSeq(packages, LAMBDA p : p.name \notin done)
       IN  IF i # 0
           THEN /\ visiting' = visiting \cup {packages[i].name}
                /\ walk' = <<[name |-> packages[i].name, next |-> 1]>>
                /\ UNCHANGED <<phase, stack>>
           ELSE IF \A p \in ToSet(packages) : IsUnder(p.path, configDir)
           THEN /\ stack' \in SetToSeqs(IF HasRootChange THEN Names ELSE DirectlyChanged)
                /\ phase' = "spread"
                /\ UNCHANGED <<visiting, walk>>
           ELSE phase' = "raised" /\ UNCHANGED <<stack, visiting, walk>>
    /\ UNCHANGED <<tree, config, configDir, packages, changed, done, affected>>

\* The next dependency of the package visited: a cycle, done, or to be visited first.
VisitDependency ==
    /\ phase = "cycles" /\ walk # <<>>
    /\ LET top == Last(walk)
           dep == Deps(top.name)[top.next]
           returned == [walk EXCEPT ![Len(walk)].next = @ + 1]
       IN  /\ top.next <= Len(Deps(top.name))
           /\ IF dep \in visiting
              THEN phase' = "package cycle" /\ UNCHANGED <<visiting, walk>>
              ELSE IF dep \in done
              THEN walk' = returned /\ UNCHANGED <<phase, visiting>>
              ELSE /\ visiting' = visiting \cup {dep}
                   /\ walk' = Append(returned, [name |-> dep, next |-> 1])
                   /\ UNCHANGED phase
    /\ UNCHANGED <<tree, config, configDir, packages, changed, done, spread>>

\* Faulty: a package that is done stays among those being visited.
LeaveVisiting ==
    /\ phase = "cycles" /\ walk # <<>>
    /\ LET top == Last(walk)
       IN  /\ top.next > Len(Deps(top.name))
           /\ done' = done \cup {top.name}
    /\ walk' = Front(walk)
    /\ UNCHANGED <<tree, phase, config, configDir, packages, changed, visiting, spread>>

\* The end of visit.
Leave ==
    /\ phase = "cycles" /\ walk # <<>>
    /\ LET top == Last(walk)
       IN  /\ top.next > Len(Deps(top.name))
           /\ visiting' = visiting \ {top.name}
           /\ done' = done \cup {top.name}
    /\ walk' = Front(walk)
    /\ UNCHANGED <<tree, phase, config, configDir, packages, changed, spread>>

\* dependents[name]: the packages that list it.
Dependents(name) ==
    LET names == [i \in DOMAIN packages |-> packages[i].name]
    IN  FirstMentions(AtPositions(names, {i \in DOMAIN names : Contains(Deps(names[i]), name)}))

\* Faulty: the dependents of a changed package, but not theirs.
SpreadOnce ==
    /\ phase = "spread"
    /\ affected' = affected \cup ToSet(stack)
                   \cup UNION {ToSet(Dependents(name)) : name \in ToSet(stack)}
    /\ stack' = <<>>
    /\ phase' = "packages"
    /\ UNCHANGED <<tree, config, configDir, packages, changed, search>>

\* One turn of the loop over the stack.
Spread ==
    /\ phase = "spread"
    /\ IF stack = <<>> THEN phase' = "packages" /\ UNCHANGED spread
       ELSE /\ stack' = IF Last(stack) \in affected THEN Front(stack)
                        ELSE Front(stack) \o Dependents(Last(stack))
            /\ affected' = affected \cup {Last(stack)}
            /\ UNCHANGED phase
    /\ UNCHANGED <<tree, config, configDir, packages, changed, search>>

AffectedPackages == AtPositions(packages, {i \in DOMAIN packages : packages[i].name \in affected})
=============================================================================
