---------------------------- MODULE MCRunCommand ----------------------------
(***************************************************************************)
(* Instances of RunCommand for TLC: every package graph on three packages, *)
(* runs of hooks in packages under every inherit mode, plain and message   *)
(* runs under every option, and configs in several places.                 *)
(***************************************************************************)
EXTENDS RunCommand

Top == <<"r">>
Dir(name) == <<"r", name>>
File(dir, name) == Append(dir, name)

Plain == Planner!NoConditions
HookOn(id, dependsOn, passFiles, files, when) ==
    [id |-> id, dependsOn |-> dependsOn, passFiles |-> passFiles, files |-> files,
     exclude |-> None, when |-> when]
Group(hooks, parallel, failFast) ==
    [hooks |-> hooks, parallel |-> parallel, failFast |-> failFast, maxWorkers |-> 2]
NoGroups == [g \in {} |-> None]
ConfigOf(hooks, groups, workspace, package) ==
    [hooks |-> hooks, groups |-> groups, sources |-> None, workspace |-> workspace,
     package |-> package]

Invoked == [cwd |-> Top, explicit |-> None, group |-> None, allFiles |-> FALSE, base |-> None,
            affected |-> FALSE, offline |-> FALSE, commitMsg |-> FALSE]
Affected == [Invoked EXCEPT !.affected = TRUE]

TreeOf(configs, dirs, staged) ==
    [checkToml |-> configs, pyproject |-> NoGroups, dirs |-> dirs,
     target |-> [d \in ToSet(dirs) |-> d], top |-> Top, staged |-> staged,
     tracked |-> staged \cup {<<"a", "m.py">>, <<"t.md">>},
     since |-> [ref \in {"main"} |-> {<<"a", "x.py">>, <<"t.md">>}], branch |-> "main"]

-----------------------------------------------------------------------------
\* Three packages without hooks, any dependencies among them or on an unknown one.
Graph(da, db, dc, changedDirs) ==
    LET root == ConfigOf(<<>>, NoGroups,
                    [packages |-> <<{Dir("a"), Dir("b"), Dir("c"), Dir("docs")}>>,
                     inherit |-> "merge"], None)
        on(deps) == ConfigOf(<<>>, NoGroups, None,
                        [dependsOn |-> SetToSeq(deps), inherit |-> None, python |-> None])
    IN  TreeOf((Top :> root) @@ (Dir("a") :> on(da)) @@ (Dir("b") :> on(db)) @@ (Dir("c") :> on(dc)),
               <<Dir("a"), Dir("b"), Dir("c")>>, {File(d, "x.py") : d \in changedDirs})

GraphCases ==
    LET abc == {"a", "b", "c"} IN
    {[invocation |-> Affected, tree |-> Graph(da, db, dc, changedDirs)] :
        da, db, dc \in SUBSET abc, changedDirs \in {{}, {<<>>}, {<<"a">>}, {<<"b">>, <<"c">>}}}
    \cup {[invocation |-> Affected, tree |-> Graph({"ghost"}, {}, {"a"}, {<<"b">>})]}

-----------------------------------------------------------------------------
(* Two packages with hooks; b is matched by two globs, the second of which names it l, a     *)
(* link, and may come first, and leads out of the repository or not; or it is named a too.   *)
Lint == HookOn("lint", {}, TRUE, {<<"a", "x.py">>, <<"x.py">>, <<"b", "x.py">>}, Plain)
PackageTree(inherit, own, links, bDeps, staged) ==
    LET b == IF links = "same name" THEN <<"r", "lib", "a">>
             ELSE IF links = "outside" THEN <<"x", "b">> ELSE Dir("b")
        globs == IF links \in {"link first", "outside"} THEN <<{Dir("l")}, {Dir("a"), b}>>
                 ELSE IF links = "either" THEN <<{Dir("l"), Dir("a"), b}>>
                 ELSE <<{Dir("a"), b}, {b}>>
        root == ConfigOf(<<Lint>>, "g" :> Group(<<"lint">>, FALSE, TRUE),
                    [packages |-> globs, inherit |-> "merge"], None)
        aConfig == ConfigOf(<<HookOn("unit", {}, TRUE, None, Plain)>>, NoGroups, None,
                       [dependsOn |-> <<>>, inherit |-> inherit, python |-> None])
        bConfig == ConfigOf(own, NoGroups, None,
                       [dependsOn |-> bDeps, inherit |-> inherit, python |-> "3.9"])
        tree1 == TreeOf((Top :> root) @@ (Dir("a") :> aConfig) @@ (b :> bConfig)
                          @@ (Dir("l") :> bConfig), <<Dir("a"), b>>, staged)
    IN  [tree1 EXCEPT !.target = @ @@ (Dir("l") :> b)]

Test == HookOn("test", {"lint"}, FALSE, None, Plain)
OnMain == HookOn("lint", {}, TRUE, None, [Plain EXCEPT !.branchNot = {"main"}])
PackageCases ==
    {[invocation |-> [Affected EXCEPT !.group = g], tree |-> PackageTree(inherit, own, links, bDeps, staged)] :
        g \in {None, "g"}, inherit \in {None, "override", "none"},
        own \in {<<OnMain>>, <<Test, HookOn("lint", {}, FALSE, None, Plain)>>},
        links \in {"none", "link first", "either", "same name"}, bDeps \in {<<>>, <<"a", "a">>},
        staged \in {{<<"a", "x.py">>, <<"b", "x.py">>}, {<<"b", "x.py">>, <<"b", "y.md">>}, {<<"lib", "a", "x.py">>}}}
    \cup {[invocation |-> Affected, tree |-> PackageTree(None, <<Test>>, "outside", <<"a">>, {<<"a", "x.py">>})]}
    \cup {[invocation |-> i, tree |-> PackageTree(None, own, "none", <<"a">>, {<<"b", "x.py">>})] :
        own \in {<<Test>>, <<HookOn("test", {"ghost"}, FALSE, None, Plain)>>},
        i \in {[Affected EXCEPT !.allFiles = TRUE, !.cwd = Dir("a")],
               [Affected EXCEPT !.allFiles = TRUE], [Affected EXCEPT !.base = "main"],
               [Affected EXCEPT !.base = "gone"], [Affected EXCEPT !.explicit = Dir("b")]}}

-----------------------------------------------------------------------------
\* Runs without --affected: three hooks in a chain or not, one of them conditional.
PlainConfig(deps, when, parallel, failFast) ==
    ConfigOf(<<Lint, HookOn("types", deps, FALSE, None, when), HookOn("test", {"lint", "types"}, TRUE, None, Plain)>>,
             "g" :> Group(<<"test", "lint", "types">>, parallel, failFast)
               @@ "unknown" :> Group(<<"lint", "ghost">>, parallel, failFast), None, None)
PlainCases ==
    {[invocation |-> i, tree |-> TreeOf(Top :> PlainConfig(deps, when, parallel, failFast), <<>>, staged)] :
        deps \in {{}, {"lint"}, {"test"}},
        when \in {Plain, [Plain EXCEPT !.requiresNetwork = TRUE], [Plain EXCEPT !.branch = "dev"]},
        parallel, failFast \in BOOLEAN, staged \in {{}, {<<"a", "x.py">>, <<"t.md">>}},
        i \in {[Invoked EXCEPT !.group = "g"], Invoked, [Invoked EXCEPT !.group = "h"],
               [Invoked EXCEPT !.group = "unknown"],
               [Invoked EXCEPT !.group = "g", !.commitMsg = TRUE, !.offline = TRUE],
               [Invoked EXCEPT !.allFiles = TRUE, !.offline = TRUE],
               [Invoked EXCEPT !.group = "g", !.base = "main", !.cwd = Dir("a")],
               [Invoked EXCEPT !.base = "main", !.allFiles = TRUE],
               [Invoked EXCEPT !.affected = TRUE, !.commitMsg = TRUE], Affected}}

\* A config in the current directory, above it, above the repository, broken, or nowhere.
PlaceCases ==
    LET c(id) == ConfigOf(<<HookOn(id, {}, FALSE, None, Plain)>>, NoGroups, None, None)
        at(checkToml, pyproject, top) ==
            [TreeOf(checkToml, <<>>, {}) EXCEPT !.pyproject = pyproject, !.top = top]
    IN  {[invocation |-> [Invoked EXCEPT !.cwd = cwd], tree |-> at(checkToml, pyproject, top)] :
            cwd \in {Top, Dir("a")}, top \in {Top, None},
            checkToml \in {NoGroups, <<>> :> c("above"), Top :> c("top"), Top :> Broken},
            pyproject \in {NoGroups, Top :> c("pyproject"), Dir("a") :> c("nearest")}}
        \cup {[invocation |-> [Invoked EXCEPT !.explicit = Top], tree |-> at(checkToml, Top :> c("pyproject"), Top)] :
                checkToml \in {NoGroups, Top :> c("top")}}

\* One id twice, which nothing forbids.
TwiceCases ==
    LET twice == ConfigOf(<<Lint, HookOn("test", {"lint"}, FALSE, None, Plain), Lint>>,
                          "g" :> Group(<<"lint", "test", "lint">>, TRUE, TRUE), None, None)
    IN  {[invocation |-> [Invoked EXCEPT !.group = g], tree |-> TreeOf(Top :> twice, <<>>, {<<"x.py">>})] :
            g \in {None, "g"}}

AllCases == GraphCases \cup PackageCases \cup PlainCases \cup PlaceCases \cup TwiceCases
OnCi == {"CI"}
=============================================================================
