----------------------------- MODULE MCPinning -----------------------------
(***************************************************************************)
(* Instances of Pinning for TLC: every kind of requirement against indexes *)
(* that release, yank and fail; registries and interpreters; tools in      *)
(* every place and every ill-formed `from`.                                *)
(***************************************************************************)
EXTENDS Pinning

V(rank, public, series, pre) == [rank |-> rank, public |-> public, series |-> series, pre |-> pre]
SixVersions ==
    "0.9" :> V(9, 9, "0.9", FALSE) @@ "1.0" :> V(20, 20, "1.0", FALSE)
    @@ "1.0.0" :> V(20, 20, "1.0", FALSE) @@ "1.0+cpu" :> V(21, 20, "1.0", FALSE)
    @@ "1.1rc1" :> V(29, 29, "1.1", TRUE) @@ "1.1" :> V(30, 30, "1.1", FALSE)

File(v) == [version |-> v, yanked |-> FALSE]
Yanked(v) == [version |-> v, yanked |-> TRUE]
Readme == [version |-> None, yanked |-> FALSE]
PageOf(files) == [status |-> "ok", type |-> "json", body |-> "json", files |-> files]
Down == [PageOf(<<>>) EXCEPT !.status = "network"]
NotThere == [PageOf(<<>>) EXCEPT !.status = "not found"]
Cut == [PageOf(<<>>) EXCEPT !.status = "cut"]

C(op, v) == [op |-> op, version |-> v]
Requirement(clauses) == [valid |-> TRUE, markers |-> FALSE, name |-> "My_Linter",
                         canonical |-> "my-linter", clauses |-> clauses]
From(clauses) == [scheme |-> "pypi", alias |-> None, requirement |-> Requirement(clauses)]
HookFrom(from) == [from |-> from, tool |-> "linter"]

World(hooks, history, commands) ==
    [hooks |-> hooks, sources |-> None, python |-> None, places |-> {}, fallsBack |-> FALSE,
     history |-> [i \in DOMAIN history |-> Pypi :> history[i]], commands |-> commands]

-----------------------------------------------------------------------------
\* One hook with each requirement; releases appear, are withdrawn in some or all of their files.
ClauseSets ==
    {{}, {C("==", "1.0")}, {C("==", "1.0.0")}, {C("==", "1.0+cpu")}, {C("==.*", "1.0")},
     {C(">=", "1.0")}, {C(">=", "1.0"), C("!=", "1.1")}, {C("===", "1.0")},
     {C("===", "1.0.0")}, {C(">=", "1.1rc1")}}
Histories ==
    {<<PageOf(<<File("1.0")>>), PageOf(<<File("1.0"), File("1.1")>>), PageOf(<<File("1.0"), Yanked("1.1")>>)>>,
     <<PageOf(<<Readme, File("1.0"), File("1.0")>>), PageOf(<<Readme, Yanked("1.0"), File("1.0")>>),
       PageOf(<<Readme, Yanked("1.0"), Yanked("1.0.0")>>)>>,
     <<PageOf(<<File("0.9"), File("1.0.0")>>), Down, PageOf(<<File("1.0+cpu"), File("1.0"), File("1.0.0")>>)>>,
     <<Cut, PageOf(<<File("1.1rc1")>>), NotThere, PageOf(<<Yanked("1.0"), File("1.1rc1")>>)>>}

RequirementWorlds ==
    {[World(<<HookFrom(From(clauses))>>, history, 2) EXCEPT !.fallsBack = fallsBack] :
        clauses \in ClauseSets, history \in Histories, fallsBack \in BOOLEAN}

-----------------------------------------------------------------------------
\* Two hooks of one package, of which the index releases more; three commands.
SharedWorlds ==
    {[World(<<HookFrom(From({C("==", "1.0")})), HookFrom(From(clauses))>>,
            <<PageOf(<<File("1.0")>>), PageOf(<<File("1.0"), File("1.1")>>)>>, 3) EXCEPT !.python = python] :
        clauses \in {{C(">=", "1.0")}, {C("==", "1.0")}}, python \in {None, "3.9"}}

\* Registries: the default replaced or not, an alias declared or not, a mirror, a file: URL.
Corp == "https://corp/simple"
RegistryWorlds ==
    LET sources(default, extra) == [default |-> default, extra |-> extra]
        both(page) == Pypi :> page @@ Corp :> PageOf(<<File("1.0"), File("1.1")>>)
        no == [alias \in {} |-> None]
    IN  {[World(<<HookFrom([From({clause}) EXCEPT !.scheme = scheme, !.alias = alias])>>, <<None>>, 3)
             EXCEPT !.sources = declared, !.history = <<both(PageOf(<<File("1.0")>>)), both(NotThere)>>] :
            clause \in {C("==", "1.0"), C(">=", "1.0")},
            scheme \in {"pypi", "pypi+"}, alias \in {"corp"},
            declared \in {None, sources(Corp, no), sources("file:///x", no), sources(Pypi, no),
                          sources(None, "corp" :> Corp), sources(None, "corp" :> Pypi)}}

\* Answers of every kind, and requirements that cannot be used.
AnswerWorlds ==
    {World(<<HookFrom(From({C(">=", "1.0")}))>>, <<[PageOf(<<File("1.0")>>) EXCEPT !.type = type, !.body = body]>>, 1) :
        type \in {"json", "html", "other"}, body \in {"json", "html", "undecodable"}}
    \cup {World(<<HookFrom([From({}) EXCEPT !.requirement.valid = valid, !.requirement.markers = ~valid])>>,
                <<PageOf(<<File("1.0")>>)>>, 1) : valid \in BOOLEAN}

\* Sources of every kind, well-formed or not, three hooks in a row, tools here or there.
SourceWorlds ==
    LET from(scheme, alias, requirement) ==
            [scheme |-> scheme, alias |-> alias, requirement |-> requirement]
        other == HookFrom(from("system", None, None))
    IN  {[World(<<HookFrom(f), other>>, <<PageOf(<<File("1.0")>>)>>, 2) EXCEPT !.places = places] :
            f \in {from("project", None, None), from("git", None, Requirement({})), from("npm", None, Requirement({})),
                   from("bare", None, None), from("pypi", None, None), from("pypi+", "", Requirement({})),
                   from("pypi+", None, None), from("pypi+", "corp", None)},
            places \in {{}, {"PATH"}, {"VIRTUAL_ENV"}, {"PATH", ".venv"}, {"PATH", "package .venv"}}}
        \cup {World(<<[HookFrom(From({C("==", "1.0")})) EXCEPT !.tool = tool], other>>,
                    <<PageOf(<<File("1.0")>>)>>, 2) : tool \in {None, "missing"}}

AllWorlds == RequirementWorlds \cup SharedWorlds \cup RegistryWorlds \cup AnswerWorlds \cup SourceWorlds
OneAlias == {"corp"}
=============================================================================
