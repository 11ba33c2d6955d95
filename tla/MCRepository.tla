---------------------------- MODULE MCRepository ----------------------------
(***************************************************************************)
(* Instances of Repository for TLC: three configs whose groups move        *)
(* between events, git hooks written by hand, and pre-commit               *)
(* configurations with every kind of repository, rev, argument and files.  *)
(***************************************************************************)
EXTENDS Repository, TLC

Id(text) == [text |-> text, numbers |-> <<>>]
Defined(id) == [id |-> Id(id), from |-> System, run |-> <<<<id>>>>, files |-> None, passFiles |-> TRUE]
Group(name, on) == [name |-> name, event |-> on, hooks |-> {Id("lint")}]
ConfigOf(groups) == [loads |-> TRUE, hooks |-> <<Defined("lint")>>, groups |-> groups]

ThreeConfigs ==
    {ConfigOf(<<Group("format", "commit"), Group("msg", "commit-msg"), Group("lint", "commit"),
                Group("manual", None)>>),
     ConfigOf(<<Group("lint", "push"), [Group("format", "commit") EXCEPT !.hooks = {Id("gone")}]>>),
     [ConfigOf(<<>>) EXCEPT !.loads = FALSE]}

HandWritten == [body |-> "own", marked |-> FALSE, lines |-> <<>>, executable |-> TRUE]
ThreeOwnHooks == {HandWritten, [HandWritten EXCEPT !.body = "binary"], [HandWritten EXCEPT !.marked = TRUE]}

Repo(url, name) == [url |-> url, name |-> name]
Version(text) == [text |-> text, startsAsVersion |-> TRUE, isVersion |-> TRUE]
Branch(text) == [text |-> text, startsAsVersion |-> FALSE, isVersion |-> FALSE]
Sha(text) == [Branch(text) EXCEPT !.startsAsVersion = TRUE]
Plain(text) == [text |-> text, words |-> <<text>>]
Spaced == [text |-> "--ignore=E203 W503", words |-> <<"--ignore=E203", "W503">>]
H(id, repo) == [id |-> Id(id), repo |-> repo, rev |-> None, entry |-> None, args |-> <<>>,
                files |-> None, passFilenames |-> None, unread |-> {}]
Ruff == Repo("ruff-pre-commit", "ruff-pre-commit")

ThreeKnown ==
    "ruff-pre-commit" :> [source |-> "pypi", package |-> "ruff", command |-> "ruff",
                          byId |-> Id("ruff-format") :> "ruff format"]
    @@ "pre-commit-hooks" :> [source |-> "pypi", package |-> "pre-commit-hooks", command |-> None,
                              byId |-> [i \in {} |-> None]]
    @@ "mirrors-prettier" :> [source |-> "system", package |-> None, command |-> "prettier",
                              byId |-> [i \in {} |-> None]]

\* Ids three times over, ids that read as repetitions, and one hook of every other kind.
FivePreCommits ==
    "broken" :> [parses |-> FALSE, hooks |-> <<>>]
    @@ "empty" :> [parses |-> TRUE, hooks |-> <<>>]
    @@ "repeated" :> [parses |-> TRUE, hooks |->
        <<[H("ruff", Ruff) EXCEPT !.rev = Version("0.4.9"), !.args = <<Plain("--fix")>>],
          [H("ruff", Ruff) EXCEPT !.rev = Branch("main"), !.files = [glob |-> "*.py"]],
          [H("ruff-format", Ruff) EXCEPT !.rev = Sha("4abcdef"), !.unread = {"types"}],
          [H("ruff", Ruff) EXCEPT !.args = <<Plain("--diff"), Spaced>>]>>]
    @@ "collision" :> [parses |-> TRUE, hooks |->
        <<H("ruff", Ruff), [H("ruff", Ruff) EXCEPT !.id.numbers = <<2>>], [H("ruff", Ruff) EXCEPT !.args = <<Plain("--fix")>>]>>]
    @@ "others" :> [parses |-> TRUE, hooks |->
        <<[H("lint", Repo("local", "local")) EXCEPT !.entry = "make lint", !.passFilenames = "false"],
          [H("prettier", Repo("mirrors-prettier", "mirrors-prettier")) EXCEPT !.files = [glob |-> None]],
          [H("custom", Repo("acme/custom.git", "custom")) EXCEPT !.rev = Version("1.0")],
          [H("check-yaml", Repo("pre-commit-hooks", "pre-commit-hooks")) EXCEPT !.args = <<Plain("--unsafe")>>]>>]
=============================================================================
