------------------------------ MODULE Pinning ------------------------------
(***************************************************************************)
(* From a hook's `from` to the environment it runs in: parsing it          *)
(* (sources/parser.py), locating a tool (sources/resolver.py) or pinning a *)
(* requirement on a package index that moves on (registry/*.py), the cache *)
(* key made of the pin (env/manager.py), and what `sync`, `cache why`,     *)
(* `run` and `run --affected` make of it, one command after another.       *)
(*                                                                         *)
(* How commands share the cache at the same time is EnvCache; here a slot  *)
(* is there, with what was installed in it, or it is not.                  *)
(***************************************************************************)
EXTENDS Naturals, SequencesExt, TLC

CONSTANTS
    Versions, \* what each version text means to packaging: a record by the normalized text
    Aliases,  \* the texts that may name a registry
    Worlds,   \* configs, machines and indexes over time
    None

(***************************************************************************)
(* Versions[v] has rank (the order of versions; two texts, as 1.0 and      *)
(* 1.0.0, may share one), public (the rank without the local part), series *)
(* (what a prefix match looks at) and pre (it is a pre-release).           *)
(*                                                                         *)
(* A world has hooks (records of from and tool, None when run cannot be    *)
(* split), sources ([sources] of the config, or None), python (the         *)
(* package's, or None), places (where the tool is installed), history (the *)
(* pages by http URL, as time goes by), commands (how many are run) and   *)
(* fallsBack (whether the packaging installed falls back on pre-releases   *)
(* for a specifier with clauses: version 24 does not).                     *)
(* A from has scheme, alias and requirement, each None when it is not      *)
(* there; a requirement has valid, markers (or extras), name, canonical    *)
(* (the name normalized) and clauses, a set of records of op and version.  *)
(* A page has status, type, body and files, in order: records of version   *)
(* (None: not a distribution) and yanked.                                  *)
(***************************************************************************)
Optional(S) == S \cup {None}
Clauses == [op : {"==", "!=", "==.*", "===", ">="}, version : DOMAIN Versions]
Requirements == [valid : BOOLEAN, markers : BOOLEAN, name : STRING, canonical : STRING,
                 clauses : SUBSET Clauses]
Froms == [scheme : STRING, alias : Optional(STRING), requirement : Optional(Requirements)]
Hooks == [from : Froms, tool : Optional(STRING)]
Files == [version : Optional(DOMAIN Versions), yanked : BOOLEAN]
Pages == [status : {"ok", "not found", "network", "cut"}, type : STRING, body : STRING, files : Seq(Files)]


\* Why there is no pin.
Reasons == {"unknown alias", "unsupported scheme", "requirement", "not exact", "no version",
            "malformed", "not found", "network", "cut"}

Kinds == {"sync", "why", "run", "affected"}
Commands == [kind : Kinds, offline : BOOLEAN]

ASSUME NoneAssumption == None \notin Reasons \cup DOMAIN Versions /\ None \notin Commands
ASSUME VersionsAssumption ==
    /\ \A v \in DOMAIN Versions :
         /\ Versions[v].rank \in Nat /\ Versions[v].public \in Nat
         /\ Versions[v].public <= Versions[v].rank /\ Versions[v].pre \in BOOLEAN
    /\ \A v, w \in DOMAIN Versions : Versions[v].rank = Versions[w].rank => Versions[v] = Versions[w]

Urls(w) == DOMAIN w.history[1]
ASSUME WorldsAssumption ==
    \A w \in Worlds :
        /\ w.hooks \in Seq(Hooks) /\ w.hooks # <<>>
        /\ w.sources # None =>
             /\ w.sources.default \in Optional(STRING)
             /\ \A alias \in DOMAIN w.sources.extra : w.sources.extra[alias] \in STRING
        /\ w.python \in Optional(STRING)
        /\ w.commands \in Nat \ {0}
        /\ Len(w.history) \in Nat \ {0} /\ DOMAIN w.history = 1..Len(w.history)
        /\ \A i \in 1..Len(w.history) :
             /\ DOMAIN w.history[i] = Urls(w)
             /\ \A url \in Urls(w) : w.history[i][url] \in Pages

VARIABLES
    world,   \* the config, the machine and what the index will be, fixed
    now,     \* where in its history the index is
    cache,   \* what is installed in each slot, by cache key
    left,    \* how many commands are still to come
    command, \* the one in hand: kind and offline, or None
    todo,    \* its hooks, by their places in the config
    phase,   \* what it does with the first of them
    pin,     \* the last pin made: name, version, url and error, or None
    seen,    \* what was asked of the index for it and the files it listed, or None
    report,  \* what the command has said of its hooks
    synced   \* the hooks the last complete sync said are there (history)

vars == <<world, now, cache, left, command, todo, phase, pin, seen, report, synced>>

Pypi == "https://pypi.org/simple"
Phases == {"idle", "explain", "resolve", "build", "check"}
Good == {"built", "cached", "ready", "hit", "miss", "not-applicable", "ran"}

Hook == world.hooks[Head(todo)]
Index == world.history[now]

-----------------------------------------------------------------------------
(* parse_source. *)

ParseSource(from) ==
    CASE from.scheme \in {"project", "system"} -> from.scheme
      [] from.scheme = "pypi" /\ from.requirement # None -> "pypi"
      [] from.scheme = "pypi+" /\ from.alias \in Aliases /\ from.requirement # None -> "pypi"
      [] from.scheme \in {"local", "git", "docker"} -> "unsupported"
      [] OTHER -> "malformed"

\* load_config accepts what can be parsed, supported or not.
ConfigLoads == \A p \in DOMAIN world.hooks : ParseSource(world.hooks[p].from) # "malformed"

\* resolve_source: where the tool is found, or None.
Located(kind) ==
    LET venvs == <<"VIRTUAL_ENV", IF command.kind = "affected" THEN "package .venv" ELSE ".venv">>
        places == IF kind = "system" THEN <<"PATH">> ELSE venvs
        found == SelectSeq(places, LAMBDA p : p \in world.places)
    IN  IF found = <<>> THEN None ELSE found[1]

-----------------------------------------------------------------------------
(* What packaging says of versions and specifiers. *)

Rank(v) == Versions[v].rank
IsLocal(v) == Versions[v].rank # Versions[v].public

Equals(v, w) == IF IsLocal(w) THEN Rank(v) = Rank(w) ELSE Versions[v].public = Versions[w].public
Matches(c, v) ==
    CASE c.op = "==" -> Equals(v, c.version)
      [] c.op = "!=" -> ~Equals(v, c.version)
      [] c.op = "==.*" -> Versions[v].series = Versions[c.version].series
      [] c.op = "===" -> v = c.version
      [] c.op = ">=" -> Versions[v].public >= Versions[c.version].public

Satisfies(v, clauses) == \A c \in clauses : Matches(c, v)

\* A clause that names a pre-release asks for them.
AsksForPre(clauses) == \E c \in clauses : c.op \in {"==", "===", ">="} /\ Versions[c.version].pre

Filter(clauses, vs) ==
    LET matching == {v \in vs : Satisfies(v, clauses)}
        stable == {v \in matching : ~Versions[v].pre}
    IN  IF AsksForPre(clauses) THEN matching
        ELSE IF stable = {} /\ (clauses = {} \/ world.fallsBack) THEN matching ELSE stable

-----------------------------------------------------------------------------
(* The index. *)

\* fetch_project: the files, or what went wrong.
Listing(files) == [error |-> None, files |-> files]
NoListing(why) == [error |-> why, files |-> <<>>]

\* HTML that is not HTML has no anchors; only what cannot be decoded is malformed.
ParseHtml(page) ==
    IF page.body = "undecodable" THEN NoListing("malformed")
    ELSE Listing(IF page.body = "html" THEN page.files ELSE <<>>)
ParseJson(page) == IF page.body = "json" THEN Listing(page.files) ELSE NoListing("malformed")

Fetch(page) ==
    IF page.status # "ok" THEN NoListing(page.status)
    ELSE IF page.type = "html" \/ (page.type # "json" /\ page.body # "json") THEN ParseHtml(page)
    ELSE ParseJson(page)

\* _enumerate_versions: the versions of distributions, each as the first of its files spells it.
EnumerateVersions(files) ==
    LET dists == {p \in DOMAIN files : files[p].version # None}
    IN  {files[p].version : p \in {q \in dists :
            \A o \in dists : o < q => Rank(files[o].version) # Rank(files[q].version)}}

FilesOf(v, files) == {f \in ToSet(files) : f.version # None /\ Rank(f.version) = Rank(v)}

\* Faulty: one yanked file is enough.
AnyFileYanked(v, files) == \E f \in FilesOf(v, files) : f.yanked

VersionYanked(v, files) == \A f \in FilesOf(v, files) : f.yanked

\* _is_exact_pin, which a prefix match passes as well.
IsExactPin(clauses) == \E c \in clauses : c.op \in {"==", "===", "==.*"}

SelectVersion(clauses, files) ==
    LET matched == Filter(clauses, EnumerateVersions(files))
        live == {v \in matched : ~VersionYanked(v, files)}
        selectable == IF live # {} THEN live ELSE IF IsExactPin(clauses) THEN matched ELSE {}
    IN  IF selectable = {} THEN None
        ELSE CHOOSE v \in selectable : \A w \in selectable : Rank(w) <= Rank(v)

-----------------------------------------------------------------------------
(* resolve_pypi_source. *)

\* sync, `cache why` and run_affected know [sources]; the executor of a plain run does not.
Sources == IF command.kind = "run" THEN None ELSE world.sources

\* resolve_index_url: None for an alias that is not declared.
IndexUrl(from, sources) ==
    IF from.scheme = "pypi"
    THEN IF sources # None /\ sources.default # None THEN sources.default ELSE Pypi
    ELSE IF sources # None /\ from.alias \in DOMAIN sources.extra THEN sources.extra[from.alias]
    ELSE None

Pinned(name, version, url) == [name |-> name, version |-> version, url |-> url, error |-> None]
Failed(why) == [name |-> None, version |-> None, url |-> None, error |-> why]

\* _exact_version, normalized.
ExactVersion(clauses) ==
    IF \E c \in clauses : clauses = {c} /\ c.op = "=="
    THEN (CHOOSE c \in clauses : TRUE).version
    ELSE None

\* Faulty: the name is left as it is written.
OfflinePinAsWritten(r, url) ==
    IF ExactVersion(r.clauses) = None THEN Failed("not exact")
    ELSE Pinned(r.name, ExactVersion(r.clauses), url)

OfflinePin(r, url) ==
    IF ExactVersion(r.clauses) = None THEN Failed("not exact")
    ELSE Pinned(r.canonical, ExactVersion(r.clauses), url)

\* _fetch: a failure of the client is an error of the registry, but for an answer that is cut
\* short: http.client's IncompleteRead is no OSError, and nobody converts it (PinFails).
Answer(url) == Fetch(Index[url])

OnlinePin(r, url) ==
    LET answer == Answer(url)
        v == SelectVersion(r.clauses, answer.files)
    IN  IF answer.error # None THEN Failed(answer.error)
        ELSE IF v = None THEN Failed("no version") ELSE Pinned(r.canonical, v, url)

\* _parse_requirement: markers and extras are not supported.
Unsupported(r) == ~r.valid \/ r.markers

PinOf(from) ==
    LET url == IndexUrl(from, Sources)
        r == from.requirement
    IN  IF url = None THEN Failed("unknown alias")
        ELSE IF url \notin DOMAIN Index THEN Failed("unsupported scheme")
        ELSE IF Unsupported(r) THEN Failed("requirement")
        ELSE IF command.offline THEN OfflinePin(r, url) ELSE OnlinePin(r, url)

\* The pin of the hook in hand, and what the index listed if it was asked and answered.
MakePin ==
    /\ pin' = PinOf(Hook.from)
    /\ seen' = IF ~command.offline /\ pin'.error \in {None, "no version"}
               THEN [files |-> Answer(IndexUrl(Hook.from, Sources)).files,
                     clauses |-> Hook.from.requirement.clauses]
               ELSE None

-----------------------------------------------------------------------------
(* The environment of a hook. *)

Python == IF command.kind = "affected" THEN world.python ELSE None

\* Faulty: the interpreter is no part of the key.
KeyWithoutPython(p) == <<p.name, p.version, p.url>>

\* _pypi_key_material; the scheme and the kind are the same for all.
Key(p) == IF Python = None THEN <<p.name, p.version, p.url>>
          ELSE <<p.name, p.version, p.url, Python>>

Healthy(p) == Key(p) \in DOMAIN cache

Init ==
    /\ world \in Worlds
    /\ now = 1
    /\ cache = [k \in {} |-> None]
    /\ left = world.commands
    /\ command = None /\ todo = <<>> /\ phase = "idle"
    /\ pin = None /\ seen = None
    /\ report = {} /\ synced = {}

\* A release, a yank or an outage, at any time.
IndexMoves ==
    /\ now < Len(world.history)
    /\ now' = now + 1
    /\ UNCHANGED <<world, cache, left, command, todo, phase, pin, seen, report, synced>>

AllHooks == [p \in DOMAIN world.hooks |-> p]
FirstPhase(kind) == IF kind \in {"sync", "why"} THEN "explain" ELSE "resolve"

\* A command that cannot load its config does nothing.
Rejected(kind) ==
    /\ phase = "idle" /\ left > 0 /\ ~ConfigLoads
    /\ left' = left - 1
    /\ command' = [kind |-> kind, offline |-> FALSE]
    /\ report' = {}
    /\ UNCHANGED <<world, now, cache, todo, phase, pin, seen, synced>>

\* A sync or a run deals with every hook, `cache why` with the one it is asked about.
Start(kind, offline) ==
    /\ phase = "idle" /\ left > 0 /\ ConfigLoads
    /\ left' = left - 1
    /\ command' = [kind |-> kind, offline |-> offline]
    /\ IF kind = "why" THEN \E p \in DOMAIN world.hooks : todo' = <<p>> ELSE todo' = AllHooks
    /\ phase' = FirstPhase(kind)
    /\ pin' = None /\ seen' = None /\ report' = {}
    /\ UNCHANGED <<world, now, cache, synced>>

Said(status) == {r.hook : r \in {s \in report' : s.status = status}}
Ends == phase' = "idle"

\* What is reported of the hook in hand; the next one follows.
Settle(status) ==
    /\ report' = report \cup {[hook |-> Head(todo), status |-> status]}
    /\ todo' = Tail(todo)
    /\ phase' = IF Len(todo) = 1 THEN "idle" ELSE FirstPhase(command.kind)
    /\ synced' = IF command.kind = "sync" /\ Ends
                 THEN Said("built") \cup Said("cached") \cup Said("ready") ELSE synced
    /\ UNCHANGED <<world, now, left, command>>

\* Faulty: the hooks after it are still due.
RaiseInTurn ==
    /\ report' = report \cup {[hook |-> Head(todo), status |-> "raised"]}
    /\ phase' = "idle"
    /\ UNCHANGED <<world, now, left, command, todo, synced>>

\* An exception that nobody converts ends the command for all hooks.
Raise ==
    /\ report' = report \cup {[hook |-> Head(todo), status |-> "raised"]}
    /\ todo' = <<>> /\ phase' = "idle"
    /\ UNCHANGED <<world, now, left, command, synced>>

\* EnvError and RegistryError are reported by all; the errors of sources by sync alone.
EnvFails == Settle("error")
PinFails == IF pin'.error = "cut" THEN Raise ELSE EnvFails
SourceFails == IF command.kind = "sync" THEN Settle("error") ELSE Raise

\* How far resolve and explain get without pinning: a tool is located, or an error is raised.
Dispatch ==
    LET kind == ParseSource(Hook.from)
    IN  IF kind = "unsupported" \/ Hook.tool = None THEN "env error"
        ELSE IF kind = "pypi" THEN "pypi"
        ELSE IF Located(kind) = None THEN "source error" ELSE "located"

Proceed(next) == phase' = next /\ UNCHANGED <<world, now, left, command, todo, report, synced>>

\* What explain and resolve have in common.
WithoutPinning(located) ==
    /\ \/ Dispatch = "source error" /\ SourceFails
       \/ Dispatch = "env error" /\ EnvFails
       \/ Dispatch = "located" /\ Settle(located)
    /\ UNCHANGED <<pin, seen>>

\* EnvManager.explain, and the use that sync and `cache why` make of it.
Explain ==
    /\ phase = "explain"
    /\ \/ WithoutPinning(IF command.kind = "sync" THEN "ready" ELSE "not-applicable")
       \/ /\ Dispatch = "pypi"
          /\ MakePin
          /\ IF pin'.error # None THEN PinFails
             ELSE IF command.kind = "why" THEN Settle(IF Healthy(pin') THEN "hit" ELSE "miss")
             ELSE IF Healthy(pin') THEN Settle("cached") ELSE Proceed("resolve")
    /\ UNCHANGED cache

\* EnvManager.resolve, which pins again; offline, a miss is an error.
Resolve ==
    /\ phase = "resolve"
    /\ \/ WithoutPinning("ran")
       \/ /\ Dispatch = "pypi"
          /\ MakePin
          /\ IF pin'.error # None THEN PinFails
             ELSE IF command.offline /\ ~Healthy(pin') THEN EnvFails
             ELSE Proceed(IF Healthy(pin') THEN "check" ELSE "build")
    /\ UNCHANGED cache

Installed(version) == [name |-> pin.name, version |-> version, url |-> pin.url, python |-> Python]

\* uv installs NAME==VERSION from the index as it is by now, or fails.
Build ==
    /\ phase = "build"
    /\ LET page == Index[pin.url]
           fitting == {f.version : f \in {g \in ToSet(page.files) :
                         g.version # None /\ Equals(g.version, pin.version)}}
       IN  \/ /\ page.status = "ok"
              /\ \E v \in fitting :
                    cache' = [k \in DOMAIN cache \cup {Key(pin)} |->
                                IF k = Key(pin) THEN Installed(v) ELSE cache[k]]
              /\ Proceed("check")
           \/ EnvFails /\ UNCHANGED cache
    /\ UNCHANGED <<pin, seen>>

\* The tool that the hook names must be in the environment, where the hook then runs.
Check ==
    /\ phase = "check"
    /\ IF Hook.tool = "missing" THEN EnvFails
       ELSE Settle(IF command.kind = "sync" THEN "built" ELSE "ran")
    /\ UNCHANGED <<cache, pin, seen>>

Next ==
    \/ IndexMoves
    \/ \E kind \in Kinds : Rejected(kind)
    \/ \E kind \in Kinds, offline \in BOOLEAN : Start(kind, offline)
    \/ Explain \/ Resolve \/ Build \/ Check

Spec == Init /\ [][Next]_vars

-----------------------------------------------------------------------------
(* Properties. *)

TypeOK ==
    /\ world \in Worlds /\ now \in 1..Len(world.history)
    /\ left \in 0..world.commands
    /\ phase \in Phases /\ (phase = "idle" <=> todo = <<>>)
    /\ \A k \in DOMAIN cache : k[2] \in DOMAIN Versions /\ cache[k].version \in DOMAIN Versions
    /\ pin # None /\ pin.error = None => pin.version \in DOMAIN Versions
    /\ \A r \in report : r.hook \in DOMAIN world.hooks /\ r.status \in Good \cup {"error", "raised"}
    /\ synced \subseteq DOMAIN world.hooks

(***************************************************************************)
(* The rule of docs/config/reference.md, "Index and version selection": of *)
(* what satisfies the specifier, pre-releases are taken only if it opts in *)
(* or nothing else satisfies it; of these, releases withdrawn in all their *)
(* files only if it pins one exactly (== or ===) and all are withdrawn;    *)
(* and of these the highest.                                               *)
(***************************************************************************)
Satisfying(clauses, files) ==
    {f.version : f \in {g \in ToSet(files) : g.version # None /\ Satisfies(g.version, clauses)}}
Finals(vs) == {v \in vs : ~Versions[v].pre}
Eligible(clauses, files) ==
    LET all == Satisfying(clauses, files) IN
    IF AsksForPre(clauses) \/ Finals(all) = {} THEN all ELSE Finals(all)
Live(vs, files) == {v \in vs : \E f \in FilesOf(v, files) : ~f.yanked}
NamesExactly(clauses) == \E c \in clauses : c.op \in {"==", "==="}
Documented(clauses, files) ==
    LET live == Live(Eligible(clauses, files), files) IN
    IF live # {} THEN live ELSE IF NamesExactly(clauses) THEN Eligible(clauses, files) ELSE {}

\* The pin is the highest the rule allows, and there is none only if it allows none.
AsDocumented ==
    LET choice == Documented(seen.clauses, seen.files) IN
    IF pin.error = "no version" THEN choice = {}
    ELSE pin.version \in choice /\ \A v \in choice : Rank(v) <= Rank(pin.version)

\* What docs/config/reference.md says of every requirement and every index.
PinAsDocumented == seen # None => AsDocumented

(***************************************************************************)
(* Where the code departs from it: packaging 24 refuses pre-releases that  *)
(* alone satisfy a specifier with clauses; ==1.0.* passes for an exact pin *)
(* of releases that are all withdrawn; and === is held against the first   *)
(* spelling only of a release that the index spells in two ways.           *)
(***************************************************************************)
PreReleasesRefused(clauses, files) ==
    /\ clauses # {} /\ ~world.fallsBack /\ ~AsksForPre(clauses)
    /\ Satisfying(clauses, files) # {} /\ Finals(Satisfying(clauses, files)) = {}
PrefixTakenForPin(clauses, files) ==
    /\ ~NamesExactly(clauses) /\ \E c \in clauses : c.op = "==.*"
    /\ Eligible(clauses, files) # {} /\ Live(Eligible(clauses, files), files) = {}
SpeltInTwoWays(clauses, files) ==
    /\ \E c \in clauses : c.op = "==="
    /\ \E f, g \in ToSet(files) :
          /\ f.version # None /\ g.version # None
          /\ Rank(f.version) = Rank(g.version) /\ f.version # g.version
Departs(clauses, files) ==
    \/ PreReleasesRefused(clauses, files)
    \/ PrefixTakenForPin(clauses, files)
    \/ SpeltInTwoWays(clauses, files)

(***************************************************************************)
(* The pin made online is the best the index had: outside the three cases  *)
(* above it is exactly the one that the documented rule selects, whatever  *)
(* is released, withdrawn in part or in full, and in whatever order files  *)
(* are listed.                                                             *)
(***************************************************************************)
PinIsBest == seen # None /\ ~Departs(seen.clauses, seen.files) => AsDocumented

(***************************************************************************)
(* A hook runs in an environment that was made for it, whichever command   *)
(* made it, from whichever requirement, and however the index has moved    *)
(* since: the package, the version pinned (that satisfies the requirement) *)
(* and the index are its own, and so is the interpreter.                   *)
(***************************************************************************)
EnvironmentFits ==
    phase = "check" =>
        LET e == cache[Key(pin)]
            r == Hook.from.requirement
        IN  /\ e.name = r.canonical /\ e.url = pin.url
            /\ Equals(e.version, pin.version) /\ Satisfies(pin.version, r.clauses)
            /\ e.python = IF command.kind = "affected" THEN world.python ELSE None

(***************************************************************************)
(* After a sync, an offline run finds what the sync said is there: the     *)
(* index, which only the sync asked, names the release as the requirement  *)
(* pins it, however the index has moved since.  It takes a single == pin   *)
(* written as the index writes that release, an index that the run knows   *)
(* of, no other interpreter, and a package that has the tool.              *)
(***************************************************************************)
WrittenAsListed(hook, url) ==
    LET clauses == hook.from.requirement.clauses IN
    \E c \in clauses :
        /\ clauses = {c} /\ c.op = "=="
        /\ \A i \in DOMAIN world.history : \A f \in ToSet(world.history[i][url].files) :
              f.version # None /\ Equals(f.version, c.version) => f.version = c.version

KnownToRun(hook) ==
    IF command.kind = "run"
    THEN IndexUrl(hook.from, None) = IndexUrl(hook.from, world.sources)
    ELSE command.kind = "affected" /\ world.python = None

SyncedRunsOffline ==
    command # None /\ command.offline =>
        \A r \in report :
            LET hook == world.hooks[r.hook] IN
            /\ r.hook \in synced /\ ParseSource(hook.from) = "pypi" /\ hook.tool # "missing"
            /\ KnownToRun(hook) /\ WrittenAsListed(hook, IndexUrl(hook.from, world.sources))
            => r.status = "ran"
=============================================================================
