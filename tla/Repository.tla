----------------------------- MODULE Repository -----------------------------
(***************************************************************************)
(* The life of a working tree: `gatecheck migrate` writes its check.toml   *)
(* from a pre-commit configuration (migration/, config/dumper.py), the     *)
(* user edits it, `gatecheck install` writes the git hooks (install.py),   *)
(* and git runs them.  The user also has git hooks of their own, and       *)
(* commands may be killed at any step.                                     *)
(***************************************************************************)
EXTENDS Config

CONSTANTS
    Configs,     \* the check.toml that the user may write
    PreCommits,  \* by the path of the file, the pre-commit configurations
    KnownRepos,  \* the table of the migration: a record for each repository known
    OwnHooks,    \* git hooks that the user may write by hand
    MaxCommands, \* bounds the commands and git events
    MaxEdits,    \* bounds what the user does by hand
    None

(***************************************************************************)
(* A config has loads (whether load_config accepts it), hooks (records of  *)
(* id, from, run, files and passFiles) and groups (records of name, hooks  *)
(* and event, in declared order).  A pre-commit configuration has parses   *)
(* and hooks, one after the other through its repositories: records of id, *)
(* repo (url and the name guessed from it), rev, entry, args, files,       *)
(* passFilenames and unread, its keys that the migration has no use for    *)
(* (types, exclude, stages ...).  An id is a text and the numbers that end *)
(* it: lint-2 has <<2>> (a text does not itself end in a number).  A rev   *)
(* has text, the leading v stripped, startsAsVersion (a digit comes first) *)
(* and isVersion (a sha may start as a version); a files regex has glob,   *)
(* None unless it is a simple extension.  An argument has text, what the   *)
(* tool is to be given, and words, what shlex.split makes of that text in  *)
(* a command line: other words if it has spaces, quotes or backslashes (no *)
(* argument leaves a quote open).  A run has a list of words for each part *)
(* of its command line.  A git hook is a file with body (the user's own,   *)
(* binary, empty or script), marked (the marker occurs in it), executable  *)
(* and lines, what it runs of gatecheck.                                   *)
(***************************************************************************)
ASSUME BoundsAssumption == MaxCommands \in Nat /\ MaxEdits \in Nat
Optional(S) == S \cup {None}
Sources == [scheme : {"pypi", "system"}, package : Optional(STRING), version : Optional(STRING)]
Ids == [text : STRING, numbers : Seq(Nat)]
HookDefs == [id : Ids, from : Sources, run : Seq(Seq(STRING)), files : Optional(STRING), passFiles : BOOLEAN]
Events == {"commit", "push", "commit-msg"}
GroupDefs == [name : STRING, hooks : SUBSET Ids, event : Optional(Events)]
Revs == [text : STRING, startsAsVersion : BOOLEAN, isVersion : BOOLEAN]
Args == [text : STRING, words : Seq(STRING)]
PreCommitHooks ==
    [id : Ids, repo : [url : STRING, name : STRING], rev : Optional(Revs), entry : Optional(STRING),
     args : Seq(Args), files : Optional([glob : Optional(STRING)]),
     passFilenames : Optional({"true", "false"}), unread : SUBSET STRING]

ASSUME ConfigsAssumption ==
    Configs \subseteq [loads : BOOLEAN, hooks : Seq(HookDefs), groups : Seq(GroupDefs)]
ASSUME PreCommitsAssumption ==
    \A path \in DOMAIN PreCommits :
        PreCommits[path] \in [parses : BOOLEAN, hooks : Seq(PreCommitHooks)]
ASSUME OwnHooksAssumption ==
    /\ OwnHooks \subseteq [body : {"own", "binary"}, marked : BOOLEAN, executable : BOOLEAN, lines : {<<>>}]
    /\ \A f \in OwnHooks : f.marked => f.body = "own"
ASSUME GroupsAssumption ==
    \A c \in Configs : IsInjective([p \in DOMAIN c.groups |-> c.groups[p].name])

Lines == Seq([group : STRING, message : BOOLEAN])
Files == [body : {"own", "binary", "empty", "script"}, marked : BOOLEAN, executable : BOOLEAN,
          lines : Lines]
ASSUME NoneAssumption == None \notin Events /\ None \notin Files

VARIABLES
    checkToml, \* by place, the check.toml there, or None
    gitHooks,  \* by git hook, its file or None
    command,   \* the install or migrate that is running, or None
    event,     \* what git runs, or ran last, or None
    spent,     \* how many commands and how many edits there were
    promise,   \* by git hook, the config of the last report, if that installed it (history)
    found,     \* what the install in hand found where the user has written nothing since (history)
    migrated   \* the last migration written, until its check.toml is written anew (history)

vars == <<checkToml, gitHooks, command, event, spent, promise, found, migrated>>

Places == {"top", "below", "elsewhere"} \* the root of the repository, a directory in it, one outside
GitHooks == {"pre-commit", "pre-push", "commit-msg"}

-----------------------------------------------------------------------------
(* Configurations. *)

\* discover_config, which does not look above the root of the repository.
Discovered(place) ==
    IF checkToml[place] # None THEN checkToml[place]
    ELSE IF place = "below" THEN checkToml["top"] ELSE None

Loads(config) == config # None /\ config.loads

\* What dump_config writes: no table that the migration does not have.
Dumped(hooks) == [loads |-> TRUE, hooks |-> hooks, groups |-> <<>>]

EventToHook ==
    [e \in Events |-> CASE e = "commit" -> "pre-commit"
                        [] e = "push" -> "pre-push"
                        [] e = "commit-msg" -> "commit-msg"]

\* The positions of the groups that are declared for an event.
Declaring(config) == {p \in DOMAIN config.groups : config.groups[p].event # None}

OnEvent(config) == AtPositions(config.groups, Declaring(config))

\* Faulty: a git hook for each group.
HooksOfEach(config) == [p \in DOMAIN OnEvent(config) |-> EventToHook[OnEvent(config)[p].event]]

\* _groups_by_hook: the git hooks as their first groups come, and the groups of each.
HooksOf(config) == FirstMentions([p \in DOMAIN OnEvent(config) |-> EventToHook[OnEvent(config)[p].event]])
GroupsOf(config, hook) ==
    AtPositions(config.groups,
                {p \in Declaring(config) : EventToHook[config.groups[p].event] = hook})

\* The lines of a script: a group, and whether it is given git's message file.
Script(config, hook) ==
    [p \in DOMAIN GroupsOf(config, hook) |->
        [group |-> GroupsOf(config, hook)[p].name, message |-> hook = "commit-msg"]]

-----------------------------------------------------------------------------
(* map_precommit. *)

\* The base and the arguments, joined by _command, as tokenize takes them apart.
Command(base, h) == <<<<base>>>> \o [p \in DOMAIN h.args |-> h.args[p].words]
EntryOrId(h) == IF h.entry # None THEN h.entry ELSE h.id

KnownCommand(known, h) ==
    IF h.id \in DOMAIN known.byId THEN Command(known.byId[h.id], h)
    ELSE IF known.command # None THEN Command(known.command, h)
    ELSE Command(EntryOrId(h), h)

From(package, version) == [scheme |-> "pypi", package |-> package, version |-> version]
System == [scheme |-> "system", package |-> None, version |-> None]

PypiSource(package, rev) ==
    From(package, IF rev # None /\ rev.startsAsVersion THEN rev.text ELSE None)

Source(h) ==
    IF h.repo.url = "local" THEN System
    ELSE IF h.repo.url \notin DOMAIN KnownRepos THEN From(h.repo.name, None)
    ELSE IF KnownRepos[h.repo.url].source = "system" THEN System
    ELSE PypiSource(KnownRepos[h.repo.url].package, h.rev)

Run(h) ==
    IF h.repo.url \in DOMAIN KnownRepos THEN KnownCommand(KnownRepos[h.repo.url], h)
    ELSE Command(EntryOrId(h), h)

\* What the user is told of a hook.
Warnings(h) ==
    LET known == h.repo.url \in DOMAIN KnownRepos
        system == known /\ KnownRepos[h.repo.url].source = "system"
    IN  {w \in {"system tool", "guess", "unpinned", "files"} :
            \/ w = "system tool" /\ system
            \/ w = "guess" /\ ~known /\ h.repo.url # "local"
            \/ w = "unpinned" /\ known /\ ~system /\ h.rev # None /\ ~h.rev.startsAsVersion
            \/ w = "files" /\ h.files # None /\ h.files.glob = None}

Numbered(id, n) == [text |-> id.text, numbers |-> Append(id.numbers, n)]

\* Faulty: every repetition is the second.
UniqueIdUncounted(ids, p) ==
    IF \E q \in 1..p - 1 : ids[q] = ids[p] THEN Numbered(ids[p], 2) ELSE ids[p]

\* _unique_id for the p-th hook: a repeated id gets a number.
Before(ids, p) == {q \in 1..p - 1 : ids[q] = ids[p]}
UniqueId(ids, p) ==
    IF Before(ids, p) = {} THEN ids[p] ELSE Numbered(ids[p], Cardinality(Before(ids, p)) + 1)

Mapped(h, id) ==
    [id |-> id, from |-> Source(h), run |-> Run(h),
     files |-> IF h.files = None THEN None ELSE h.files.glob, passFiles |-> h.passFilenames # "false"]

MapPrecommit(hooks) ==
    LET ids == [p \in DOMAIN hooks |-> hooks[p].id]
    IN  [p \in DOMAIN hooks |-> Mapped(hooks[p], UniqueId(ids, p))]

-----------------------------------------------------------------------------
\* At the root there may be a check.toml and a git hook of the user's.
Init ==
    /\ \E config \in Configs \cup {None} : checkToml = [[p \in Places |-> None] EXCEPT !["top"] = config]
    /\ \E file \in OwnHooks \cup {None} : gitHooks = [[h \in GitHooks |-> None] EXCEPT !["pre-commit"] = file]
    /\ command = None /\ event = None
    /\ spent = [commands |-> 0, edits |-> 0]
    /\ promise = [h \in GitHooks |-> None] /\ found = gitHooks
    /\ migrated = None

Spend(what) == spent' = [spent EXCEPT ![what] = @ + 1]
SpendCommand == spent.commands < MaxCommands /\ Spend("commands")
SpendEdit == spent.edits < MaxEdits /\ Spend("edits")

\* Any history of a check.toml ends when it is written.
Rewrite(place, config) ==
    /\ checkToml' = [checkToml EXCEPT ![place] = config]
    /\ migrated' = IF migrated # None /\ migrated.place = place THEN None ELSE migrated

\* The user writes a check.toml, or deletes it.
EditConfig(place, config) ==
    /\ SpendEdit
    /\ Rewrite(place, config)
    /\ UNCHANGED <<gitHooks, command, event, promise, found>>

IsCommand(name) == command # None /\ command.name = name
AtStep(step) == IsCommand("install") /\ command.step = step
Hook == Head(command.todo)

\* The user writes a git hook, or deletes it; not in the moment that install is writing it.
EditHook(hook, file) ==
    /\ ~((AtStep("write") \/ AtStep("chmod")) /\ Hook = hook)
    /\ SpendEdit
    /\ gitHooks' = [gitHooks EXCEPT ![hook] = file]
    /\ promise' = [promise EXCEPT ![hook] = None]
    /\ found' = [found EXCEPT ![hook] = None]
    /\ command' = IF IsCommand("install") THEN [command EXCEPT !.installed = @ \ {hook}] ELSE command
    /\ UNCHANGED <<checkToml, event, migrated>>

-----------------------------------------------------------------------------
(* gatecheck migrate. *)

\* Nothing is written unless the input parses; then the output is truncated.
Migrate(place, input) ==
    /\ command = None /\ SpendCommand
    /\ IF PreCommits[input].parses
       THEN /\ command' = [name |-> "migrate", place |-> place, input |-> input]
            /\ Rewrite(place, Dumped(<<>>))
       ELSE UNCHANGED <<command, checkToml, migrated>>
    /\ UNCHANGED <<gitHooks, event, promise, found>>

MigrateWrites ==
    /\ IsCommand("migrate")
    /\ checkToml' = [checkToml EXCEPT ![command.place] = Dumped(MapPrecommit(PreCommits[command.input].hooks))]
    /\ migrated' = [place |-> command.place, input |-> command.input,
                    warnings |-> [p \in DOMAIN PreCommits[command.input].hooks |->
                                    Warnings(PreCommits[command.input].hooks[p])]]
    /\ command' = None
    /\ UNCHANGED <<gitHooks, event, spent, promise, found>>

-----------------------------------------------------------------------------
(* gatecheck install. *)

\* The config is loaded once; without a group to install, or a repository, that is all.
NothingToInstall(config) == Loads(config) /\ HooksOf(config) = <<>>

Install(config, cwd) ==
    /\ command = None /\ SpendCommand
    /\ command' = IF Loads(config) /\ HooksOf(config) # <<>> /\ cwd # "elsewhere"
                  THEN [name |-> "install", config |-> config, todo |-> HooksOf(config),
                        step |-> "look", installed |-> {}]
                  ELSE None
    /\ found' = gitHooks
    /\ promise' = IF NothingToInstall(config) THEN [h \in GitHooks |-> None] ELSE promise
    /\ UNCHANGED <<checkToml, gitHooks, event, migrated>>

InstallDiscovered(cwd) == Install(Discovered(cwd), cwd)
InstallFrom(place, cwd) == checkToml[place] # None /\ Install(checkToml[place], cwd)

File == gitHooks[Hook]
Writing(file) == gitHooks' = [gitHooks EXCEPT ![Hook] = file]
Goto(step) == command' = [command EXCEPT !.step = step]

\* The next hook; after the last one, the report says what was installed.  Nothing is promised
\* of what the user has written since, nor of the scripts of groups that the config has not.
NextHook(installed) ==
    /\ IF Len(command.todo) = 1
       THEN /\ command' = None
            /\ promise' = [h \in GitHooks |-> IF h \in installed THEN command.config ELSE None]
       ELSE /\ command' = [command EXCEPT !.todo = Tail(@), !.step = "look", !.installed = installed]
            /\ UNCHANGED promise

\* Faulty: whatever is there is replaced.
MayWriteAlways(file) == TRUE

MayWrite(file) == file # None => file.marked
MayRead(file) == file # None => file.body # "binary"

\* The hook is read: a foreign one is skipped; one that is not text ends the install.
Look ==
    /\ AtStep("look")
    /\ \/ ~MayRead(File) /\ command' = None /\ UNCHANGED promise
       \/ MayRead(File) /\ ~MayWrite(File) /\ NextHook(command.installed)
       \/ MayRead(File) /\ MayWrite(File) /\ Goto("truncate") /\ UNCHANGED promise
    /\ UNCHANGED <<checkToml, gitHooks, event, spent, found, migrated>>

\* write_text opens the file first: it keeps its mode, or has none to execute it.
Truncate ==
    /\ AtStep("truncate")
    /\ Writing([body |-> "empty", marked |-> FALSE, lines |-> <<>>,
                executable |-> File # None /\ File.executable])
    /\ promise' = [promise EXCEPT ![Hook] = None]
    /\ Goto("write")
    /\ UNCHANGED <<checkToml, event, spent, found, migrated>>

Write ==
    /\ AtStep("write")
    /\ Writing([File EXCEPT !.body = "script", !.marked = TRUE,
                             !.lines = Script(command.config, Hook)])
    /\ Goto("chmod")
    /\ UNCHANGED <<checkToml, event, spent, promise, found, migrated>>

\* Faulty: a script that was just created cannot be executed.
ChmodSkipped ==
    /\ AtStep("chmod")
    /\ NextHook(command.installed \cup {Hook})
    /\ UNCHANGED <<checkToml, gitHooks, event, spent, found, migrated>>

Chmod ==
    /\ AtStep("chmod")
    /\ Writing([File EXCEPT !.executable = TRUE])
    /\ NextHook(command.installed \cup {Hook})
    /\ UNCHANGED <<checkToml, event, spent, found, migrated>>

\* The command is killed, or its disk is full.
Kill ==
    /\ command # None
    /\ command' = None
    /\ UNCHANGED <<checkToml, gitHooks, event, spent, promise, found, migrated>>

-----------------------------------------------------------------------------
(* git runs a hook, at the root of the repository. *)

Running == event # None /\ event.outcome = "running"

\* A hook that is missing or not executable is passed over.
GitEvent(hook) ==
    LET file == gitHooks[hook]
        runs == file # None /\ file.executable
    IN  /\ ~Running /\ SpendCommand
        /\ event' = [hook |-> hook, promise |-> promise[hook], ran |-> <<>>,
                     todo |-> IF runs THEN file.lines ELSE <<>>,
                     outcome |-> IF runs THEN "running" ELSE "passed"]
        /\ UNCHANGED <<checkToml, gitHooks, command, promise, found, migrated>>

\* build_plan knows the group and all its hooks.
Plannable(config, group) ==
    \E p \in DOMAIN config.groups :
        /\ config.groups[p].name = group
        /\ config.groups[p].hooks \subseteq IdsOf(config.hooks)

\* `gatecheck run <group>`, the next line of the script, which passes or fails.
RunLine ==
    /\ Running /\ event.todo # <<>>
    /\ \/ /\ Loads(Discovered("top")) /\ Plannable(Discovered("top"), Head(event.todo).group)
          /\ event' = [event EXCEPT !.todo = Tail(@), !.ran = Append(@, Head(event.todo))]
       \/ event' = [event EXCEPT !.outcome = "failed"]
    /\ UNCHANGED <<checkToml, gitHooks, command, spent, promise, found, migrated>>

\* The end of the script, as far as gatecheck has a part in it.
ScriptEnds ==
    /\ Running /\ event.todo = <<>>
    /\ event' = [event EXCEPT !.outcome = "passed"]
    /\ UNCHANGED <<checkToml, gitHooks, command, spent, promise, found, migrated>>

Next ==
    \/ \E place \in Places, config \in Configs \cup {None} : EditConfig(place, config)
    \/ \E hook \in GitHooks, file \in OwnHooks \cup {None} : EditHook(hook, file)
    \/ \E place \in Places, input \in DOMAIN PreCommits : Migrate(place, input)
    \/ MigrateWrites
    \/ \E cwd \in Places : InstallDiscovered(cwd)
    \/ \E place, cwd \in Places : InstallFrom(place, cwd)
    \/ Look \/ Truncate \/ Write \/ Chmod
    \/ Kill
    \/ \E hook \in GitHooks : GitEvent(hook)
    \/ RunLine \/ ScriptEnds

Spec == Init /\ [][Next]_vars

-----------------------------------------------------------------------------
(* Properties. *)

TypeOK ==
    /\ spent.commands \in 0..MaxCommands /\ spent.edits \in 0..MaxEdits
    /\ \A h \in GitHooks : gitHooks[h] # None /\ gitHooks[h].lines # <<>> => gitHooks[h].body = "script"
    /\ \A h \in GitHooks : promise[h] # None => gitHooks[h] # None
    /\ IsCommand("install") => /\ command.todo # <<>> /\ IsInjective(command.todo)
                               /\ ToSet(command.todo) \subseteq GitHooks \ command.installed
    /\ IsCommand("migrate") => PreCommits[command.input].parses
    /\ event # None => event.hook \in GitHooks /\ event.outcome \in {"running", "passed", "failed"}

(***************************************************************************)
(* Install does not touch a hook that it did not write: what it found      *)
(* without the marker, the user's or what a killed install left, stays as  *)
(* it is, whatever is installed around it and however installs end.        *)
(***************************************************************************)
ForeignHooksKept ==
    \A h \in GitHooks : found[h] # None /\ ~found[h].marked => gitHooks[h] = found[h]

(***************************************************************************)
(* After an install, git's events run the groups that its config declares  *)
(* for them, in that order, and go through only after all of these: also   *)
(* after installs of other configs, over old scripts, killed ones, and     *)
(* when the config that git meets is another by then.  This is of the      *)
(* hooks that the last report of an install names as installed and that    *)
(* nobody has written since.  It cannot be said of an event for which that *)
(* config has no group: the script that an earlier install left there      *)
(* stays, and runs, although docs/cli/install.md has a new install follow  *)
(* the groups that were removed.                                           *)
(***************************************************************************)
Declared(config, hook) ==
    LET places == {p \in DOMAIN config.groups :
                     <<config.groups[p].event, hook>> \in
                        {<<"commit", "pre-commit">>, <<"push", "pre-push">>,
                         <<"commit-msg", "commit-msg">>}}
    IN  [p \in places |-> config.groups[p].name]

EventsRunTheirGroups ==
    event # None /\ event.promise # None =>
        LET due == Declared(event.promise, event.hook)
            place(k) == CHOOSE p \in DOMAIN due : due[p] = event.ran[k].group
        IN  /\ \A k \in DOMAIN event.ran :
                 /\ event.ran[k].group \in {due[p] : p \in DOMAIN due}
                 /\ event.ran[k].message <=> event.hook = "commit-msg"
                 /\ \A j \in 1..k - 1 : place(j) < place(k)
            /\ event.outcome = "passed" => Len(event.ran) = Cardinality(DOMAIN due)

\* What the hook e of gatecheck, which is made of h, does not do as h says.
Lost(e, h) ==
    h.unread \cup
    {w \in {"args", "passing", "files", "tool", "version"} :
        \/ w = "args" /\ Tail(e.run) # [p \in DOMAIN h.args |-> <<h.args[p].text>>]
        \/ w = "passing" /\ e.passFiles = (h.passFilenames = "false")
        \/ w = "files" /\ h.files # None /\ (e.files = None \/ e.files # h.files.glob)
        \/ /\ w = "tool" /\ h.repo.url # "local"
           /\ h.repo.url \notin DOMAIN KnownRepos \/ e.from.package # KnownRepos[h.repo.url].package
        \/ /\ w = "version" /\ h.repo.url # "local" /\ h.rev # None
           /\ ~h.rev.isVersion \/ e.from.version # h.rev.text}

\* What the warnings of a hook tell of.
Told(warnings) ==
    {w \in {"files", "tool", "version"} :
        \/ w = "files" /\ "files" \in warnings
        \/ w = "tool" /\ warnings \cap {"guess", "system tool"} # {}
        \/ w = "version" /\ warnings \cap {"unpinned", "guess", "system tool"} # {}}

\* What goes without a warning all the same.
Untold(h) ==
    h.unread \cup
    {w \in {"args", "version"} :
        \/ w = "args" /\ \E p \in DOMAIN h.args : h.args[p].words # <<h.args[p].text>>
        \/ w = "version" /\ h.rev # None /\ h.rev.startsAsVersion /\ ~h.rev.isVersion}

(***************************************************************************)
(* docs/getting-started/migration.md: "nothing is silently dropped", which *)
(* is true but for three things.  Every hook of the pre-commit             *)
(* configuration is one that a run executes, and what it does not do as it *)
(* said there (the arguments, whether files are passed and which, the tool *)
(* and its version) the user was warned of, except keys that the migration *)
(* does not read, arguments that shlex.split changes, and revs that only   *)
(* start as a version.  Not so when an id reads like the one that a        *)
(* repetition of another gets.                                             *)
(***************************************************************************)
ReadsAsRepetition(hooks) ==
    \E p, q \in DOMAIN hooks, n \in 2..Len(hooks) : hooks[p].id = Numbered(hooks[q].id, n)

MigrationTellsWhatItDrops ==
    migrated # None =>
        LET hooks == PreCommits[migrated.input].hooks
            written == checkToml[migrated.place].hooks
        IN  /\ Len(written) = Len(hooks)
            /\ ~ReadsAsRepetition(hooks) => \A p \in DOMAIN hooks :
                 Lost(Definition(written, written[p].id), hooks[p])
                    \subseteq Told(migrated.warnings[p]) \cup Untold(hooks[p])
=============================================================================
