------------------------------ MODULE EnvCache ------------------------------
(***************************************************************************)
(* The cache of virtual environments shared by every gatecheck process of  *)
(* a user: env/env_cache.py (publish_atomically), env/manager.py (resolve, *)
(* explain), env/sync.py, env/cache_clear.py, and the executor that spawns *)
(* a hook from a cached environment.                                       *)
(*                                                                         *)
(* The cache is one directory, env-v1, whose entries are the slots (named  *)
(* by cache key) and the temporary directories .building-* of the builds   *)
(* in progress.  An entry's name and the directory it leads to are kept    *)
(* apart, for a rename moves a directory that a concurrent rmtree holds    *)
(* open.  A worker is one thread of a `gatecheck run` carrying out a hook, *)
(* or a `gatecheck sync` walking the hooks of a config.                    *)
(***************************************************************************)
EXTENDS Naturals, Sequences

CONSTANTS
    Keys,      \* cache keys: (package, version, index) after pinning
    NoTool,    \* the keys whose package does not install the tool the hook names
    Workers,   \* the threads and processes that use the cache
    Casts,     \* what the workers are: for each its kind, its keys in order, offline or not
    MaxHooks,  \* how many hooks the longest config has
    MayDie,    \* the workers that may be killed or interrupted
    Clears,    \* the casts during which `gatecheck cache clear` runs, once
    None       \* no directory

\* The directories that a worker builds in: for a key, with so many hooks still to deal with.
Builds == Workers \X Keys \X (1..MaxHooks)
Names == Keys \cup Builds

\* What a venv directory holds, by the order uv makes it: bin/, then the package and its tool.
Part == {"bin", "lib", "tool"}
BuiltParts(k) == IF k \in NoTool THEN {"bin", "lib"} ELSE Part

\* A thread of a run has one hook in hand; a sync walks the hooks of a config.
Program == [kind : {"run", "sync"}, keys : Seq(Keys), offline : BOOLEAN]

ASSUME CastsAssumption ==
    \A cast \in Casts :
        /\ cast \in [Workers -> Program]
        /\ \A w \in Workers :
              Len(cast[w].keys) <= MaxHooks /\ (cast[w].kind = "run" => Len(cast[w].keys) <= 1)
ASSUME MaxHooksAssumption == MaxHooks \in Nat
ASSUME NoneAssumption == None \notin Builds /\ Keys \cap Builds = {}

VARIABLES
    program,     \* each worker's program, fixed
    todo,        \* the keys it has still to deal with; the head is in hand
    pc,          \* where it is
    outcome,     \* what it made of each key
    entry,       \* the directory each name of env-v1 leads to, None when absent
    parts,       \* what each directory holds
    schemeDir,   \* env-v1 itself exists
    clear,       \* where `cache clear` is
    targets,     \* the names it listed and has not visited
    removal,     \* the rmtree in progress: the name, the directory, what is to go
    overlapped   \* a worker and the clear were active at the same time (history)

workerVars == <<program, todo, pc, outcome>>
dirVars == <<entry, parts, schemeDir>>
clearVars == <<clear, targets, removal>>
vars == <<workerVars, dirVars, clearVars, overlapped>>

Outcomes == {"cached", "built", "ran",                \* good
             "registry", "offline", "uv", "notool",   \* reported errors
             "download",                              \* uv cannot be downloaded: not converted
             "broken", "raised"}                      \* what nobody reports as such
Stages == {"idle", "explain", "resolve", "lookup", "mkdtemp", "venv", "install", "replace",
           "check", "spawn", "running", "done", "interrupted", "stopped"}

NoRemoval == [name |-> None, dir |-> None, left |-> {}]

TypeOK ==
    /\ program \in Casts
    /\ todo \in [Workers -> Seq(Keys)]
    /\ pc \in [Workers -> Stages]
    /\ outcome \in [Workers -> [Keys -> Outcomes \cup {"none"}]]
    /\ entry \in [Names -> Builds \cup {None}]
    /\ parts \in [Builds -> SUBSET Part]
    /\ schemeDir \in BOOLEAN
    /\ clear \in {"idle", "sweep", "measure", "rmtree", "rmdir", "done", "raised", "killed"}
    /\ targets \in SUBSET Names
    /\ removal \in [name : Names \cup {None}, dir : Builds \cup {None}, left : SUBSET Part]
    /\ overlapped \in BOOLEAN
    /\ \A n \in Names : entry[n] # None => n = entry[n] \/ n = entry[n][2]
    /\ (\E n \in Names : entry[n] # None) => schemeDir

-----------------------------------------------------------------------------
Active(w) == pc[w] \notin {"idle", "done", "interrupted", "stopped"}
Clearing == clear \in {"sweep", "measure", "rmtree", "rmdir"}

Key(w) == Head(todo[w])

\* mkdtemp never repeats a name, not even for a config that names a package twice.
Temp(w) == <<w, Key(w), Len(todo[w])>>

\* is_healthy: the slot has an executables directory.
Healthy(k) == entry[k] # None /\ "bin" \in parts[entry[k]]

HasTool(k) == entry[k] # None /\ "tool" \in parts[entry[k]]

\* What is needed for the hook to work.
Sound(k) == entry[k] # None /\ parts[entry[k]] = BuiltParts(k)

Goto(w, stage) == pc' = [pc EXCEPT ![w] = stage]

\* Faulty: an error is not recorded, the same key is tried again.
SettleOrRetry(w, o) ==
    /\ outcome' = [outcome EXCEPT ![w][Key(w)] = o]
    /\ IF o \in {"uv", "registry"}
       THEN Goto(w, "resolve") /\ UNCHANGED todo
       ELSE /\ todo' = [todo EXCEPT ![w] = Tail(@)]
            /\ Goto(w, IF Len(todo[w]) = 1 THEN "done" ELSE "explain")

\* Record what became of the key in hand and turn to the next one, if any.
Settle(w, o) ==
    /\ outcome' = [outcome EXCEPT ![w][Key(w)] = o]
    /\ todo' = [todo EXCEPT ![w] = Tail(@)]
    /\ Goto(w, IF Len(todo[w]) = 1 THEN "done" ELSE "explain")

\* An exception that neither run_hook nor sync_environments converts ends the worker.
Raise(w, o) ==
    /\ outcome' = [outcome EXCEPT ![w][Key(w)] = o]
    /\ todo' = [todo EXCEPT ![w] = <<>>]
    /\ Goto(w, "done")

\* shutil.rmtree of a worker's own temporary directory, by name, that comes to its end ...
DropTemp(w) ==
    /\ entry' = [entry EXCEPT ![Temp(w)] = None]
    /\ parts' = [parts EXCEPT ![Temp(w)] = {}]

\* ... and one that does not: the directory stays, bin/ goes after what is in it.
DropPartly(w) ==
    /\ \E left \in SUBSET parts[Temp(w)] :
          /\ "tool" \in left => "bin" \in left
          /\ parts' = [parts EXCEPT ![Temp(w)] = left]
    /\ UNCHANGED entry

Init ==
    /\ program \in Casts
    /\ todo = [w \in Workers |-> program[w].keys]
    /\ pc = [w \in Workers |-> IF todo[w] = <<>> THEN "done" ELSE "idle"]
    /\ outcome = [w \in Workers |-> [k \in Keys |-> "none"]]
    /\ entry = [n \in Names |-> None]
    /\ parts = [b \in Builds |-> {}]
    /\ schemeDir = FALSE
    /\ clear = "idle"
    /\ targets = {}
    /\ removal = NoRemoval
    /\ overlapped = FALSE

-----------------------------------------------------------------------------
(* Workers. *)

\* The process starts, at any time; a sync explains each hook before it resolves it.
Begin(w) ==
    /\ pc[w] = "idle"
    /\ Goto(w, IF program[w].kind = "sync" THEN "explain" ELSE "resolve")
    /\ overlapped' = (overlapped \/ Clearing)
    /\ UNCHANGED <<program, todo, outcome, dirVars, clearVars>>

\* sync: a hit is left alone, a miss is resolved.
Explain(w) ==
    /\ pc[w] = "explain"
    /\ IF Healthy(Key(w))
       THEN Settle(w, "cached")
       ELSE Goto(w, "resolve") /\ UNCHANGED <<todo, outcome>>
    /\ UNCHANGED <<program, dirVars, clearVars, overlapped>>

\* Pinning the requirement fails: index unreachable, no such package, no exact pin offline.
PinFails(w) ==
    /\ pc[w] \in {"explain", "resolve"}
    /\ Settle(w, "registry")
    /\ UNCHANGED <<program, dirVars, clearVars, overlapped>>

\* Faulty: offline is not looked at before the build.
ResolveRegardless(w) ==
    /\ pc[w] = "resolve"
    /\ Goto(w, "lookup")
    /\ UNCHANGED <<program, todo, outcome, dirVars, clearVars, overlapped>>

\* _resolve_pypi up to publish_atomically: offline, a miss is an error.
Resolve(w) ==
    /\ pc[w] = "resolve"
    /\ IF program[w].offline /\ ~Healthy(Key(w))
       THEN Settle(w, "offline")
       ELSE Goto(w, "lookup") /\ UNCHANGED <<todo, outcome>>
    /\ UNCHANGED <<program, dirVars, clearVars, overlapped>>

\* publish_atomically looks again: a healthy slot is returned, else env-v1 is created.
Lookup(w) ==
    /\ pc[w] = "lookup"
    /\ IF Healthy(Key(w))
       THEN Goto(w, "check") /\ UNCHANGED schemeDir
       ELSE Goto(w, "mkdtemp") /\ schemeDir' = TRUE
    /\ UNCHANGED <<program, todo, outcome, entry, parts, clearVars, overlapped>>

\* mkdtemp: fails when a clear removed env-v1 in between.
MakeTemp(w) ==
    /\ pc[w] = "mkdtemp"
    /\ IF schemeDir
       THEN /\ entry' = [entry EXCEPT ![Temp(w)] = Temp(w)]
            /\ Goto(w, "venv")
            /\ UNCHANGED <<todo, outcome>>
       ELSE Raise(w, "raised") /\ UNCHANGED entry
    /\ UNCHANGED <<program, parts, schemeDir, clearVars, overlapped>>

\* Faulty: the venv is published before anything is installed in it.
CreateVenvOnly(w) ==
    /\ pc[w] = "venv"
    /\ entry' = [entry EXCEPT ![Temp(w)] = Temp(w)]
    /\ parts' = [parts EXCEPT ![Temp(w)] = @ \cup {"bin"}]
    /\ schemeDir' = TRUE
    /\ Goto(w, "replace")
    /\ UNCHANGED <<program, todo, outcome, clearVars, overlapped>>

\* `uv venv`: creates the directory again if a clear removed it.
CreateVenv(w) ==
    /\ pc[w] = "venv"
    /\ entry' = [entry EXCEPT ![Temp(w)] = Temp(w)]
    /\ parts' = [parts EXCEPT ![Temp(w)] = @ \cup {"bin"}]
    /\ schemeDir' = TRUE
    /\ Goto(w, "install")
    /\ UNCHANGED <<program, todo, outcome, clearVars, overlapped>>

\* `uv pip install` into the interpreter of the new venv, which must still be there.
Install(w) ==
    /\ pc[w] = "install"
    /\ IF entry[Temp(w)] = Temp(w) /\ "bin" \in parts[Temp(w)]
       THEN /\ parts' = [parts EXCEPT ![Temp(w)] = @ \cup BuiltParts(Key(w))]
            /\ Goto(w, "replace")
            /\ UNCHANGED <<todo, outcome, entry>>
       ELSE DropTemp(w) /\ Settle(w, "uv")
    /\ UNCHANGED <<program, schemeDir, clearVars, overlapped>>

\* uv is not found, its download does not match the checksum, or it exits with an error.
BuildFails(w) ==
    /\ pc[w] \in {"venv", "install"}
    /\ DropTemp(w)
    /\ Settle(w, "uv")
    /\ UNCHANGED <<program, schemeDir, clearVars, overlapped>>

\* uv is not there and cannot be downloaded: urlopen's OSError passes resolve and its callers.
DownloadFails(w) ==
    /\ pc[w] = "venv"
    /\ DropTemp(w)
    /\ Raise(w, "download")
    /\ UNCHANGED <<program, schemeDir, clearVars, overlapped>>

\* Faulty: except Exception, which lets a Control-C pass.
InterruptKeepingTemp(w) ==
    /\ w \in MayDie
    /\ program[w].kind = "sync"
    /\ pc[w] \in {"venv", "install"}
    /\ Goto(w, "interrupted")
    /\ UNCHANGED <<program, todo, outcome, dirVars, clearVars, overlapped>>

(***************************************************************************)
(* Control-C during build() of a sync: except BaseException removes the    *)
(* temp and re-raises.  Anywhere else it stops the process like a kill     *)
(* (Stop, StopCleaning).  The pool threads of a run never see it, as       *)
(* Python raises KeyboardInterrupt in the main thread only; their uv ends  *)
(* with an error (BuildFails).                                             *)
(***************************************************************************)
Interrupt(w) ==
    /\ w \in MayDie
    /\ program[w].kind = "sync"
    /\ pc[w] \in {"venv", "install"}
    /\ DropTemp(w)
    /\ Goto(w, "interrupted")
    /\ UNCHANGED <<program, todo, outcome, schemeDir, clearVars, overlapped>>

\* rename(2) puts a directory in the place of an empty one only.
MayReplace(k) == entry[k] = None \/ parts[entry[k]] = {}

\* Faulty: whatever is in the slot makes way.
ReplaceAlways(w) ==
    /\ pc[w] = "replace"
    /\ entry' = [entry EXCEPT ![Key(w)] = Temp(w), ![Temp(w)] = None]
    /\ Goto(w, "check")
    /\ UNCHANGED <<program, todo, outcome, parts, schemeDir, clearVars, overlapped>>

\* Faulty: the slot's name leaves the key out.
ReplaceSharedSlot(w) ==
    LET slot == CHOOSE k \in Keys : TRUE IN
    /\ pc[w] = "replace"
    /\ IF entry[Temp(w)] = Temp(w) /\ MayReplace(slot)
       THEN entry' = [entry EXCEPT ![slot] = Temp(w), ![Temp(w)] = None] /\ UNCHANGED parts
       ELSE DropTemp(w)
    /\ Goto(w, "check")
    /\ UNCHANGED <<program, todo, outcome, schemeDir, clearVars, overlapped>>

\* Faulty: the loser of a race does not catch the OSError.
ReplaceOrRaise(w) ==
    /\ pc[w] = "replace"
    /\ IF entry[Temp(w)] = Temp(w) /\ MayReplace(Key(w))
       THEN /\ entry' = [entry EXCEPT ![Key(w)] = Temp(w), ![Temp(w)] = None]
            /\ Goto(w, "check")
            /\ UNCHANGED <<todo, outcome, parts>>
       ELSE DropTemp(w) /\ Raise(w, "raised")
    /\ UNCHANGED <<program, schemeDir, clearVars, overlapped>>

\* Faulty: the loser of a race discards the slot instead of its temp.
ReplaceDiscardsSlot(w) ==
    /\ pc[w] = "replace"
    /\ entry' = IF entry[Temp(w)] = Temp(w) /\ MayReplace(Key(w))
                THEN [entry EXCEPT ![Key(w)] = Temp(w), ![Temp(w)] = None]
                ELSE [entry EXCEPT ![Key(w)] = None]
    /\ Goto(w, "check")
    /\ UNCHANGED <<program, todo, outcome, parts, schemeDir, clearVars, overlapped>>

\* os.replace; on OSError the temp is discarded, and the slot returned all the same.
Replace(w) ==
    /\ pc[w] = "replace"
    /\ IF entry[Temp(w)] = Temp(w) /\ MayReplace(Key(w))
       THEN entry' = [entry EXCEPT ![Key(w)] = Temp(w), ![Temp(w)] = None] /\ UNCHANGED parts
       ELSE DropTemp(w)
    /\ Goto(w, "check")
    /\ UNCHANGED <<program, todo, outcome, schemeDir, clearVars, overlapped>>

\* The tool the hook names must be present in the environment.
Check(w) ==
    /\ pc[w] = "check"
    /\ IF ~HasTool(Key(w)) THEN Settle(w, "notool")
       ELSE IF program[w].kind = "sync" THEN Settle(w, "built")
       ELSE Goto(w, "spawn") /\ UNCHANGED <<todo, outcome>>
    /\ UNCHANGED <<program, dirVars, clearVars, overlapped>>

\* The hook's process starts with the slot's bin directory first on its PATH.
Spawn(w) ==
    /\ pc[w] = "spawn"
    /\ IF Sound(Key(w))
       THEN Goto(w, "running") /\ UNCHANGED <<todo, outcome>>
       ELSE Settle(w, "broken")
    /\ UNCHANGED <<program, dirVars, clearVars, overlapped>>

\* The process ends; it may have missed what was removed while it ran.
Exit(w) ==
    /\ pc[w] = "running"
    /\ \/ Settle(w, "ran")
       \/ ~Sound(Key(w)) /\ Settle(w, "broken")
    /\ UNCHANGED <<program, dirVars, clearVars, overlapped>>

(***************************************************************************)
(* The process is killed; or a sync is interrupted outside build():        *)
(* before mkdtemp, between mkdtemp and the try, at os.replace, which is    *)
(* under except OSError only, or after it.  Its temporary directory stays. *)
(***************************************************************************)
Stop(w) ==
    /\ w \in MayDie
    /\ Active(w)
    /\ Goto(w, "stopped")
    /\ UNCHANGED <<program, todo, outcome, dirVars, clearVars, overlapped>>

\* The same in the rmtree that follows a failed or interrupted build, or a lost race.
StopCleaning(w) ==
    /\ w \in MayDie
    /\ pc[w] \in {"venv", "install"} \/ (pc[w] = "replace" /\ ~MayReplace(Key(w)))
    /\ DropPartly(w)
    /\ Goto(w, "stopped")
    /\ UNCHANGED <<program, todo, outcome, schemeDir, clearVars, overlapped>>

-----------------------------------------------------------------------------
(* gatecheck cache clear. *)

\* Faulty: the temporary directories of dead builds are not listed.
ListedSlots == {n \in Keys : entry[n] # None}
Listed == {n \in Names : entry[n] # None}

ClearStart ==
    /\ program \in Clears
    /\ clear = "idle"
    /\ clear' = IF schemeDir THEN "sweep" ELSE "done"
    /\ targets' = Listed
    /\ overlapped' = (overlapped \/ \E w \in Workers : Active(w))
    /\ UNCHANGED <<workerVars, dirVars, removal>>

\* Faulty: a name that was visited stays on the list.
VisitAgain(n) ==
    /\ clear = "sweep"
    /\ n \in targets
    /\ IF entry[n] = None
       THEN UNCHANGED <<clear, removal>>
       ELSE clear' = "measure" /\ removal' = [NoRemoval EXCEPT !.name = n]
    /\ UNCHANGED <<workerVars, dirVars, targets, overlapped>>

\* The next listed name, in any order; one that is gone by now is passed over.
Visit(n) ==
    /\ clear = "sweep"
    /\ n \in targets
    /\ targets' = targets \ {n}
    /\ IF entry[n] = None
       THEN UNCHANGED <<clear, removal>>
       ELSE clear' = "measure" /\ removal' = [NoRemoval EXCEPT !.name = n]
    /\ UNCHANGED <<workerVars, dirVars, overlapped>>

\* _dir_size, which may raise when the directory is renamed or removed under it; then rmtree lists.
Measure ==
    /\ clear = "measure"
    /\ LET d == entry[removal.name] IN
       IF d # None
       THEN clear' = "rmtree" /\ removal' = [removal EXCEPT !.dir = d, !.left = parts[d]]
       ELSE clear' \in {"sweep", "raised"} /\ removal' = NoRemoval
    /\ UNCHANGED <<workerVars, dirVars, targets, overlapped>>

\* rmtree deletes what it listed, bin/ after its contents; errors are ignored.
RemovePart(p) ==
    /\ clear = "rmtree"
    /\ p \in removal.left
    /\ p = "bin" => "tool" \notin removal.left
    /\ removal' = [removal EXCEPT !.left = @ \ {p}]
    /\ parts' = IF p = "bin" /\ "tool" \in parts[removal.dir]
                THEN parts
                ELSE [parts EXCEPT ![removal.dir] = @ \ {p}]
    /\ UNCHANGED <<workerVars, entry, schemeDir, clear, targets, overlapped>>

\* The directory itself goes last, by name, if it is empty.
RemoveDir ==
    /\ clear = "rmtree"
    /\ removal.left = {}
    /\ entry' = IF entry[removal.name] = removal.dir /\ parts[removal.dir] = {}
                THEN [entry EXCEPT ![removal.name] = None]
                ELSE entry
    /\ clear' = "sweep"
    /\ removal' = NoRemoval
    /\ UNCHANGED <<workerVars, parts, schemeDir, targets, overlapped>>

SchemeDirEmpty == \A n \in Names : entry[n] = None

\* _remove_if_empty looks first ...
SweepEnds ==
    /\ clear = "sweep"
    /\ targets = {}
    /\ clear' = IF SchemeDirEmpty THEN "rmdir" ELSE "done"
    /\ UNCHANGED <<workerVars, dirVars, targets, removal, overlapped>>

\* ... and removes env-v1 then; a build that began in between makes rmdir raise.
RemoveScheme ==
    /\ clear = "rmdir"
    /\ IF SchemeDirEmpty
       THEN schemeDir' = FALSE /\ clear' = "done"
       ELSE clear' = "raised" /\ UNCHANGED schemeDir
    /\ UNCHANGED <<workerVars, entry, parts, targets, removal, overlapped>>

\* Control-C or a kill in the middle of a clear.
ClearKilled ==
    /\ Clearing
    /\ clear' = "killed"
    /\ targets' = {}
    /\ removal' = NoRemoval
    /\ UNCHANGED <<workerVars, dirVars, overlapped>>

-----------------------------------------------------------------------------
Work(w) ==
    \/ Explain(w)
    \/ Resolve(w)
    \/ Lookup(w)
    \/ MakeTemp(w)
    \/ CreateVenv(w)
    \/ Install(w)
    \/ Replace(w)
    \/ Check(w)
    \/ Spawn(w)
    \/ Exit(w)

Fails(w) ==
    \/ PinFails(w)
    \/ BuildFails(w)
    \/ DownloadFails(w)
    \/ Interrupt(w)
    \/ Stop(w)
    \/ StopCleaning(w)

Sweep ==
    \/ \E n \in Names : Visit(n)
    \/ Measure
    \/ \E p \in Part : RemovePart(p)
    \/ RemoveDir
    \/ SweepEnds
    \/ RemoveScheme

Next ==
    \/ \E w \in Workers : Begin(w) \/ Work(w) \/ Fails(w)
    \/ ClearStart
    \/ Sweep
    \/ ClearKilled

\* Every process that started keeps running, and uv and the hooks end.
Fairness == (\A w \in Workers : WF_vars(Work(w))) /\ WF_vars(Sweep)

Spec == Init /\ [][Next]_vars
FairSpec == Spec /\ Fairness

-----------------------------------------------------------------------------
(* Properties. *)

\* No clear was interrupted, is in progress, or met a worker.
Undisturbed == ~overlapped /\ clear \in {"idle", "done"}

(***************************************************************************)
(* A slot that exists holds a complete environment: a build that crashed,  *)
(* failed or lost the race never leaves a half-populated slot that a later *)
(* run would take for a hit.                                               *)
(***************************************************************************)
NoPartialSlot == Undisturbed => \A k \in Keys : entry[k] # None => Sound(k)

Blameless(w, k) ==
    /\ outcome[w][k] \notin {"broken", "raised"}
    /\ outcome[w][k] = "notool" => k \in NoTool

(***************************************************************************)
(* Racing builders of one key all succeed, and a hit works: a hook fails   *)
(* for reasons of its own (pinning, offline without a cached environment,  *)
(* uv or its download, a package without the tool), never for what the     *)
(* cache held.                                                             *)
(***************************************************************************)
OwnReasonsOnly == ~overlapped /\ clear # "killed" => \A w \in Workers, k \in Keys : Blameless(w, k)

\* Offline, uv is never consulted, whoever shares the cache.
OfflineNeverBuilds ==
    ~overlapped /\ clear # "killed" =>
        \A w \in Workers :
            program[w].offline => pc[w] \notin {"mkdtemp", "venv", "install", "replace"}

(***************************************************************************)
(* A temporary directory has a builder at work on it: a failed build, a    *)
(* failed download, a lost race and a Control-C during build() leave none  *)
(* behind.  Only a process that was killed, or interrupted outside         *)
(* build(), in the few statements around it, may.                          *)
(***************************************************************************)
NoOrphans ==
    \A b \in Builds :
        entry[b] # None =>
            LET w == b[1] IN
            \/ pc[w] = "stopped"
            \/ pc[w] \in {"venv", "install", "replace"} /\ Temp(w) = b

\* No slot with something in it is ever replaced: a hook's environment is not swapped under it.
NeverSwapped ==
    [][\A k \in Keys : entry[k] # None /\ parts[entry[k]] # {} => entry'[k] = entry[k]]_vars

\* A clear that met nobody and was not interrupted leaves nothing in the cache.
ClearLeavesNothing ==
    [][clear # "done" /\ clear' = "done" /\ ~overlapped => \A n \in Names : entry'[n] = None]_vars

(***************************************************************************)
(* The cache is a set of environments, each of which appears at once and   *)
(* stays until a clear, and every answer is true of it: what a sync        *)
(* reported as there is there for every later run, racing builders of one  *)
(* key all get it, and an offline run misses only what is not there.       *)
(***************************************************************************)
Held == {k \in Keys : Sound(k)}
ClearPhase == IF clear = "idle" THEN "idle" ELSE IF Clearing THEN "clearing" ELSE "done"

Store == INSTANCE EnvStore WITH
    held <- Held, answer <- outcome, phase <- ClearPhase,
    spoiled <- overlapped \/ clear = "killed"
ImplementsStore == Store!Spec

\* Every worker that started ends.
WorkersEnd == \A w \in Workers : Active(w) ~> ~Active(w)

\* A clear that is not interrupted ends, and with an exception only if it met a worker.
ClearEnds == Clearing ~> clear \in {"done", "killed"} \/ (clear = "raised" /\ overlapped)

(***************************************************************************)
(* What docs/cli/cache.md says of `cache clear`: it is always safe, the    *)
(* worst case is that the next run rebuilds what it needs.                 *)
(***************************************************************************)
NextRunRebuilds ==
    ~overlapped => \A w \in Workers, k \in Keys : Blameless(w, k)

(***************************************************************************)
(* What docs/cli/cache.md says of `cache clear`: it is tolerant of a       *)
(* concurrent run.  Neither the clear nor what runs beside it ends with an *)
(* exception that nobody handles.                                          *)
(***************************************************************************)
ClearTolerant ==
    /\ clear # "raised"
    /\ \A w \in Workers, k \in Keys : outcome[w][k] # "raised"
=============================================================================
