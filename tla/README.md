# gatecheck: a TLA+ verification project

gatecheck runs the checks of a repository (linters, type checkers, commit-message
checks) from one `check.toml`. A Python host plans the hooks, provides each with an
environment, and hands a dependency graph to a small Rust core that schedules them
on a thread pool. This directory models the parts of it where order, concurrency
and failure decide whether the gate can be trusted, checks them with TLC on small
instances, and proves with TLAPS their safety for every value of the constants: the
scheduler for every graph, cap and pool, the planner for every config, the cache for any number of
processes and environments, the pins for all versions and indexes, the install for every
history of a working tree, and `gatecheck run` from its command line to its exit status.

Paths below are relative to the repository; `gatecheck/` stands for
`src/gatecheck/`. `PROJECT.json` lists components, runs, mutants, the source lines
each definition models, hazards, findings and theorems.

## 1. The system

| Part | Code | State it keeps | Operations | Interacts with |
|---|---|---|---|---|
| Scheduler | `gatecheck-rs/src/runner.rs` | ready queue, indegrees, executed flags, outstanding, aborted, first error; an mpsc channel; the rayon pool's tasks | seed, pump, spawn, receive, free dependents, return | calls `execute` of the engine on pool threads |
| Engine, executor, report | `runner/engine.py`, `executor.py`, `report.py` | the `results` dict shared by all callbacks | `run_plan`, `execute`, `run_hook`, `build_report`, `exit_code` | scheduler, environments, the hook's process |
| Planner, routing, git | `runner/plan.py`, `changeset.py`, `git_client.py`, `offline.py` | none beyond one call | `build_plan`, `route_files`, `current_branch` | its plan becomes the scheduler's graph |
| Environment cache | `env/env_cache.py`, `manager.py`, `sync.py`, `cache_clear.py` | a directory shared by every process of a user: slots by cache key, `.building-*` directories | `resolve`, `explain`, `publish_atomically`, `sync_environments`, `clear_cache` | uv, the registry, hooks running from a slot |
| uv | `env/uv_runner.py`, `uv_bootstrap.py` | the downloaded `uv` in the same cache | `build_venv`, `bootstrap_uv` | network, subprocesses |
| Pinning | `registry/*.py` | none | `resolve_pypi_source` online and offline | package index; its pin is the cache key |
| Workspace | `workspace/*.py` | none beyond one call | `discover_workspace`, `effective_config`, `affected_packages`, `run_affected` | planner and engine, once per package |
| Sources | `sources/*.py`, `venv.py`, `command.py` | none | `parse_source`, `resolve_source` | manager |
| Install | `install.py` | hook scripts in `.git/hooks` | `install_hooks` | git, later configs |
| Migration, dumping | `migration/*.py`, `config/dumper.py` | a written `check.toml` | `map_precommit`, `dump_config` | loader |
| Config | `config/*.py` | none | `discover_config`, `load_config` | everything |
| CLI | `cli/*.py` | process environment (`--offline`) | `run`, `sync`, `cache`, `install`, `migrate` | all of the above |
| Stubs, scripts | `gatecheck-rs/src/{dag,git,glob,cache}.rs`, `scripts/` | – | – | not part of the behaviour |

What is hard here: pool threads and the scheduler interleave freely; a failure, an
exception and a cap interact; several processes share one cache directory without
a lock and rely on `rename(2)`; builds are killed or interrupted; a clear deletes
next to builds; the planner alone guarantees that the scheduler's loop ends with all
hooks run. The hazards, each at its line and with the properties that watch it, are
in `PROJECT.json`.

What makes each part correct:

- scheduler: order, cap, no barrier, final abort, termination, nothing left behind;
- engine and report: exit 0 exactly when every planned hook ran and passed;
- planner: the graph is acyclic and complete, a cycle is reported, a file hook is
  never run on nothing;
- cache: a slot is a complete environment or absent, racing builders all succeed, no
  environment is swapped under a running hook, offline never builds, what sync
  reported as there stays there;
- pinning: the pin is the best release there is, and the environment a hook runs in was
  made for that pin; what sync built, an offline run finds;
- the run command: affected means reachable from a changed package, every hook is given the
  files that are its own, every hook planned is accounted for, exit 0 means that they passed;
- install and migration: a foreign hook is never overwritten, a git event runs the groups that
  were installed for it, no hook of a pre-commit configuration is lost, and what a hook loses is told.

## 2. Modules

| Module | Models | Kind |
|---|---|---|
| `HookRun` | what a run of hooks promises | abstract specification |
| `EngineContract` | the graphs that `run_graph` is given, and what a run may come to | operators shared by `Plan`, `RunGraph` and `RunCommand` |
| `RunGraph` | scheduler, pool, channel, callback, exit status | detailed specification, refines `HookRun` |
| `RunGraphProofs` | theorems about `RunGraph` | proofs |
| `EnvStore` | what the shared cache promises | abstract specification |
| `EnvCache` | the cache directory, its users and the clear | detailed specification, refines `EnvStore` |
| `EnvCacheProofs` | theorems about `EnvCache` | proofs |
| `Config` | definitions by id, first mentions, and the files of a hook | operators |
| `ConfigProofs` | what those operators return | lemmas |
| `Plan` | `build_plan` and the graph made of it | specification, extends `Config` |
| `PlanProofs` | theorems about `Plan` | proofs, on `ConfigProofs` |
| `Workspace` | discovery, packages, inheritance, dependencies, affected packages | specification of the steps that `RunCommand` composes |
| `WorkspaceProofs` | the search for a cycle and the choice of packages | lemmas, on `ConfigProofs` |
| `RunCommand` | one `gatecheck run` in all its modes | composes `Workspace`, `Plan` and what `RunGraph` keeps of `EngineContract` |
| `RunCommandProofs` | theorems about `RunCommand` | proofs, on `WorkspaceProofs` |
| `Pinning` | from a `from` to an environment, over several commands | specification |
| `PinningProofs` | theorems about `Pinning` | proofs, on `ConfigProofs` |
| `Repository` | migrate, edit, install and git events in one working tree | specification, extends `Config` |
| `RepositoryProofs` | theorems about `Repository` | proofs, on `ConfigProofs` |
| `MCRunGraph`, `MCEnvCache`, `MCPlan`, `MCRunCommand`, `MCPinning`, `MCRepository` | instances for TLC | model checking |

In each specification a definition marked `Faulty:` is a plausible bug in the definition after
it. It is not part of the specification; it is what a property is tested against
(see the end of section 3).

### RunGraph

`args` is one call of `run_graph` (ids, dependency lists, fail-fast, `max_workers` with
None as 0). The scheduler thread's local variables keep their names. `task[i]` follows
node i through the pool: `none`, `spawned` (queued in rayon), `running` (in the Python
callback), `sent` (in the channel), `received`. `Launch` is one turn of `pump!`,
`EndPump` its exit together with the loop condition, `Receive` one turn of the main loop without
its final `pump!`, which follows as `Launch` steps before the scheduler does anything
else. `Start` is a pool thread picking a task; `Finish` is the rest of the task: the
hook's outcome is chosen freely among passed, failed, error and an escaping exception,
the result is recorded in the dict, and the message is sent.

`dependents` is not a variable: `Edges(j, i)` reads it off the dependency lists. When
several dependents become ready at once they are queued in input order, as the reverse edges were
filled in that order; with a duplicate edge the second decrement is what reaches zero,
which changes nothing for a node that lists one dependency twice.

Threads: `rayon::scope` called from outside the pool runs its closure *on* a pool
thread, and the closure blocks in `rx.recv()` without returning to rayon. Hence
`Cardinality(Running) < PoolThreads - 1` in `Start`. This is what makes a
one-thread pool hang.

### EnvCache

A directory's name and the directory itself are kept apart (`entry`, `parts`), as
`os.replace` moves a directory that a concurrent `rmtree` has already listed. Contents are
abstracted to `bin/`, the libraries and the tool; `is_healthy` looks at the first only. A
worker is a thread of a `gatecheck run` with one hook in hand, or a `gatecheck sync` that
walks the hooks of a config; each file-system call that another process can observe is
an action: the offline check (`Resolve`), the look into the cache (`Lookup`), `mkdtemp`
(`MakeTemp`), `uv venv`, `uv pip install`, `os.replace`, the tool check, the spawn of the
hook. Failures: pinning, uv, the download of uv, and a worker that goes. Control-C during `build()` of a sync removes the
temporary directory (`Interrupt`: only `build` is under `except BaseException`; in a run the builds are on pool threads, where
Python raises no KeyboardInterrupt). Between `mkdtemp` and the `try`, at `os.replace`, or anywhere else Control-C leaves it, just as a
kill does at any point (`Stop`), and a kill or a Control-C inside an `rmtree` leaves some of it (`StopCleaning`). The clear lists, measures, deletes part by part in
any order the file system allows, removes what is empty, and may be interrupted.
`overlapped` is history: it records whether a worker and the clear were ever active together.

`EnvStore` knows nothing of directories: the environments that are held, each worker's last answer for
a key, and whether a clear is under way. A key is held (`Held`) when its slot is sound; a build is visible in the one step that renames it into
place, and a removal in the one step of `rmtree` that deletes the first part of a slot. Once a clear meets a worker or is
interrupted, `EnvStore` promises nothing more (`Spoil`), and neither does the code (findings 3 and 4).

### Plan

`build_plan` as a state machine over its loops: `Select`, `Filter` (one hook per step),
`CheckDependencies`, `Sort` (one level per step). Hooks are kept by position, since
nothing stops two definitions from having one id and the code's dictionaries then keep the last. A glob
is the set of names it matches. `Places` is a plan read level by level, and `Nodes`, `IndexOf` and
`DepIndexes` are what `run_plan` makes of it; `DependenciesAscend` says that this graph is `Workable` (`EngineContract`),
which is what `JobsAssumption` of `RunGraph` asks of its arguments.

### Workspace and RunCommand

A case of `RunCommand` is a command line and the tree it meets: the configs at each
directory (`check.toml`, `pyproject.toml`), the packages, and what git says. `Workspace` has the steps
that `cli/commands/run.py` and `workspace/*.py` take with it: `load_config` (of the config discovered, or of either file that `--config` may name), `discover_workspace`,
the dependency map, the depth-first search for a cycle with its stack, and the closure over
dependents, one iteration per step. A package that a symbolic link leads out of the workspace makes
`relative_to` raise (`affected.py:94`), which nothing catches: phase `raised`. `RunCommand` puts them in the order of the three modes.
Planning is not modelled a second time: `Planner == INSTANCE Plan` and its actions are
taken until it is done, for the whole config or for each affected package's effective config. Of the
engine it takes that a run of a plan's hooks is one that `MayReturn` allows (`EngineContract`, which `ReturnsWithNothingLeft` of
`RunGraph` says of the scheduler), or ends in an exception; of hooks with one id, the last to end leaves its result (`Returned`). The properties relate the two
ends: what was changed and configured, and what the report and the exit status say.

### Pinning

A world fixes the hooks, `[sources]`, where tools are installed, and the pages that the
indexes will show one after another; `IndexMoves` turns the page between any two steps of a command.
Commands (`sync`, `cache why`, `run`, `run --affected`, each online or offline) follow one another
over one cache. `explain` and `resolve` pin separately, as in the code, and `uv` installs what the index has
by then. What packaging does is modelled by what it decides: versions have a rank, a public rank (without the
local part), a series for prefix matches and whether they are pre-releases; two spellings of one
version share a rank but not a cache key. An answer that is cut off (`IncompleteRead`) passes `_fetch` unconverted (status `cut`). `Sources` is where a plain run forgets the config's `[sources]`.

### Repository

One working tree and its user. `Migrate` and `MigrateWrites` are the two halves of overwriting
`check.toml`; `Look`, `Truncate`, `Write` and `Chmod` are the steps of install for one git hook,
which takes the config as it was loaded. The user may edit any config or git hook, a command
may be killed, and git may run a hook between any two steps; only a git hook that
install is writing at that moment is left alone. An id is a text and the numbers that end it, so that `ruff-2` is `ruff`
with 2, the id that a migration makes for a second `ruff`, whoever wrote it. An argument of a pre-commit hook has the text that the tool should
get and the words that `shlex.split` makes of it once `_command` has joined everything with spaces; `unread` are the keys of a hook that
`PreCommitHook` ignores, or reads and has no use for. `git` passes over a hook that is not
executable, and an empty one passes. `promise`, `found` and `migrated` are history: the config of the last install for the hooks that
its report names as installed (the other hooks are promised nothing from then on), what an install found, and what a `check.toml` was migrated from.

## 3. Runs

| Run | Module | Question | States |
|---|---|---|---|
| `scheduler` | MCRunGraph | does the scheduler keep order, cap and abort, end, and implement `HookRun`? | 260,276 |
| `scheduler_one_thread` | MCRunGraph | does an eligible hook start on a pool of one thread? (no) | – |
| `scheduler_duplicate_ids` | MCRunGraph | is the exit status honest with duplicate ids? (no) | – |
| `cache` | MCEnvCache | are slots sound and hooks blameless with concurrent, dying workers, and what does a clear leave behind, at any time, interrupted or not: does the cache implement `EnvStore`? | 187,058 |
| `cache_interrupted_clear` | MCEnvCache | does the next run rebuild after an interrupted clear? (no) | – |
| `cache_concurrent_clear` | MCEnvCache | do a clear and a run beside it end without an unhandled exception? (no) | – |
| `planner` | MCPlan | is every plan sound, complete and as wide as possible? | 99,161 |
| `planner_detached_head` | MCPlan | do branch conditions let a hook run on a detached HEAD? (no) | – |
| `run_command` | MCRunCommand | which packages are affected, what is each hook given, and what do the report and exit 0 mean? | 81,080 |
| `pinning` | MCPinning | is the pin the best there is (outside three named cases), and the environment the hook's own, while the index moves? | 39,164 |
| `pinning_documented` | MCPinning | is the pin what the documented rule selects, for every requirement? (no) | – |
| `repository` | MCRepository | do git events run what was installed, next to foreign hooks, edits, migrations and kills, and does a migration tell what it drops? | 946,215 |

**Bounds.** *scheduler*: four hooks, every graph with at least three edges (sparser
ones have more interleavings but no dependency situation that the others lack: three edges
already include forests, chains, diamonds and isolated hooks), one graph with a repeated
dependency, caps 0 (unbounded), 1 and 2, all 256 combinations of outcomes, two free threads:
enough for a thread to be short while hooks are queued and for two completions to be
in the channel in either order. *cache*: three workers are what it takes for a loser to
lose to a winner while a third runs a hook from the slot; a second key, whose package lacks the
tool, gives a sync more than one hook and the tool check a reason to fail; a sync also has two hooks of one package
(`MaxHooks`), of which the second finds what the first built; one worker may die, which is
where every crash property bites. Next to a clear there are two workers, as it is a third process. *planner*: three hooks is the smallest number with a proper cycle
behind a valid prefix and with a diamond's two levels; two hooks with missing
dependencies, partial groups and duplicate ids; one hook under each condition and every
combination of the branch conditions, in four contexts that set and unset every variable read.
*run_command*: three packages, on which every dependency graph is tried (chains, diamonds and cycles
that do not contain the changed package need three), two hooks in each under every inherit mode, every place of the config
relative to the working directory, a link out of the workspace, and a config that has one id twice. *pinning*: six versions (two spellings of one, listed on
one page too, a local one, a pre-release, one higher and one lower), every operator, histories of three pages and
at most three commands: a sync, a run that relies on it, and one that came between. *repository*:
from a tree that may already have a config and a git hook, three commands or git events and one
edit by hand, which is what it takes to install, change the config, install again and commit, or to
be killed, repair and commit; three configs whose groups are declared for other events, in
another order, or not at all.

**Fairness.** Weak fairness for the scheduler's steps, for a pool thread
taking a spawned task, and for each callback ending: the operating system schedules
threads, rayon's idle threads take work, and no hook runs for ever. The last is an
assumption: gatecheck sets no timeout. In `EnvCache`, each started worker and the clear keep making
steps; starting, failing, being interrupted or killed is never forced. Planning is sequential: weak fairness of `Next`.

**Deadlock** is checked for the scheduler and the planner, whose ends are explicit
steps, and not for the cache, where all processes may be over, for the one-thread instance, nor
where the user may stop giving commands (`pinning`, `repository`).

**Findings.** Six places where a document promises what the code does not do; each is a run
that TLC must find violated, quoted in `PROJECT.json`:

1. On a one-thread pool no hook starts and the run hangs (`runner.rs:67`, `docs/config/reference.md:543`).
2. With duplicate ids a failure is overwritten and the run exits 0 (`engine.py:64`, `docs/cli/run.md:128`).
3. An interrupted `cache clear` leaves a slot that passes for healthy and is never rebuilt (`env_cache.py:41`, `docs/cli/cache.md:88`).
4. A `cache clear` beside a run: `rmdir` raises when a build begins after the last look (`cache_clear.py:77`), and `mkdtemp` raises when the clear
   has removed `env-v1` (`env_cache.py:59`); `docs/cli/cache.md:95` has it tolerant of a concurrent run.
5. On a detached HEAD branch conditions do apply (`plan.py:137`, `docs/config/conditions.md:110`).
6. Version selection departs from `docs/config/reference.md:389-390` (`pypi_resolver.py:221`, `:247`): with packaging 24 pre-releases that
   alone satisfy a range are refused, and `==1.0.*` selects releases that are all withdrawn.

**Disagreements without a run of their own.** These were met as well. The model follows the code in each; the properties leave
the case out, or say nothing of it:

- `docs/cli/sync.md:39`, "Sync is not all-or-nothing": a failed download of uv raises `URLError`, which is none of `_SYNC_ERRORS`, and the sync
  ends at that hook (`uv_bootstrap.py:129`, `DownloadFails`).
- `docs/guides/private-registries.md:57-59`, "a private package can never be silently served from a public build": a plain `gatecheck run` makes its
  `EnvManager` without `[sources]` (`executor.py:45`, `Sources`), asks pypi.org and runs from an environment built from there.
- `docs/cli/install.md:106-108`, "It rewrites the managed hooks from the current `check.toml`": the script of an event for which the config has no group any
  more is not touched, and goes on running the groups of the old config (`install.py:55`; `NextHook` ends its promise).
- `docs/getting-started/migration.md:22`, "nothing is silently dropped", and `docs/cli/migrate.md`: keys such as `types` and `exclude` are ignored without a
  warning (`precommit_config.py:15`); an argument with spaces, quotes or backslashes is joined with spaces (`mapper.py:162`) and comes out of `shlex.split` as other
  words (`command.py:22`); a `rev` that only starts like a version, such as the commit `4abcdef`, matches `^v?\d` and is pinned as a
  version no index has (`mapper.py:66`, `docs/cli/migrate.md:51-53`). `Untold` names the three.

**Premises.** What the properties leave out, and why:

- `NoPartialSlot`, `OwnReasonsOnly`, `OfflineNeverBuilds` and `ClearLeavesNothing` hold as long as no clear met a worker (`~overlapped`) and, but for the last,
  none was interrupted or killed; `ImplementsStore` has the same premise in the abstract specification (`Spoil`). A clear beside a worker may
  delete what that worker builds or runs from, and between `explain` and the look into the cache it makes an offline run build (`manager.py:179`). What remains true then is `TypeOK`,
  `NoOrphans`, `NeverSwapped` and liveness; findings 3 and 4 are about the rest.
- `NoOrphans` excepts processes that were killed, or interrupted outside `build()` or in a cleanup.
- `ClearEnds` counts an exception as an end only of a clear that met a worker (finding 4).
- `PinIsBest` leaves out the three cases of `Departs`: the two of finding 6, and `===` on a release that the index spells in two
  ways, which is held against the first spelling only (`pypi_resolver.py:191`), so that a pin that asks for the second finds nothing. Outside of them the pin
  is exactly what the documented rule selects.
- `EveryHookAccountedFor`, `OpenOnlyIfPassed`, `HooksSeeTheirFiles` and `GateAlwaysHonest` are about configs with unique ids, which nothing
  checks (finding 2); so does `AffectedExactly` speak of packages with different directory names (`affected.py:35`). `EveryHookAccountedFor` is about
  runs that get to their report: an exception that `run_hook` does not convert ends a run without one (`executor.py:51`).
- `HooksSeeTheirFiles` is about commands given at the top of the repository: below it `git ls-files` and `git diff` name files from different
  directories (`git_client.py:46`).
- `ForeignHooksKept` is about what an install found: a file that the user writes between its look and its write is overwritten, and what a killed install
  left without the marker counts as foreign.
- `SyncedRunsOffline` takes a single `==` pin written as the index writes it, and an index the run knows of (see `private-registries.md` above).
- `EventsRunTheirGroups` speaks of git hooks that the last report of an install names as installed and nobody has written since. It ends
  where an install was killed in a hook, which may leave it empty, and later installs take it for foreign (`install.py:90`), and it does not speak of the scripts
  that `docs/cli/install.md` would have removed (above).
- `MigrationTellsWhatItDrops` has the three things of `Untold` go without a warning, and leaves out ids that read like a generated
  one, which may come twice (`mapper.py:185`). Arguments that leave a quote open are not modelled.

**Do the properties bite?** For every property of a passing run, `PROJECT.json` names a
faulty variant of one definition (a barrier between waves, an off-by-one at the cap, a rename
that replaces what is there, an abort that is forgotten, ...). With the variant in its place, TLC
finds that property violated under the same configuration.

## 4. Proofs

`RunGraphProofs` proves, for every number of hooks, every graph whose dependencies point
backwards, every cap, fail-fast setting, outcome and pool size:

| Theorem | Statement |
|---|---|
| `SchedulerInvariant` | `Spec => []SchedulerInv` |
| `TypeCorrect` | `Spec => []TypeOK` |
| `DependenciesAlwaysFirst` | `Spec => []DependenciesFirst` |
| `DownstreamNeverStarts` | `Spec => []DownstreamOfFailureNeverStarts` |
| `AlwaysWithinCap` | `Spec => []WithinCap` |
| `NeverAWaveBarrier` | `Spec => []NoWaveBarrier` |
| `AlwaysReturnsWithNothingLeft` | `Spec => []ReturnsWithNothingLeft` |
| `GateAlwaysHonest` | `Spec => [](UniqueIds => GateHonest)` |
| `Refinement` | `Spec => ImplementsHookRun` |

*Assumptions*: `N` is a natural number, the pool has at least one thread, and a job lists
dependencies before dependents (`JobsAssumption`, which `DependenciesAscend` checks of the planner).
`GateAlwaysHonest` needs unique ids; finding 2 is what happens without.

*Argument.* The properties are not inductive: that a dependency was reported
depends on how `indegree` came to be zero. `SchedulerInv` ties the scheduler's bookkeeping to what has
become of each task: `executed` is exactly the tasks that left `none` (`TaskInv`); the ready queue
holds, once each, the nodes of indegree zero not yet launched (`ReadyInv`); the channel
holds, once each, the tasks that have sent (`ChannelInv`); `outstanding` counts the tasks between launch and
receipt, and `indegree[i]` the positions of i's dependency list not yet reported
(`CountInv`, which makes repeated dependencies come out right); `aborted` and `firstError`
say that a reported outcome aborts or was an exception (`AbortInv`); and where the scheduler
stands says why it cannot launch (`PcInv`). One lemma per action shows that it is preserved;
lemmas about queues (pop, push, append a batch in input order) carry the sequence reasoning.

That no hook is forgotten (`AllReported`) goes by descent: if some node were
not reported when `run_graph` returns without abort, take the least one; all it depends on
is smaller, hence reported, so its indegree is zero and it is in the ready queue,
and the scheduler would not have returned. This is where `JobsAssumption` is needed.

What `RunCommand` relies on is a conjunct of `ReturnsWithNothingLeft`. Its last part, that under fail-fast no more hooks fail than
`max_workers`, is not obvious of a run that goes on receiving after the first failure: `FailuresInv` counts the failures received together
with the hooks still in flight. Before an abort there are none of the former; after it, nothing is launched, and each receipt
moves at most one from the latter to the former.

`Refinement` maps a task to `waiting`, `started` (from launch to receipt) or `finished`.
`Launch` maps to the abstract start, `Receive` to the abstract finish, and all steps of the
pool to stuttering.

### EnvCacheProofs

For every number of workers and keys, every program of each (a run with one hook, a sync with up to
`MaxHooks`), every failure, interrupt, kill and clear:

| Theorem | Statement |
|---|---|
| `CacheTypeCorrect` | `Spec => []TypeOK` |
| `NeverAPartialSlot` | `Spec => []NoPartialSlot` |
| `HooksFailForTheirOwnReasons` | `Spec => []OwnReasonsOnly` |
| `OfflineNeverAsksUv` | `Spec => []OfflineNeverBuilds` |
| `NeverAnOrphan` | `Spec => []NoOrphans` |
| `ClearAlwaysLeavesNothing` | `Spec => []ClearLeavesNothing` |
| `AlwaysStaysWarm` | `Spec => []WarmStaysWarm` |
| `SlotsNeverSwapped` | `Spec => NeverSwapped` |
| `CacheImplementsStore` | `Spec => ImplementsStore` |

*Assumptions*: `CastsAssumption` (each worker has a program of one of the two kinds), `MaxHooksAssumption`, and `NoneAssumption` (no directory is
None, no key is a directory).

*Argument.* `CacheInv` has three parts. `BaseInv` holds whatever happens: a directory is empty until it is
made and in no slot until it is moved there (`FreshInv`), which rests on its name being the worker's own and used once,
as `mkdtemp` promises (a directory is a worker, a key and how many hooks were left). `QuietInv` holds until a clear meets a worker or is interrupted: each
worker's temporary directory holds exactly what its stage says (`StageInv`), a slot with something in it is
sound but for the one that the clear is deleting (`SlotInv`), and the clear works through all there is while no worker is active
(`ClearInv`). `WarmInv` holds until the clear begins, and is all that an outcome says about slots. After a clear that
met a worker only `BaseInv` is left, which is why the properties but `TypeOK`, `NoOrphans` and `NeverSwapped` have that premise.

`CacheImplementsStore` goes step by step. While no clear has met a worker, what is held is just what is there. A worker that reads
gives an answer that is true of its slot, or none (`ReadingTells`); one that builds touches no slot (`BuildingTells`); a rename adds one
environment, or none when it lost (`ReplaceAdds`); a clear begins, takes one environment away, ends with none left, or does nothing that shows (`ClearRefines`).
The step in which a clear meets a worker, or is interrupted, is `Spoil`. `CacheInv` has to be extended by two facts: a hook is spawned only where its tool is
(`ToolInv`), so that no worker answers `ran` of an environment without it; and a clear lists of a slot only what was built there
(`LeftInv`), so that the first part it deletes was part of a sound slot. `WarmStaysWarm`, that what any worker was told is there is there until a clear, is a consequence that the refinement leaves to the reader
and `AlwaysStaysWarm` states.

### ConfigProofs and PlanProofs

`ConfigProofs` states what the operators over lists return: the order that `InOrder` puts a set of
positions in, which `AtPositions` of a list are kept, that the first mentions are each there once. `PlanProofs` proves, for every request and
context, duplicate ids and missing groups included:

| Theorem | Statement |
|---|---|
| `PlannerInvariant` | `Spec => []PlanInv` |
| `PlannerTypeCorrect` | `Spec => []TypeOK` |
| `DependenciesAlwaysAscend` | `Spec => []DependenciesAscend` |
| `EveryRunningHookAlwaysPlanned` | `Spec => []EveryRunningHookPlanned` |
| `LevelsAlwaysAsEarlyAsPossible` | `Spec => []LevelsAsEarlyAsPossible` |
| `CyclesAlwaysReported` | `Spec => []CyclesReported` |
| `NeverOnNothing` | `Spec => []NeverRunsOnNothing` |

*Assumption*: `RequestsAssumption` (hooks and groups are lists, ids are ids).

*Argument.* `LevelInv` is the heart: a level is exactly what was ready after the levels before it (`ReadyAfter`), and
never empty. `TypeOK` of the sort says nothing of why a hook is where it is, and without the exact set neither completeness nor
earliness would follow. Places within a plan are ordered by level, then position; a dependency is in an earlier level, hence has a
smaller index: the graph is `Workable`, which is all that `JobsAssumption` asks of a job beyond its types, so the theorem discharges the scheduler's assumption for
every graph that `run_plan` makes. Cycles: what remains when nothing is ready is a set whose members each depend on
another of it; conversely, a finished plan has no such set, as its member in the earliest level would depend on an earlier one.

### RepositoryProofs

| Theorem | Statement |
|---|---|
| `ForeignHooksAlwaysKept` | `Spec => []ForeignHooksKept` |
| `RepositoryInvariant` | `Spec => []RepoInv` |
| `RepositoryTypeCorrect` | `Spec => []TypeOK` |
| `EventsAlwaysRunTheirGroups` | `Spec => []EventsRunTheirGroups` |
| `UniqueIdsAreUnique` | the ids that `_unique_id` gives to a list of hooks are distinct |
| `MigrationAlwaysTells` | `Spec => []MigrationTellsWhatItDrops` |

*Assumptions*: what a config, a pre-commit configuration and a hook of the user's own are (an id is its text and its numbers); that a config's group names
are distinct (they are keys of a TOML table, `GroupsAssumption`); the bounds are natural numbers.

*Argument.* For foreign hooks, `LookedInv`: while an install writes a hook, what it found
there was nothing or its own, because it looked first, or the user has written the file since. For events,
`PromiseInv` says that a promised hook has on disk the script of the config it was promised from; a promise is over when the user or an install
writes the file, or an install reports without it, and is given when an install reports what it installed: `ProgressInv` says that by then each of those
hooks has that config's script, the one in hand included, step by step, and that no hook comes twice. `EventInv` then follows a run of git through the script: what it ran and what is
to run are together the script that was promised when it began, although the file may have been edited meanwhile.

A migration loses a hook only if two get one id, for the planner keeps the last of an id. `UniqueIdsAreUnique`: of two hooks of one id the later counts more repetitions
(`RepetitionsCounted`), so their numbers differ; hooks of different ids stay apart because a numbered id tells the id and the number it was made
from (`NumberedOnce`), and a numbered id is none of the list's own when no id of the list reads as a repetition of another, which is the theorem's hypothesis. `OwnDefinition` then
gives each position its own definition, and `MigratedInv` says that the `check.toml` last migrated is still what was written for its input.
`MappedTells` then holds each hook against what was made of it: whatever is lost (`Lost`) is in a warning (`Told`) or one of the three things of `Untold`.

### PinningProofs

| Theorem | Statement |
|---|---|
| `SelectionIsBest` | what `_select_version` returns for any files and clauses |
| `PinningInvariant` | `Spec => []PinningInv` |
| `PinningTypeCorrect` | `Spec => []TypeOK` |
| `PinIsAlwaysBest` | `Spec => []PinIsBest` |
| `EnvironmentAlwaysFits` | `Spec => []EnvironmentFits` |
| `SyncedAlwaysRunsOffline` | `Spec => []SyncedRunsOffline` |

*Assumptions*: `VersionsAssumption` (a version ranks no lower than its public part, and equal ranks mean the same version but for spelling, as in
`packaging`), `WorldsAssumption` (the hooks and commands of a world, and pages of an index that list files of the project asked
for), `NoneAssumption`.

*Argument.* `SelectionIsBest` is about data alone: outside `Departs`, what `_select_version` returns is what the documented rule (`Documented`) selects. The code chooses among
the first spellings that the index lists, the rule among all; a release that satisfies the clauses was enumerated under a spelling that does too. It took
the theorem to find the second spelling of `Departs`: TLC had no page with two spellings of one version until
the proof asked for one. `CacheInv` says that a slot holds what its key says, which no step of a command checks; it holds because a slot is
built from the pin that makes the key, and `uv` installs that version or fails. `ReportInv` keeps, for each hook that a sync
reported as there, the key that an *offline* run would make of it (`Promised`), though the sync made its key online, by
another function: the two agree when the hook pins one release as the index writes it.

### WorkspaceProofs and RunCommandProofs

| Theorem | Statement |
|---|---|
| `CommandInvariant` | `Spec => []CommandInv` |
| `RunTypeCorrect` | `Spec => []TypeOK` |
| `AffectedAlwaysExactly` | `Spec => []AffectedExactly` |
| `EveryHookAlwaysAccountedFor` | `Spec => []EveryHookAccountedFor` |
| `GateOpensOnlyIfPassed` | `Spec => []OpenOnlyIfPassed` |
| `HooksAlwaysSeeTheirFiles` | `Spec => []HooksSeeTheirFiles` |

*Assumptions*: `ConfigsAssumption` and `CasesAssumption`: hooks, groups and depends-on are lists, `max_workers` is positive
(pydantic sees to both), paths are lists of names, a glob finds a directory once, and `--config` names a
file that exists (`click.Path(exists=True)`, `run.py:33`).

*Argument.* `WorkspaceProofs` has the two loops. The search (`WalkInv`, `DoneInv`): the names on the walk are a path
of depends-on edges, those it is done with are closed under depends-on and free of cycles. A dependency that is being
visited closes a cycle along the path; an end with every name done leaves no room for one. The collection (`ReachInv`): what is affected or on
the stack is reached from the seeds, and that includes the seeds and the dependents of what is affected; with an empty stack, what is affected
is therefore the least such set. `RunCommandProofs` follows the command: `SpreadInv` and `SearchInv` say in which phases each of these holds;
`PlannerInv` carries what `build_plan` was given to what it made of it (`Planner` is the module `Plan`, `SameOperators` says that its
operators are those of `Config`); and `ResultsInv` says what a run leaves behind: with
`--affected`, a result for each unconditional hook of every package whose turn is over (`Served`); otherwise results of running
hooks only, of all of them unless something failed under fail-fast. With unique ids, ids can be counted in place of hooks: what ran, what was
skipped and what was not run are then disjoint and together what was selected.

What a hook is given to look at needs a second invariant, `SightInv`, on top of `CommandInv`: a directory is a package once (`DiscoverPackages` takes
each directory of a tree without repetitions), what git lists are paths, and each result holds the files that its hook's globs select
among those below its package (`Sees`). That the definition that ran is the one the result's id stands for (`HookOf`) rests on
`RunningFound` and on ids staying distinct when a package inherits (`EffectiveDistinct`). The rest is algebra of paths
(`PathParts`, `PathJoined`, `PathsBelowTop`): a file is below a directory just when its name from the top begins with the
directory's, and joining the directory to the file's name from there leads back to it.

### What is only model-checked

- Liveness (`RunEnds`, `EligibleHooksStart`, `WorkersEnd`, `ClearEnds`, `PlanningEnds`): it rests on fairness, which is out of the prover's reach.
- That an id with a number is a text of its own, `ruff-2` and no other: ids are modelled as text and numbers, as the provers know nothing of strings.
- The six findings, which are counterexamples.

## 5. What is not modelled, and why

- What a hook's tool does, uv's resolution, git: external, represented by their possible results.
- The texts of bodies, requirements, globs, regexes and TOML documents: they are represented by what the
  code finds out about them (the files listed, the clauses, the paths matched, whether a document loads).
- Formatting (reports, JSON, error positions in a config), the words of a command line: no state or order to check.
- Signals to `gatecheck run` itself: what a terminal does to the hooks is, to the scheduler, a failure of theirs.
- `cache clear --all` and `--dry-run`, sizes; the publication of the downloaded uv, a single rename of a
  complete file that all processes write alike.
- Two installs or migrations at once: `Repository` runs one command at a time, next to the user and git.
- Filesystem durability (power loss) and other users' permissions: the code makes no claim about them.
- The Rust stubs and the release script, which have no part in the behaviour.

## 6. Plan

Done: `HookRun`, `EngineContract`, `RunGraph`, `EnvStore`, `EnvCache`, `Config`, `Plan`, `Workspace`, `RunCommand`, `Pinning` and `Repository`, each with the
proofs of section 4: all invariants and action properties that the runs check are proved, and both refinements. Worth doing next: the
publication of the downloaded uv (`uv_bootstrap.py`), by several processes at once, as another user of the cache directory.
