-------------------------- MODULE RepositoryProofs --------------------------
(***************************************************************************)
(* Install never touches a hook that is not its own, git runs what install *)
(* reported, and what a migration drops it tells, but for three things:    *)
(* proved for every set of configs, hooks and pre-commit configurations,   *)
(* and every number of commands and edits.                                 *)
(***************************************************************************)
EXTENDS Repository, ConfigProofs

\* What an install found under h is neither absent nor its own.
Foreign(h) == found[h] # None /\ ~found[h].marked

\* The variables are functions on the git hooks, and an install has its fields.
HooksShape == DOMAIN gitHooks = GitHooks /\ DOMAIN found = GitHooks
CommandShape ==
    IsCommand("install") =>
        command = [name |-> "install", config |-> command.config, todo |-> command.todo,
                   step |-> command.step, installed |-> command.installed]

\* An install that has looked at a hook and goes on found none there, or its own.
LookedInv ==
    IsCommand("install") /\ command.step # "look" /\ Hook \in GitHooks => ~Foreign(Hook)

InstallInv == HooksShape /\ CommandShape /\ LookedInv /\ ForeignHooksKept

-----------------------------------------------------------------------------
\* Nothing that the invariant speaks of changes.
LEMMA InvStutters ==
    ASSUME InstallInv, UNCHANGED <<gitHooks, found, command>>
    PROVE  InstallInv'
  BY DEF InstallInv, HooksShape, CommandShape, LookedInv, ForeignHooksKept, Foreign, IsCommand, Hook

LEMMA InitInv == Init => InstallInv
  BY DEF Init, InstallInv, HooksShape, CommandShape, LookedInv, ForeignHooksKept, IsCommand

\* The user's edit is what ends the history of a hook.
LEMMA EditHookInv ==
    ASSUME InstallInv, NEW hook \in GitHooks, NEW file \in OwnHooks \cup {None}, EditHook(hook, file)
    PROVE  InstallInv'
<1>1. HooksShape'
  BY DEF InstallInv, HooksShape, EditHook
<1>2. CommandShape'
  BY DEF InstallInv, CommandShape, EditHook, IsCommand
<1>3. LookedInv'
  <2>1. CASE IsCommand("install")
    BY <2>1 DEF InstallInv, HooksShape, CommandShape, LookedInv, Foreign, EditHook, IsCommand, Hook
  <2>2. CASE ~IsCommand("install")
    BY <2>2 DEF LookedInv, EditHook, IsCommand
  <2> QED  BY <2>1, <2>2
<1>4. ForeignHooksKept'
  BY DEF InstallInv, HooksShape, ForeignHooksKept, EditHook
<1> QED  BY <1>1, <1>2, <1>3, <1>4 DEF InstallInv

\* An install begins by finding what is there.
LEMMA InstallStartInv ==
    ASSUME InstallInv, NEW config, NEW cwd, Install(config, cwd)
    PROVE  InstallInv'
<1>1. found' = gitHooks /\ gitHooks' = gitHooks
  BY DEF Install
<1>2. HooksShape' /\ ForeignHooksKept'
  BY <1>1 DEF InstallInv, HooksShape, ForeignHooksKept
<1>3. CommandShape' /\ LookedInv'
  BY DEF Install, CommandShape, LookedInv, IsCommand
<1> QED  BY <1>2, <1>3 DEF InstallInv

\* When a hook is dealt with, the next one has not been looked at.
LEMMA NextHookInv ==
    ASSUME InstallInv, IsCommand("install"), NEW installed, NextHook(installed)
    PROVE  CommandShape' /\ LookedInv'
  BY DEF InstallInv, CommandShape, LookedInv, NextHook, IsCommand

\* Of the hooks it looks at, an install goes on with those it may write.
LEMMA LookInv ==
    ASSUME InstallInv, Look
    PROVE  InstallInv'
<1>1. IsCommand("install") /\ UNCHANGED <<gitHooks, found>>
  BY DEF Look, AtStep
<1>2. HooksShape' /\ ForeignHooksKept'
  BY <1>1 DEF InstallInv, HooksShape, ForeignHooksKept
<1>3. CASE command' = None
  BY <1>2, <1>3 DEF InstallInv, CommandShape, LookedInv, IsCommand
<1>4. CASE NextHook(command.installed)
  BY <1>1, <1>2, <1>4, NextHookInv DEF InstallInv
<1>5. CASE MayWrite(File) /\ Goto("truncate")
  <2>1. Hook' = Hook /\ CommandShape'
    BY <1>1, <1>5 DEF InstallInv, CommandShape, Goto, IsCommand, Hook
  <2>2. Hook \in GitHooks => ~Foreign(Hook)
    BY <1>5 DEF InstallInv, ForeignHooksKept, Foreign, MayWrite, File
  <2> QED
    BY <1>1, <1>2, <2>1, <2>2 DEF InstallInv, LookedInv, Foreign
<1> QED
  BY <1>3, <1>4, <1>5 DEF Look

\* What is written is the hook that the install has looked at.
LEMMA WritingInv ==
    ASSUME InstallInv, IsCommand("install"), command.step # "look",
           NEW file, Writing(file), UNCHANGED found
    PROVE  HooksShape' /\ ForeignHooksKept'
<1>1. HooksShape'
  BY DEF InstallInv, HooksShape, Writing
<1>2. ASSUME NEW h \in GitHooks, Foreign(h)
      PROVE  gitHooks'[h] = found[h]
  <2>1. h # Hook /\ gitHooks[h] = found[h]
    BY <1>2 DEF InstallInv, LookedInv, ForeignHooksKept, Foreign
  <2> QED
    BY <2>1 DEF InstallInv, HooksShape, Writing
<1> QED
  BY <1>1, <1>2 DEF ForeignHooksKept, Foreign

\* Going on with the same hook.
LEMMA GotoInv ==
    ASSUME InstallInv, IsCommand("install"), command.step # "look",
           NEW step, Goto(step), UNCHANGED found
    PROVE  CommandShape' /\ LookedInv'
<1>1. CommandShape' /\ Hook' = Hook
  BY DEF InstallInv, CommandShape, Goto, IsCommand, Hook
<1> QED
  BY <1>1 DEF InstallInv, LookedInv, Foreign

LEMMA TruncateInv ==
    ASSUME InstallInv, Truncate
    PROVE  InstallInv'
  BY WritingInv, GotoInv DEF Truncate, AtStep, InstallInv

LEMMA WriteInv ==
    ASSUME InstallInv, Write
    PROVE  InstallInv'
  BY WritingInv, GotoInv DEF Write, AtStep, InstallInv

LEMMA ChmodInv ==
    ASSUME InstallInv, Chmod
    PROVE  InstallInv'
  BY WritingInv, NextHookInv DEF Chmod, AtStep, InstallInv

\* A migration, and the end of any command, leave the hooks alone.
LEMMA OtherCommandInv ==
    ASSUME InstallInv, UNCHANGED <<gitHooks, found>>,
           command' = command \/ ~IsCommand("install")'
    PROVE  InstallInv'
<1>1. CASE command' = command
  BY <1>1, InvStutters
<1>2. CASE ~IsCommand("install")'
  BY <1>2 DEF InstallInv, HooksShape, CommandShape, LookedInv, ForeignHooksKept
<1> QED  BY <1>1, <1>2

LEMMA StepInv == InstallInv /\ [Next]_vars => InstallInv'
<1> SUFFICES ASSUME InstallInv, [Next]_vars
             PROVE  InstallInv'
  OBVIOUS
<1>1. ASSUME NEW place \in Places, NEW config \in Configs \cup {None}, EditConfig(place, config)
      PROVE  InstallInv'
  BY <1>1, OtherCommandInv DEF EditConfig
<1>2. ASSUME NEW hook \in GitHooks, NEW file \in OwnHooks \cup {None}, EditHook(hook, file)
      PROVE  InstallInv'
  BY <1>2, EditHookInv
<1>3. ASSUME NEW place \in Places, NEW input \in DOMAIN PreCommits, Migrate(place, input)
      PROVE  InstallInv'
  BY <1>3, OtherCommandInv DEF Migrate, IsCommand
<1>4. CASE MigrateWrites
  BY <1>4, OtherCommandInv DEF MigrateWrites, IsCommand
<1>5. ASSUME NEW cwd \in Places, InstallDiscovered(cwd)
      PROVE  InstallInv'
  BY <1>5, InstallStartInv DEF InstallDiscovered
<1>6. ASSUME NEW place \in Places, NEW cwd \in Places, InstallFrom(place, cwd)
      PROVE  InstallInv'
  BY <1>6, InstallStartInv DEF InstallFrom
<1>7. CASE Look
  BY <1>7, LookInv
<1>8. CASE Truncate
  BY <1>8, TruncateInv
<1>9. CASE Write
  BY <1>9, WriteInv
<1>10. CASE Chmod
  BY <1>10, ChmodInv
<1>11. CASE Kill
  BY <1>11, OtherCommandInv DEF Kill, IsCommand
<1>12. ASSUME NEW hook \in GitHooks, GitEvent(hook)
       PROVE  InstallInv'
  BY <1>12, OtherCommandInv DEF GitEvent
<1>13. CASE RunLine
  BY <1>13, OtherCommandInv DEF RunLine
<1>14. CASE ScriptEnds
  BY <1>14, OtherCommandInv DEF ScriptEnds
<1>15. CASE UNCHANGED vars
  BY <1>15, InvStutters DEF vars
<1> QED
  BY <1>1, <1>2, <1>3, <1>4, <1>5, <1>6, <1>7, <1>8, <1>9, <1>10, <1>11, <1>12, <1>13, <1>14, <1>15
  DEF Next

(***************************************************************************)
(* install.py never overwrites, truncates or makes executable a git hook   *)
(* without its marker, in whatever order installs, edits by hand,          *)
(* migrations, git events and kills come.                                  *)
(***************************************************************************)
THEOREM ForeignHooksAlwaysKept == Spec => []ForeignHooksKept
<1>1. InstallInv => ForeignHooksKept
  BY DEF InstallInv
<1> QED  BY <1>1, InitInv, StepInv, PTL DEF Spec

-----------------------------------------------------------------------------
(* What git runs: the invariant. *)

\* The groups of a config have names of their own.
GoodConfig(config) ==
    /\ config.groups \in Seq(GroupDefs)
    /\ IsInjective([p \in DOMAIN config.groups |-> config.groups[p].name])

\* A file runs what a config declares for a git hook.
Runs(file, hook, config) ==
    file # None /\ file.executable /\ file.lines = Script(config, hook)

ConfigsInv ==
    /\ checkToml = [place \in Places |-> checkToml[place]]
    /\ \A place \in Places : checkToml[place] # None => GoodConfig(checkToml[place])

FilesInv ==
    /\ gitHooks \in [GitHooks -> Files \cup {None}]
    /\ \A h \in GitHooks : gitHooks[h] # None /\ gitHooks[h].lines # <<>> => gitHooks[h].body = "script"

SpentInv == spent \in [commands : 0..MaxCommands, edits : 0..MaxEdits]

PromiseInv ==
    /\ promise = [h \in GitHooks |-> promise[h]]
    /\ \A h \in GitHooks :
           promise[h] # None => GoodConfig(promise[h]) /\ Runs(gitHooks[h], h, promise[h])

\* The hooks still to be written are others than those that are; the one in hand is promised nothing.
ProgressInv ==
    IsCommand("install") =>
        /\ GoodConfig(command.config)
        /\ command.step \in {"look", "truncate", "write", "chmod"}
        /\ command.todo \in Seq(GitHooks) /\ command.todo # <<>> /\ IsInjective(command.todo)
        /\ command.installed \subseteq GitHooks
        /\ \A k \in DOMAIN command.todo : command.todo[k] \notin command.installed
        /\ \A h \in command.installed : Runs(gitHooks[h], h, command.config)
        /\ command.step \in {"write", "chmod"} => File # None /\ promise[Hook] = None
        /\ command.step = "chmod" => File.lines = Script(command.config, Hook)

MigrateInv ==
    IsCommand("migrate") =>
        /\ command.place \in Places /\ command.input \in DOMAIN PreCommits
        /\ PreCommits[command.input].parses

\* What an event ran and has still to run is the script that was promised.
EventInv ==
    event # None =>
        /\ event = [hook |-> event.hook, promise |-> event.promise, ran |-> event.ran,
                    todo |-> event.todo, outcome |-> event.outcome]
        /\ event.hook \in GitHooks /\ event.outcome \in {"running", "passed", "failed"}
        /\ event.ran \in Lines /\ event.todo \in Lines
        /\ event.outcome = "passed" => event.todo = <<>>
        /\ event.promise # None =>
             LET script == Script(event.promise, event.hook) IN
             /\ GoodConfig(event.promise)
             /\ Len(script) = Len(event.ran) + Len(event.todo)
             /\ \A k \in DOMAIN event.ran : event.ran[k] = script[k]
             /\ \A k \in DOMAIN event.todo : event.todo[k] = script[Len(event.ran) + k]

RepoInv ==
    /\ InstallInv /\ ConfigsInv /\ FilesInv /\ SpentInv
    /\ PromiseInv /\ ProgressInv /\ MigrateInv /\ EventInv

-----------------------------------------------------------------------------
(* Configs and scripts. *)

LEMMA ConfigsAreGood ==
    /\ \A config \in Configs : GoodConfig(config)
    /\ \A hooks : GoodConfig(Dumped(hooks))
<1>1. ASSUME NEW config \in Configs PROVE GoodConfig(config)
  BY ConfigsAssumption, GroupsAssumption DEF GoodConfig
<1>2. ASSUME NEW hooks PROVE GoodConfig(Dumped(hooks))
  <2>1. Dumped(hooks).groups = <<>>
    BY DEF Dumped
  <2>. QED
    BY <2>1, EmptySeq DEF GoodConfig, IsInjective
<1>. QED
  BY <1>1, <1>2

LEMMA OwnFiles == \A file \in OwnHooks : file \in Files /\ file.lines = <<>>
<1> SUFFICES ASSUME NEW file \in OwnHooks PROVE file \in Files /\ file.lines = <<>>
  OBVIOUS
<1>1. file \in [body : {"own", "binary"}, marked : BOOLEAN, executable : BOOLEAN, lines : {<<>>}]
  BY OwnHooksAssumption
<1>2. <<>> \in Lines
  BY EmptySeq DEF Lines
<1>. QED
  BY <1>1, <1>2 DEF Files

\* The positions of the groups that a config declares for a git hook.
DueAt(config, hook) ==
    {p \in Declaring(config) : EventToHook[config.groups[p].event] = hook}

LEMMA EventToHookFacts ==
    /\ EventToHook \in [Events -> GitHooks]
    /\ EventToHook["commit"] = "pre-commit" /\ EventToHook["push"] = "pre-push"
    /\ EventToHook["commit-msg"] = "commit-msg"
  BY DEF EventToHook, Events, GitHooks

\* A script has a line for each group declared for its hook, in the order of the config.
LEMMA ScriptFacts ==
    ASSUME NEW config, GoodConfig(config), NEW hook \in GitHooks
    PROVE  /\ Script(config, hook) \in Lines
           /\ Len(Script(config, hook)) = Cardinality(DueAt(config, hook))
           /\ Cardinality(DueAt(config, hook)) \in Nat
           /\ DueAt(config, hook) \subseteq DOMAIN config.groups
           /\ \A k \in 1..Cardinality(DueAt(config, hook)) :
                PositionOf(DueAt(config, hook), k) \in DueAt(config, hook)
           /\ \A k \in 1..Cardinality(DueAt(config, hook)) :
                Script(config, hook)[k] =
                    [group |-> config.groups[PositionOf(DueAt(config, hook), k)].name,
                     message |-> hook = "commit-msg"]
           /\ \A j, k \in 1..Cardinality(DueAt(config, hook)) :
                j < k <=> PositionOf(DueAt(config, hook), j) < PositionOf(DueAt(config, hook), k)
<1> DEFINE due == DueAt(config, hook)
           groups == GroupsOf(config, hook)
           n == Cardinality(due)
<1>1. config.groups \in Seq(GroupDefs) /\ due \subseteq DOMAIN config.groups
  BY DEF GoodConfig, DueAt, Declaring
<1>2. groups = AtPositions(config.groups, due)
  BY DEF GroupsOf, DueAt
<1> HIDE DEF due, groups
<1>3. /\ groups \in Seq({config.groups[p] : p \in due})
      /\ Len(groups) = n /\ n \in Nat
  BY <1>1, <1>2, AtPositionsKeepsOrder
<1>4. \A k \in 1..n : PositionOf(due, k) \in due
  BY <1>1, AtPositionsKeepsOrder
<1>5. \A k \in 1..n : groups[k] = config.groups[PositionOf(due, k)]
  BY <1>1, <1>2, AtPositionsKeepsOrder
<1>6. \A j, k \in 1..n : j < k <=> PositionOf(due, j) < PositionOf(due, k)
  BY <1>1, AtPositionsKeepsOrder
<1>7. DOMAIN groups = 1..n
  BY <1>3
<1>8. Script(config, hook) = [k \in 1..n |-> [group |-> groups[k].name, message |-> hook = "commit-msg"]]
  BY <1>7 DEF Script, groups
<1>9. ASSUME NEW k \in 1..n PROVE config.groups[PositionOf(due, k)].name \in STRING
  <2>1. config.groups[PositionOf(due, k)] \in GroupDefs
    BY <1>1, <1>4, ElementOfSeq
  <2>. QED
    BY <2>1 DEF GroupDefs
<1>10. \A k \in 1..n : Script(config, hook)[k] =
          [group |-> config.groups[PositionOf(due, k)].name, message |-> hook = "commit-msg"]
  BY <1>5, <1>8
<1>11. ASSUME NEW k \in 1..n PROVE Script(config, hook)[k] \in [group : STRING, message : BOOLEAN]
  <2>1. (hook = "commit-msg") \in BOOLEAN
    OBVIOUS
  <2>2. \A g \in STRING, m \in BOOLEAN : [group |-> g, message |-> m] \in [group : STRING, message : BOOLEAN]
    OBVIOUS
  <2>3. [group |-> config.groups[PositionOf(due, k)].name, message |-> hook = "commit-msg"]
            \in [group : STRING, message : BOOLEAN]
    BY <1>9, <2>1, <2>2, Zenon
  <2>. QED
    BY <1>10, <2>3, Zenon
<1>12. Script(config, hook) \in [1..n -> [group : STRING, message : BOOLEAN]]
  BY <1>8, <1>11
<1> DEFINE line == [group : STRING, message : BOOLEAN]
<1> HIDE DEF line
<1>12a. Script(config, hook) \in [1..n -> line]
  BY <1>12 DEF line
<1>13. Script(config, hook) \in Seq(line) /\ Len(Script(config, hook)) = n
  BY <1>3, <1>12a
<1>. QED
  BY <1>1, <1>3, <1>4, <1>6, <1>10, <1>13 DEF due, line, Lines

\* An install has each git hook of its config to do once.
LEMMA HooksOfFacts ==
    ASSUME NEW config, GoodConfig(config)
    PROVE  HooksOf(config) \in Seq(GitHooks) /\ IsInjective(HooksOf(config))
<1> DEFINE on == OnEvent(config)
           hooks == [p \in DOMAIN on |-> EventToHook[on[p].event]]
<1>1. config.groups \in Seq(GroupDefs) /\ Declaring(config) \subseteq DOMAIN config.groups
  BY DEF GoodConfig, Declaring
<1>2. ASSUME NEW p \in Declaring(config) PROVE EventToHook[config.groups[p].event] \in GitHooks
  <2>1. config.groups[p] \in GroupDefs /\ config.groups[p].event # None
    BY <1>1 DEF Declaring
  <2>2. config.groups[p].event \in Events
    BY <2>1 DEF GroupDefs, Optional
  <2>. QED
    BY <2>2, EventToHookFacts
<1>3. on \in Seq({config.groups[p] : p \in Declaring(config)})
  BY <1>1, AtPositionsKeepsOrder DEF OnEvent
<1> HIDE DEF on
<1>4. hooks \in Seq(GitHooks)
  <2>1. Len(on) \in Nat /\ DOMAIN on = 1..Len(on)
    BY <1>3
  <2>2. \A p \in 1..Len(on) : EventToHook[on[p].event] \in GitHooks
    BY <1>2, <1>3
  <2>. QED
    BY <2>1, <2>2
<1>5. HooksOf(config) = FirstMentions(hooks)
  BY DEF HooksOf, on
<1> HIDE DEF hooks
<1>6. ToSet(hooks) \subseteq GitHooks
  BY <1>4 DEF ToSet
<1>7. FirstMentions(hooks) \in Seq(ToSet(hooks)) /\ IsInjective(FirstMentions(hooks))
  BY <1>4, FirstMentionsOnce
<1>. QED
  BY <1>5, <1>6, <1>7, SeqMonotonic

-----------------------------------------------------------------------------
(* The invariant is inductive. *)

LEMMA RepoInit == Init => RepoInv
<1> SUFFICES ASSUME Init PROVE RepoInv
  OBVIOUS
<1>1. InstallInv
  BY InitInv
<1>2. ConfigsInv
  <2>1. PICK config \in Configs \cup {None} :
              checkToml = [[p \in Places |-> None] EXCEPT !["top"] = config]
    BY DEF Init
  <2>2. \A place \in Places : checkToml[place] = None \/ checkToml[place] \in Configs
    BY <2>1
  <2>. QED
    BY <2>1, <2>2, ConfigsAreGood DEF ConfigsInv
<1>3. FilesInv
  <2>1. PICK file \in OwnHooks \cup {None} :
              gitHooks = [[h \in GitHooks |-> None] EXCEPT !["pre-commit"] = file]
    BY DEF Init
  <2>2. \A h \in GitHooks : gitHooks[h] = None \/ gitHooks[h] \in OwnHooks
    BY <2>1
  <2>3. gitHooks = [h \in GitHooks |-> gitHooks[h]]
    BY <2>1
  <2>. QED
    BY <2>2, <2>3, OwnFiles DEF FilesInv
<1>4. SpentInv
  BY BoundsAssumption DEF Init, SpentInv
<1>5. PromiseInv /\ ProgressInv /\ MigrateInv /\ EventInv
  BY DEF Init, PromiseInv, ProgressInv, MigrateInv, EventInv, IsCommand
<1>. QED
  BY <1>1, <1>2, <1>3, <1>4, <1>5 DEF RepoInv

\* Configs are written by the user and by migrations.
LEMMA ConfigsKeep ==
    ASSUME RepoInv, [Next]_vars
    PROVE  ConfigsInv'
<1> USE DEF RepoInv
<1>1. ASSUME NEW place, NEW config, config # None => GoodConfig(config),
             checkToml' = [checkToml EXCEPT ![place] = config]
      PROVE  ConfigsInv'
  <2>1. \A p \in Places : checkToml'[p] = checkToml[p] \/ checkToml'[p] = config
    BY <1>1 DEF ConfigsInv
  <2>2. checkToml' = [p \in Places |-> checkToml'[p]]
    BY <1>1 DEF ConfigsInv
  <2>. QED
    BY <1>1, <2>1, <2>2 DEF ConfigsInv
<1>2. CASE UNCHANGED checkToml
  BY <1>2 DEF ConfigsInv
<1>3. ASSUME NEW place \in Places, NEW config \in Configs \cup {None}, EditConfig(place, config)
      PROVE  ConfigsInv'
  BY <1>1, <1>3, ConfigsAreGood DEF EditConfig, Rewrite
<1>4. ASSUME NEW place \in Places, NEW input \in DOMAIN PreCommits, Migrate(place, input)
      PROVE  ConfigsInv'
  BY <1>1, <1>2, <1>4, ConfigsAreGood DEF Migrate, Rewrite
<1>5. CASE MigrateWrites
  BY <1>1, <1>5, ConfigsAreGood DEF MigrateWrites
<1>6. ASSUME NEW cwd \in Places, InstallDiscovered(cwd) PROVE ConfigsInv'
  BY <1>2, <1>6 DEF InstallDiscovered, Install
<1>7. ASSUME NEW place \in Places, NEW cwd \in Places, InstallFrom(place, cwd) PROVE ConfigsInv'
  BY <1>2, <1>7 DEF InstallFrom, Install
<1>8. ASSUME NEW hook \in GitHooks, GitEvent(hook) PROVE ConfigsInv'
  BY <1>2, <1>8 DEF GitEvent
<1>9. ASSUME NEW hook \in GitHooks, NEW file \in OwnHooks \cup {None}, EditHook(hook, file)
      PROVE  ConfigsInv'
  BY <1>2, <1>9 DEF EditHook
<1>10. CASE Look \/ Truncate \/ Write \/ Chmod \/ Kill \/ RunLine \/ ScriptEnds \/ UNCHANGED vars
  BY <1>2, <1>10 DEF Look, Truncate, Write, Chmod, Kill, RunLine, ScriptEnds, vars
<1>. QED
  BY <1>3, <1>4, <1>5, <1>6, <1>7, <1>8, <1>9, <1>10 DEF Next

\* Commands, events and edits are counted up to their bounds.
LEMMA SpentKeeps ==
    ASSUME RepoInv, [Next]_vars
    PROVE  SpentInv'
<1> USE DEF RepoInv
<1>1. CASE UNCHANGED spent
  BY <1>1 DEF SpentInv
<1>2. CASE SpendCommand
  BY <1>2, BoundsAssumption DEF SpendCommand, Spend, SpentInv
<1>3. CASE SpendEdit
  BY <1>3, BoundsAssumption DEF SpendEdit, Spend, SpentInv
<1>4. UNCHANGED spent \/ SpendCommand \/ SpendEdit
  BY DEF Next, EditConfig, EditHook, Migrate, MigrateWrites, InstallDiscovered, InstallFrom, Install,
         Look, Truncate, Write, Chmod, Kill, GitEvent, RunLine, ScriptEnds, vars
<1>. QED
  BY <1>1, <1>2, <1>3, <1>4

-----------------------------------------------------------------------------
(* The steps of an install. *)

LEMMA TailFacts ==
    ASSUME NEW T, NEW s \in Seq(T), s # <<>>, IsInjective(s)
    PROVE  /\ Head(s) \in T /\ Head(s) = s[1] /\ 1 \in DOMAIN s
           /\ Tail(s) \in Seq(T) /\ IsInjective(Tail(s))
           /\ Len(s) # 1 => Tail(s) # <<>>
           /\ \A k \in DOMAIN Tail(s) :
                k + 1 \in DOMAIN s /\ Tail(s)[k] = s[k + 1] /\ Tail(s)[k] # Head(s)
<1>1. Len(s) \in Nat /\ Len(s) >= 1 /\ DOMAIN s = 1..Len(s)
  BY EmptySeq
<1>2. Head(s) \in T /\ Head(s) = s[1] /\ 1 \in DOMAIN s
  BY <1>1
<1>3. Tail(s) \in Seq(T) /\ Len(Tail(s)) = Len(s) - 1 /\ DOMAIN Tail(s) = 1..(Len(s) - 1)
  BY <1>1
<1>4. ASSUME NEW k \in DOMAIN Tail(s)
      PROVE  k + 1 \in DOMAIN s /\ Tail(s)[k] = s[k + 1] /\ k \in Nat /\ k >= 1
  BY <1>1, <1>3
<1>5. ASSUME NEW k \in DOMAIN Tail(s) PROVE Tail(s)[k] # Head(s)
  <2>1. k + 1 # 1
    BY <1>4
  <2>. QED
    BY <1>2, <1>4, <2>1 DEF IsInjective
<1>6. IsInjective(Tail(s))
  <2> SUFFICES ASSUME NEW j \in DOMAIN Tail(s), NEW k \in DOMAIN Tail(s), Tail(s)[j] = Tail(s)[k]
               PROVE  j = k
    BY DEF IsInjective
  <2>1. j + 1 = k + 1
    BY <1>4 DEF IsInjective
  <2>. QED
    BY <1>4, <2>1
<1>7. Len(s) # 1 => Tail(s) # <<>>
  BY <1>1, <1>3, EmptySeq
<1>. QED
  BY <1>2, <1>3, <1>4, <1>5, <1>6, <1>7

LEMMA HookInHand ==
    ASSUME RepoInv, IsCommand("install")
    PROVE  /\ Hook \in GitHooks /\ Hook \notin command.installed
           /\ command = [name |-> "install", config |-> command.config, todo |-> command.todo,
                         step |-> command.step, installed |-> command.installed]
<1>1. command.todo \in Seq(GitHooks) /\ command.todo # <<>> /\ IsInjective(command.todo)
  BY DEF RepoInv, ProgressInv
<1>2. Hook \in GitHooks /\ Hook = command.todo[1] /\ 1 \in DOMAIN command.todo
  BY <1>1, TailFacts DEF Hook
<1>. QED
  BY <1>2 DEF RepoInv, ProgressInv, InstallInv, CommandShape

(***************************************************************************)
(* Going on to the next hook, or ending with the report: what the report   *)
(* promises are the hooks installed, each of which runs what it should.    *)
(***************************************************************************)
LEMMA NextHookKeeps ==
    ASSUME RepoInv, IsCommand("install"), NEW installed, installed \subseteq command.installed \cup {Hook},
           \A h \in GitHooks \ {Hook} : gitHooks'[h] = gitHooks[h],
           Hook \in installed => Runs(gitHooks'[Hook], Hook, command.config),
           promise[Hook] # None => Runs(gitHooks'[Hook], Hook, promise[Hook]),
           NextHook(installed)
    PROVE  PromiseInv' /\ ProgressInv' /\ MigrateInv'
<1> USE DEF RepoInv
<1>1. Hook \in GitHooks /\ Hook \notin command.installed
  BY HookInHand
<1>2. /\ GoodConfig(command.config) /\ installed \subseteq GitHooks
      /\ \A h \in installed : Runs(gitHooks'[h], h, command.config)
  BY <1>1 DEF ProgressInv
<1>3. ASSUME NEW h \in GitHooks, promise[h] # None
      PROVE  GoodConfig(promise[h]) /\ Runs(gitHooks'[h], h, promise[h])
  BY <1>3 DEF PromiseInv
<1>4. CASE Len(command.todo) = 1
  <2>1. /\ command' = None
        /\ promise' = [h \in GitHooks |-> IF h \in installed THEN command.config ELSE None]
    BY <1>4 DEF NextHook
  <2>2. PromiseInv'
    BY <1>2, <1>3, <2>1 DEF PromiseInv
  <2>. QED
    BY <2>1, <2>2 DEF ProgressInv, MigrateInv, IsCommand
<1>5. CASE Len(command.todo) # 1
  <2>1. /\ command' = [command EXCEPT !.todo = Tail(@), !.step = "look", !.installed = installed]
        /\ promise' = promise
    BY <1>5 DEF NextHook
  <2>2. command' = [name |-> "install", config |-> command.config, todo |-> Tail(command.todo),
                    step |-> "look", installed |-> installed]
    <3>1. PICK c, t, st, i : command = [name |-> "install", config |-> c, todo |-> t,
                                        step |-> st, installed |-> i]
      BY HookInHand
    <3>. QED
      BY <2>1, <3>1
  <2>3. PromiseInv'
    BY <1>3, <2>1 DEF PromiseInv
  <2>4. /\ Tail(command.todo) \in Seq(GitHooks) /\ Tail(command.todo) # <<>>
        /\ IsInjective(Tail(command.todo))
        /\ \A k \in DOMAIN Tail(command.todo) : Tail(command.todo)[k] \notin installed
    <3>1. command.todo \in Seq(GitHooks) /\ command.todo # <<>> /\ IsInjective(command.todo)
      BY DEF ProgressInv
    <3>2. ASSUME NEW k \in DOMAIN Tail(command.todo) PROVE Tail(command.todo)[k] \notin installed
      <4>1. Tail(command.todo)[k] # Hook /\ Tail(command.todo)[k] \notin command.installed
        BY <3>1, TailFacts DEF ProgressInv, Hook
      <4>. QED
        BY <4>1
    <3>. QED
      BY <1>5, <3>1, <3>2, TailFacts
  <2>5. ProgressInv'
    BY <1>2, <2>2, <2>4 DEF ProgressInv, IsCommand
  <2>6. MigrateInv'
    BY <2>2 DEF MigrateInv, IsCommand
  <2>. QED
    BY <2>3, <2>5, <2>6
<1>. QED
  BY <1>4, <1>5

\* One git hook is written.
LEMMA FileWritten ==
    ASSUME FilesInv, NEW hook \in GitHooks, NEW file \in Files \cup {None},
           file # None /\ file.lines # <<>> => file.body = "script",
           gitHooks' = [gitHooks EXCEPT ![hook] = file]
    PROVE  /\ FilesInv' /\ gitHooks'[hook] = file
           /\ \A h \in GitHooks \ {hook} : gitHooks'[h] = gitHooks[h]
  BY DEF FilesInv

\* The command goes to its next step, with the hook in hand.
LEMMA StepTaken ==
    ASSUME RepoInv, IsCommand("install"), NEW step, Goto(step)
    PROVE  /\ command' = [name |-> "install", config |-> command.config, todo |-> command.todo,
                          step |-> step, installed |-> command.installed]
           /\ Hook' = Hook
<1>1. PICK c, t, st, i : command = [name |-> "install", config |-> c, todo |-> t,
                                    step |-> st, installed |-> i]
  BY HookInHand
<1>. QED
  BY <1>1 DEF Goto, Hook

LEMMA LookKeeps ==
    ASSUME RepoInv, Look
    PROVE  FilesInv' /\ PromiseInv' /\ ProgressInv' /\ MigrateInv'
<1> USE DEF RepoInv
<1>1. IsCommand("install") /\ gitHooks' = gitHooks /\ FilesInv'
  BY DEF Look, AtStep, FilesInv
<1>2. CASE command' = None /\ UNCHANGED promise
  BY <1>1, <1>2 DEF PromiseInv, ProgressInv, MigrateInv, IsCommand
<1>3. CASE NextHook(command.installed)
  BY <1>1, <1>3, HookInHand, NextHookKeeps DEF PromiseInv
<1>4. CASE Goto("truncate") /\ UNCHANGED promise
  <2>1. /\ command' = [name |-> "install", config |-> command.config, todo |-> command.todo,
                       step |-> "truncate", installed |-> command.installed]
    BY <1>1, <1>4, StepTaken
  <2>. QED
    BY <1>1, <1>4, <2>1 DEF PromiseInv, ProgressInv, MigrateInv, IsCommand
<1>. QED
  BY <1>1, <1>2, <1>3, <1>4 DEF Look

LEMMA TruncateKeeps ==
    ASSUME RepoInv, Truncate
    PROVE  FilesInv' /\ PromiseInv' /\ ProgressInv' /\ MigrateInv'
<1> USE DEF RepoInv
<1> DEFINE empty == [body |-> "empty", marked |-> FALSE, lines |-> <<>>,
                     executable |-> File # None /\ File.executable]
<1>1. /\ IsCommand("install") /\ Writing(empty) /\ Goto("write")
      /\ promise' = [promise EXCEPT ![Hook] = None]
  BY DEF Truncate, AtStep
<1>2. Hook \in GitHooks /\ Hook \notin command.installed
  BY <1>1, HookInHand
<1>3. empty \in Files /\ empty.lines = <<>>
  <2>1. (File # None /\ File.executable) \in BOOLEAN
    <3>1. File \in Files \cup {None}
      BY <1>2 DEF FilesInv, File
    <3>. QED
      BY <3>1 DEF Files
  <2>2. <<>> \in Lines
    BY EmptySeq DEF Lines
  <2>3. \A b \in BOOLEAN :
          [body |-> "empty", marked |-> FALSE, lines |-> <<>>, executable |-> b] \in Files
    BY <2>2 DEF Files
  <2>. QED
    BY <2>1, <2>3, Zenon
<1> HIDE DEF empty
<1>4. /\ FilesInv' /\ gitHooks'[Hook] = empty /\ empty # None
      /\ \A h \in GitHooks \ {Hook} : gitHooks'[h] = gitHooks[h]
  BY <1>1, <1>2, <1>3, FileWritten, NoneAssumption DEF Writing
<1>5. /\ command' = [name |-> "install", config |-> command.config, todo |-> command.todo,
                     step |-> "write", installed |-> command.installed]
      /\ Hook' = Hook
  BY <1>1, StepTaken
<1>6. /\ promise'[Hook] = None /\ promise' = [h \in GitHooks |-> promise'[h]]
      /\ \A h \in GitHooks \ {Hook} : promise'[h] = promise[h]
  BY <1>1, <1>2 DEF PromiseInv
<1>7. PromiseInv'
  BY <1>4, <1>6 DEF PromiseInv
<1>8. ASSUME NEW h \in command.installed PROVE Runs(gitHooks'[h], h, command.config)
  BY <1>1, <1>2, <1>4 DEF ProgressInv
<1>9. File' # None /\ promise'[Hook'] = None
  BY <1>4, <1>5, <1>6 DEF File
<1>10. ProgressInv'
  BY <1>1, <1>5, <1>8, <1>9 DEF ProgressInv, IsCommand
<1>. QED
  BY <1>4, <1>5, <1>7, <1>10 DEF MigrateInv, IsCommand

LEMMA WriteKeeps ==
    ASSUME RepoInv, Write
    PROVE  FilesInv' /\ PromiseInv' /\ ProgressInv' /\ MigrateInv'
<1> USE DEF RepoInv
<1> DEFINE script == Script(command.config, Hook)
           file == [File EXCEPT !.body = "script", !.marked = TRUE, !.lines = script]
<1>1. IsCommand("install") /\ command.step = "write" /\ Writing(file) /\ Goto("chmod") /\ promise' = promise
  BY DEF Write, AtStep
<1>2. Hook \in GitHooks /\ Hook \notin command.installed
  BY <1>1, HookInHand
<1>3. script \in Lines
  BY <1>1, <1>2, ScriptFacts DEF ProgressInv
<1>4. File \in Files /\ promise[Hook] = None
  BY <1>1, <1>2 DEF FilesInv, File, ProgressInv
<1> HIDE DEF script
<1>5. file \in Files /\ file.lines = script /\ file.body = "script"
  BY <1>3, <1>4 DEF Files
<1> HIDE DEF file
<1>6. /\ FilesInv' /\ gitHooks'[Hook] = file /\ file # None
      /\ \A h \in GitHooks \ {Hook} : gitHooks'[h] = gitHooks[h]
  BY <1>1, <1>2, <1>5, FileWritten, NoneAssumption DEF Writing
<1>7. /\ command' = [name |-> "install", config |-> command.config, todo |-> command.todo,
                     step |-> "chmod", installed |-> command.installed]
      /\ Hook' = Hook
  BY <1>1, StepTaken
<1>8. PromiseInv'
  BY <1>1, <1>4, <1>6 DEF PromiseInv
<1>9. ASSUME NEW h \in command.installed PROVE Runs(gitHooks'[h], h, command.config)
  BY <1>1, <1>2, <1>6 DEF ProgressInv
<1>10. File' # None /\ promise'[Hook'] = None /\ File'.lines = Script(command.config, Hook)
  BY <1>1, <1>4, <1>5, <1>6, <1>7 DEF File, script
<1>11. ProgressInv'
  BY <1>1, <1>7, <1>9, <1>10 DEF ProgressInv, IsCommand
<1>. QED
  BY <1>6, <1>7, <1>8, <1>11 DEF MigrateInv, IsCommand

LEMMA ChmodKeeps ==
    ASSUME RepoInv, Chmod
    PROVE  FilesInv' /\ PromiseInv' /\ ProgressInv' /\ MigrateInv'
<1> USE DEF RepoInv
<1> DEFINE file == [File EXCEPT !.executable = TRUE]
<1>1. /\ IsCommand("install") /\ command.step = "chmod" /\ Writing(file)
      /\ NextHook(command.installed \cup {Hook})
  BY DEF Chmod, AtStep
<1>2. Hook \in GitHooks
  BY <1>1, HookInHand
<1>3. File \in Files /\ promise[Hook] = None /\ File.lines = Script(command.config, Hook)
  BY <1>1, <1>2 DEF FilesInv, File, ProgressInv
<1>4. file \in Files /\ file.lines = File.lines /\ file.body = File.body /\ file.executable
  BY <1>3 DEF Files
<1>5. File.lines # <<>> => File.body = "script"
  BY <1>2, <1>3, NoneAssumption DEF FilesInv, File
<1> HIDE DEF file
<1>6. /\ FilesInv' /\ gitHooks'[Hook] = file /\ file # None
      /\ \A h \in GitHooks \ {Hook} : gitHooks'[h] = gitHooks[h]
  BY <1>1, <1>2, <1>4, <1>5, FileWritten, NoneAssumption DEF Writing
<1>7. Runs(gitHooks'[Hook], Hook, command.config)
  BY <1>3, <1>4, <1>6 DEF Runs
<1>. QED
  BY <1>1, <1>3, <1>6, <1>7, NextHookKeeps

\* What the user writes is promised nothing any more, by this install either.
LEMMA EditHookKeeps ==
    ASSUME RepoInv, NEW hook \in GitHooks, NEW file \in OwnHooks \cup {None}, EditHook(hook, file)
    PROVE  FilesInv' /\ PromiseInv' /\ ProgressInv' /\ MigrateInv'
<1> USE DEF RepoInv
<1>1. file \in Files \cup {None} /\ (file # None => file.lines = <<>>)
  BY OwnFiles
<1>2. /\ FilesInv' /\ gitHooks'[hook] = file
      /\ \A h \in GitHooks \ {hook} : gitHooks'[h] = gitHooks[h]
  BY <1>1, FileWritten DEF EditHook
<1>3. /\ promise'[hook] = None /\ promise' = [h \in GitHooks |-> promise'[h]]
      /\ \A h \in GitHooks \ {hook} : promise'[h] = promise[h]
  BY DEF EditHook, PromiseInv
<1>4. PromiseInv'
  BY <1>2, <1>3 DEF PromiseInv
<1>5. CASE ~IsCommand("install")
  <2>1. command' = command
    BY <1>5 DEF EditHook
  <2>. QED
    BY <1>2, <1>4, <1>5, <2>1 DEF ProgressInv, MigrateInv, IsCommand
<1>6. CASE IsCommand("install")
  <2>1. PICK c, t, st, i : command = [name |-> "install", config |-> c, todo |-> t,
                                      step |-> st, installed |-> i]
    BY <1>6, HookInHand
  <2>2. command' = [name |-> "install", config |-> c, todo |-> t, step |-> st, installed |-> i \ {hook}]
    BY <1>6, <2>1 DEF EditHook
  <2>3. Hook' = Hook /\ Hook \in GitHooks
    BY <1>6, <2>1, <2>2, HookInHand DEF Hook
  <2>4. ASSUME NEW h \in i \ {hook} PROVE Runs(gitHooks'[h], h, c)
    BY <1>2, <1>6, <2>1 DEF ProgressInv
  <2>5. st \in {"write", "chmod"} => File' = File /\ promise'[Hook'] = promise[Hook]
    <3>1. st \in {"write", "chmod"} => Hook # hook
      BY <1>6, <2>1 DEF EditHook, AtStep
    <3>. QED
      BY <1>2, <1>3, <2>3, <3>1 DEF File
  <2>6. ProgressInv'
    BY <1>6, <2>1, <2>2, <2>3, <2>4, <2>5 DEF ProgressInv, IsCommand
  <2>. QED
    BY <1>2, <1>4, <2>2, <2>6 DEF MigrateInv, IsCommand
<1>. QED
  BY <1>5, <1>6

\* An install takes the groups of a config that loads.
LEMMA InstallKeeps ==
    ASSUME RepoInv, NEW config, NEW cwd, config # None => GoodConfig(config), Install(config, cwd)
    PROVE  FilesInv' /\ PromiseInv' /\ ProgressInv' /\ MigrateInv'
<1> USE DEF RepoInv
<1>1. gitHooks' = gitHooks /\ promise' \in {promise, [h \in GitHooks |-> None]}
  BY DEF Install
<1>2. FilesInv' /\ PromiseInv'
  BY <1>1 DEF FilesInv, PromiseInv
<1>3. CASE command' = None
  BY <1>2, <1>3 DEF ProgressInv, MigrateInv, IsCommand
<1>4. CASE /\ config # None /\ HooksOf(config) # <<>>
           /\ command' = [name |-> "install", config |-> config, todo |-> HooksOf(config),
                          step |-> "look", installed |-> {}]
  <2>1. GoodConfig(config) /\ HooksOf(config) \in Seq(GitHooks) /\ IsInjective(HooksOf(config))
    BY <1>4, HooksOfFacts
  <2>2. ProgressInv'
    BY <1>4, <2>1 DEF ProgressInv, IsCommand
  <2>. QED
    BY <1>2, <1>4, <2>2 DEF MigrateInv, IsCommand
<1>. QED
  BY <1>3, <1>4 DEF Install, Loads

\* Steps that change no git hook, no promise, and no command but to end it.
LEMMA OthersKeep ==
    ASSUME RepoInv, UNCHANGED <<gitHooks, promise>>, command' = command \/ command' = None
    PROVE  FilesInv' /\ PromiseInv' /\ ProgressInv' /\ MigrateInv'
<1> USE DEF RepoInv
<1>1. FilesInv' /\ PromiseInv'
  BY DEF FilesInv, PromiseInv
<1>2. CASE command' = None
  BY <1>1, <1>2 DEF ProgressInv, MigrateInv, IsCommand
<1>3. CASE command' = command
  <2>1. Hook' = Hook /\ File' = File
    BY <1>3 DEF Hook, File
  <2>2. ProgressInv'
    BY <1>3, <2>1 DEF ProgressInv, IsCommand
  <2>. QED
    BY <1>1, <1>3, <2>2 DEF MigrateInv, IsCommand
<1>. QED
  BY <1>2, <1>3

-----------------------------------------------------------------------------
(* The steps of git. *)

\* An event begins with the lines of the script that the promise is about.
LEMMA GitEventKeeps ==
    ASSUME RepoInv, NEW hook \in GitHooks, GitEvent(hook)
    PROVE  EventInv'
<1> USE DEF RepoInv
<1> DEFINE file == gitHooks[hook]
           runs == file # None /\ file.executable
           todo == IF runs THEN file.lines ELSE <<>>
           outcome == IF runs THEN "running" ELSE "passed"
<1>1. event' = [hook |-> hook, promise |-> promise[hook], ran |-> <<>>, todo |-> todo,
                outcome |-> outcome]
  BY DEF GitEvent
<1>2. file \in Files \cup {None}
  BY DEF FilesInv
<1>3. <<>> \in Lines /\ todo \in Lines /\ Len(<<>>) = 0
  BY <1>2, EmptySeq DEF Files, Lines
<1>4. outcome \in {"running", "passed", "failed"} /\ (outcome = "passed" => todo = <<>>)
  OBVIOUS
<1>5. ASSUME promise[hook] # None
      PROVE  GoodConfig(promise[hook]) /\ todo = Script(promise[hook], hook)
  BY <1>5 DEF PromiseInv, Runs
<1> HIDE DEF todo, outcome
<1>6. Len(todo) \in Nat
  BY <1>3 DEF Lines
<1>7. promise[hook] # None =>
        LET script == Script(promise[hook], hook) IN
        /\ GoodConfig(promise[hook])
        /\ Len(script) = Len(<<>>) + Len(todo)
        /\ \A k \in DOMAIN <<>> : <<>>[k] = script[k]
        /\ \A k \in DOMAIN todo : todo[k] = script[Len(<<>>) + k]
  <2> SUFFICES ASSUME promise[hook] # None
               PROVE  /\ GoodConfig(promise[hook])
                      /\ Len(todo) = Len(<<>>) + Len(todo)
                      /\ \A k \in DOMAIN todo : todo[k] = todo[Len(<<>>) + k]
    BY <1>5
  <2>1. DOMAIN todo = 1..Len(todo)
    BY <1>3 DEF Lines
  <2>. QED
    BY <1>3, <1>5, <1>6, <2>1
<1>. QED
  BY <1>1, <1>3, <1>4, <1>7 DEF EventInv

\* A line that ran was the next of the script.
LEMMA RunLineKeeps ==
    ASSUME RepoInv, RunLine
    PROVE  EventInv'
<1> USE DEF RepoInv
<1>1. event # None /\ event.todo # <<>>
  BY DEF RunLine, Running
<1>2. PICK h, p, r, t, o : event = [hook |-> h, promise |-> p, ran |-> r, todo |-> t, outcome |-> o]
  BY <1>1 DEF EventInv
<1>3. /\ h \in GitHooks /\ r \in Lines /\ t \in Lines /\ t # <<>>
  BY <1>1, <1>2 DEF EventInv
<1>4. ASSUME p # None
      PROVE  /\ GoodConfig(p) /\ Len(Script(p, h)) = Len(r) + Len(t)
             /\ \A k \in DOMAIN r : r[k] = Script(p, h)[k]
             /\ \A k \in DOMAIN t : t[k] = Script(p, h)[Len(r) + k]
  BY <1>1, <1>2, <1>4 DEF EventInv
<1>5. CASE event' = [event EXCEPT !.outcome = "failed"]
  <2>1. event' = [hook |-> h, promise |-> p, ran |-> r, todo |-> t, outcome |-> "failed"]
    BY <1>2, <1>5
  <2>. QED
    BY <1>3, <1>4, <2>1 DEF EventInv
<1>6. CASE event' = [event EXCEPT !.todo = Tail(@), !.ran = Append(@, Head(event.todo))]
  <2>1. event' = [hook |-> h, promise |-> p, ran |-> Append(r, Head(t)), todo |-> Tail(t), outcome |-> o]
    BY <1>2, <1>6
  <2>2. o = "running"
    BY <1>2 DEF RunLine, Running
  <2> DEFINE line == [group : STRING, message : BOOLEAN]
  <2>3. r \in Seq(line) /\ t \in Seq(line)
    BY <1>3 DEF Lines
  <2> HIDE DEF line
  <2>4. /\ Len(r) \in Nat /\ Len(t) \in Nat /\ Len(t) >= 1
        /\ DOMAIN r = 1..Len(r) /\ DOMAIN t = 1..Len(t)
    BY <1>3, <2>3, EmptySeq
  <2>5. /\ Append(r, Head(t)) \in Seq(line) /\ Len(Append(r, Head(t))) = Len(r) + 1
        /\ DOMAIN Append(r, Head(t)) = 1..(Len(r) + 1)
        /\ Append(r, Head(t))[Len(r) + 1] = t[1]
        /\ \A k \in 1..Len(r) : Append(r, Head(t))[k] = r[k]
    BY <2>3, <2>4
  <2>6. /\ Tail(t) \in Seq(line) /\ Len(Tail(t)) = Len(t) - 1
        /\ DOMAIN Tail(t) = 1..(Len(t) - 1)
        /\ \A k \in 1..(Len(t) - 1) : Tail(t)[k] = t[k + 1]
    BY <2>3, <2>4
  <2>7. ASSUME p # None
        PROVE  /\ GoodConfig(p) /\ Len(Script(p, h)) = Len(Append(r, Head(t))) + Len(Tail(t))
               /\ \A k \in DOMAIN Append(r, Head(t)) : Append(r, Head(t))[k] = Script(p, h)[k]
               /\ \A k \in DOMAIN Tail(t) : Tail(t)[k] = Script(p, h)[Len(Append(r, Head(t))) + k]
    <3>1. GoodConfig(p) /\ Len(Script(p, h)) = Len(Append(r, Head(t))) + Len(Tail(t))
      BY <1>4, <2>4, <2>5, <2>6, <2>7
    <3>2. ASSUME NEW k \in 1..(Len(r) + 1) PROVE Append(r, Head(t))[k] = Script(p, h)[k]
      <4>1. CASE k = Len(r) + 1
        BY <1>4, <2>4, <2>5, <2>7, <4>1
      <4>2. CASE k # Len(r) + 1
        <5>1. k \in 1..Len(r)
          BY <2>4, <4>2
        <5>. QED
          BY <1>4, <2>4, <2>5, <2>7, <5>1
      <4>. QED
        BY <4>1, <4>2
    <3>3. ASSUME NEW k \in 1..(Len(t) - 1)
          PROVE  Tail(t)[k] = Script(p, h)[(Len(r) + 1) + k]
      <4>1. k + 1 \in DOMAIN t /\ Len(r) + (k + 1) = (Len(r) + 1) + k
        BY <2>4
      <4>2. t[k + 1] = Script(p, h)[Len(r) + (k + 1)]
        BY <1>4, <2>7, <4>1
      <4>. QED
        BY <2>6, <4>1, <4>2
    <3>. QED
      BY <2>5, <2>6, <3>1, <3>2, <3>3
  <2>8. Append(r, Head(t)) \in Lines /\ Tail(t) \in Lines
    BY <2>5, <2>6 DEF line, Lines
  <2>. QED
    BY <1>3, <2>1, <2>2, <2>7, <2>8 DEF EventInv
<1>. QED
  BY <1>5, <1>6 DEF RunLine

LEMMA ScriptEndKeeps ==
    ASSUME RepoInv, ScriptEnds
    PROVE  EventInv'
<1> USE DEF RepoInv
<1>1. event # None /\ event.todo = <<>> /\ event' = [event EXCEPT !.outcome = "passed"]
  BY DEF ScriptEnds, Running
<1>2. PICK h, p, r, t, o : event = [hook |-> h, promise |-> p, ran |-> r, todo |-> t, outcome |-> o]
  BY <1>1 DEF EventInv
<1>3. event' = [hook |-> h, promise |-> p, ran |-> r, todo |-> t, outcome |-> "passed"]
  BY <1>1, <1>2
<1>. QED
  BY <1>1, <1>2, <1>3 DEF EventInv

LEMMA RepoStep == RepoInv /\ [Next]_vars => RepoInv'
<1> SUFFICES ASSUME RepoInv, [Next]_vars PROVE RepoInv'
  OBVIOUS
<1>1. InstallInv' /\ ConfigsInv' /\ SpentInv'
  BY StepInv, ConfigsKeep, SpentKeeps DEF RepoInv
<1>2. UNCHANGED event => EventInv'
  BY DEF RepoInv, EventInv
<1>3. ASSUME NEW place \in Places, NEW config \in Configs \cup {None}, EditConfig(place, config)
      PROVE  RepoInv'
  <2>1. UNCHANGED <<gitHooks, promise, command, event>>
    BY <1>3 DEF EditConfig
  <2>. QED
    BY <1>1, <1>2, <2>1, OthersKeep DEF RepoInv
<1>4. ASSUME NEW hook \in GitHooks, NEW file \in OwnHooks \cup {None}, EditHook(hook, file)
      PROVE  RepoInv'
  <2>1. UNCHANGED event
    BY <1>4 DEF EditHook
  <2>. QED
    BY <1>1, <1>2, <1>4, <2>1, EditHookKeeps DEF RepoInv
<1>5. ASSUME NEW place \in Places, NEW input \in DOMAIN PreCommits, Migrate(place, input)
      PROVE  RepoInv'
  <2>1. UNCHANGED <<gitHooks, promise, event>>
    BY <1>5 DEF Migrate
  <2>2. CASE PreCommits[input].parses
    <3>1. command' = [name |-> "migrate", place |-> place, input |-> input]
      BY <1>5, <2>2 DEF Migrate
    <3>2. FilesInv' /\ PromiseInv' /\ ProgressInv' /\ MigrateInv'
      BY <2>1, <2>2, <3>1 DEF RepoInv, FilesInv, PromiseInv, ProgressInv, MigrateInv, IsCommand
    <3>. QED
      BY <1>1, <1>2, <2>1, <3>2 DEF RepoInv
  <2>3. CASE ~PreCommits[input].parses
    <3>1. command' = command
      BY <1>5, <2>3 DEF Migrate
    <3>. QED
      BY <1>1, <1>2, <2>1, <3>1, OthersKeep DEF RepoInv
  <2>. QED
    BY <2>2, <2>3
<1>6. CASE MigrateWrites
  BY <1>1, <1>2, <1>6, OthersKeep DEF MigrateWrites, RepoInv
<1>7. ASSUME NEW config, NEW cwd, config # None => GoodConfig(config), Install(config, cwd)
      PROVE  RepoInv'
  <2>1. UNCHANGED event
    BY <1>7 DEF Install
  <2>. QED
    BY <1>1, <1>2, <1>7, <2>1, InstallKeeps DEF RepoInv
<1>8. ASSUME NEW cwd \in Places, InstallDiscovered(cwd)
      PROVE  RepoInv'
  <2>1. Discovered(cwd) # None => GoodConfig(Discovered(cwd))
    BY DEF Discovered, RepoInv, ConfigsInv, Places
  <2>. QED
    BY <1>7, <1>8, <2>1 DEF InstallDiscovered
<1>9. ASSUME NEW place \in Places, NEW cwd \in Places, InstallFrom(place, cwd)
      PROVE  RepoInv'
  <2>1. checkToml[place] # None => GoodConfig(checkToml[place])
    BY DEF RepoInv, ConfigsInv
  <2>. QED
    BY <1>7, <1>9, <2>1 DEF InstallFrom
<1>10. CASE Look
  <2>1. UNCHANGED event
    BY <1>10 DEF Look
  <2>. QED
    BY <1>1, <1>2, <1>10, <2>1, LookKeeps DEF RepoInv
<1>11. CASE Truncate
  <2>1. UNCHANGED event
    BY <1>11 DEF Truncate
  <2>. QED
    BY <1>1, <1>2, <1>11, <2>1, TruncateKeeps DEF RepoInv
<1>12. CASE Write
  <2>1. UNCHANGED event
    BY <1>12 DEF Write
  <2>. QED
    BY <1>1, <1>2, <1>12, <2>1, WriteKeeps DEF RepoInv
<1>13. CASE Chmod
  <2>1. UNCHANGED event
    BY <1>13 DEF Chmod
  <2>. QED
    BY <1>1, <1>2, <1>13, <2>1, ChmodKeeps DEF RepoInv
<1>14. CASE Kill
  BY <1>1, <1>2, <1>14, OthersKeep DEF Kill, RepoInv
<1>15. ASSUME NEW hook \in GitHooks, GitEvent(hook)
       PROVE  RepoInv'
  <2>1. UNCHANGED <<gitHooks, promise, command>>
    BY <1>15 DEF GitEvent
  <2>. QED
    BY <1>1, <1>15, <2>1, OthersKeep, GitEventKeeps DEF RepoInv
<1>16. CASE RunLine
  <2>1. UNCHANGED <<gitHooks, promise, command>>
    BY <1>16 DEF RunLine
  <2>. QED
    BY <1>1, <1>16, <2>1, OthersKeep, RunLineKeeps DEF RepoInv
<1>17. CASE ScriptEnds
  <2>1. UNCHANGED <<gitHooks, promise, command>>
    BY <1>17 DEF ScriptEnds
  <2>. QED
    BY <1>1, <1>17, <2>1, OthersKeep, ScriptEndKeeps DEF RepoInv
<1>18. CASE UNCHANGED vars
  BY <1>1, <1>2, <1>18, OthersKeep DEF vars, RepoInv
<1>. QED
  BY <1>3, <1>4, <1>5, <1>6, <1>8, <1>9, <1>10, <1>11, <1>12, <1>13, <1>14, <1>15, <1>16, <1>17, <1>18
  DEF Next

\* What the invariant says of the tree, the promises and the commands is always so.
THEOREM RepositoryInvariant == Spec => []RepoInv
  BY RepoInit, RepoStep, PTL DEF Spec

(***************************************************************************)
(* The types: only a script written by gatecheck has lines of gatecheck, a *)
(* hook that was promised is there, and an install has each of its hooks   *)
(* before it once and none that it has installed.                          *)
(***************************************************************************)
THEOREM RepositoryTypeCorrect == Spec => []TypeOK
<1>1. RepoInv => TypeOK
  <2> SUFFICES ASSUME RepoInv PROVE TypeOK
    OBVIOUS
  <2> USE DEF RepoInv
  <2>1. spent.commands \in 0..MaxCommands /\ spent.edits \in 0..MaxEdits
    BY DEF SpentInv
  <2>2. \A h \in GitHooks : promise[h] # None => gitHooks[h] # None
    BY DEF PromiseInv, Runs
  <2>3. IsCommand("install") => ToSet(command.todo) \subseteq GitHooks \ command.installed
    BY ElementOfSeq DEF ProgressInv, ToSet
  <2>. QED
    BY <2>1, <2>2, <2>3 DEF TypeOK, FilesInv, ProgressInv, MigrateInv, EventInv
<1>. QED
  BY <1>1, RepositoryInvariant, PTL

(***************************************************************************)
(* After an install, git's events run the groups that its config declares  *)
(* for them, in that order, and pass only after all of them: of the hooks  *)
(* that the last report names as installed (so not of an event for which   *)
(* its config has no group) and that nobody has written since.             *)
(***************************************************************************)
THEOREM EventsAlwaysRunTheirGroups == Spec => []EventsRunTheirGroups
<1>1. RepoInv => EventsRunTheirGroups
  <2> SUFFICES ASSUME RepoInv, event # None, event.promise # None PROVE EventsRunTheirGroups
    BY DEF EventsRunTheirGroups
  <2> USE DEF RepoInv
  <2> DEFINE config == event.promise
             hook == event.hook
             due == Declared(config, hook)
             at == DueAt(config, hook)
             script == Script(config, hook)
             place(k) == CHOOSE p \in DOMAIN due : due[p] = event.ran[k].group
  <2>1. GoodConfig(config) /\ hook \in GitHooks
    BY DEF EventInv
  <2>2. at \subseteq DOMAIN config.groups /\ at \subseteq Nat
    BY <2>1 DEF GoodConfig, DueAt, Declaring
  <2>3. ASSUME NEW p \in DOMAIN config.groups
        PROVE  p \in at <=> <<config.groups[p].event, hook>> \in
                                {<<"commit", "pre-commit">>, <<"push", "pre-push">>,
                                 <<"commit-msg", "commit-msg">>}
    <3>1. config.groups[p].event \in Events \cup {None}
      <4>1. config.groups[p] \in GroupDefs
        BY <2>1, <2>3, ElementOfSeq, LenProperties DEF GoodConfig
      <4>. QED
        BY <4>1 DEF GroupDefs, Optional
    <3>2. CASE config.groups[p].event = None
      BY <3>2, NoneAssumption DEF DueAt, Declaring, Events
    <3>3. CASE config.groups[p].event \in Events
      BY <2>1, <3>3, NoneAssumption, EventToHookFacts DEF DueAt, Declaring, Events, GitHooks
    <3>. QED
      BY <3>1, <3>2, <3>3
  <2>4. due = [p \in at |-> config.groups[p].name]
    BY <2>2, <2>3 DEF Declared
  <2> HIDE DEF at, script
  <2>5. ASSUME NEW p \in at, NEW q \in at, due[p] = due[q] PROVE p = q
    BY <2>1, <2>2, <2>4, <2>5 DEF GoodConfig, IsInjective
  <2>6. /\ Len(script) = Cardinality(at) /\ Cardinality(at) \in Nat
        /\ \A k \in 1..Cardinality(at) : PositionOf(at, k) \in at
        /\ \A k \in 1..Cardinality(at) :
             script[k] = [group |-> config.groups[PositionOf(at, k)].name,
                          message |-> hook = "commit-msg"]
        /\ \A j, k \in 1..Cardinality(at) : j < k <=> PositionOf(at, j) < PositionOf(at, k)
    BY <2>1, ScriptFacts DEF at, script
  <2>7. /\ Len(event.ran) \in Nat /\ DOMAIN event.ran = 1..Len(event.ran)
        /\ Len(event.todo) \in Nat
    <3>1. event.ran \in Lines /\ event.todo \in Lines
      BY DEF EventInv
    <3>. QED
      BY <3>1, LenProperties DEF Lines
  <2>8. /\ Len(script) = Len(event.ran) + Len(event.todo)
        /\ \A k \in DOMAIN event.ran : event.ran[k] = script[k]
    BY DEF EventInv, script
  <2> DEFINE ran == event.ran
             left == Len(event.todo)
             n == Cardinality(at)
             position(k) == PositionOf(at, k)
             name(p) == config.groups[p].name
  <2> HIDE DEF ran, left, n, position, name
  <2>9. DOMAIN ran \subseteq 1..n
    <3>1. n \in Nat /\ left \in Nat /\ Len(ran) \in Nat /\ n = Len(ran) + left
      BY <2>6, <2>7, <2>8 DEF ran, left, n
    <3>2. DOMAIN ran = 1..Len(ran)
      BY <2>7 DEF ran
    <3>. QED
      BY <3>1, <3>2
  <2>10. ASSUME NEW k \in DOMAIN ran
         PROVE  /\ position(k) \in at
                /\ ran[k].group = due[position(k)]
                /\ ran[k].message <=> hook = "commit-msg"
    <3>1. k \in 1..n
      BY <2>9
    <3>2. position(k) \in at
      BY <2>6, <3>1 DEF n, position
    <3>3. ran[k] = [group |-> name(position(k)), message |-> hook = "commit-msg"]
      <4>1. ran[k] = script[k]
        BY <2>8 DEF ran
      <4>. QED
        BY <2>6, <3>1, <4>1, Zenon DEF n, position, name
    <3>4. ran[k].group = name(position(k))
      BY <3>3
    <3>5. ran[k].message <=> hook = "commit-msg"
      <4>1. ran[k].message = (hook = "commit-msg")
        BY <3>3
      <4>2. CASE hook = "commit-msg"
        BY <4>1, <4>2
      <4>3. CASE hook # "commit-msg"
        BY <4>1, <4>3
      <4>. QED
        BY <4>2, <4>3
    <3>6. due[position(k)] = name(position(k))
      BY <2>4, <3>2 DEF name
    <3>. QED
      BY <3>2, <3>4, <3>5, <3>6
  <2> HIDE DEF due
  <2>11. DOMAIN due = at
    BY <2>4
  <2>12. ASSUME NEW k \in DOMAIN ran PROVE place(k) = position(k)
    <3>1. position(k) \in DOMAIN due /\ event.ran[k].group = due[position(k)]
      BY <2>10, <2>11 DEF ran
    <3>2. ASSUME NEW p \in DOMAIN due, event.ran[k].group = due[p] PROVE p = position(k)
      BY <2>5, <2>11, <3>1, <3>2
    <3>. QED
      BY <3>1, <3>2
  <2> HIDE DEF place
  <2>13. ASSUME NEW k \in DOMAIN ran
         PROVE  /\ ran[k].group \in {due[p] : p \in DOMAIN due}
                /\ ran[k].message <=> hook = "commit-msg"
                /\ \A j \in 1..k - 1 : place(j) < place(k)
    <3>1. ASSUME NEW j \in 1..k - 1 PROVE place(j) < place(k)
      <4>1. j \in DOMAIN ran /\ j < k
        BY <2>7 DEF ran
      <4>2. j \in 1..n /\ k \in 1..n
        BY <2>9, <4>1
      <4>3. position(j) < position(k)
        BY <2>6, <4>1, <4>2 DEF n, position
      <4>. QED
        BY <2>12, <4>1, <4>3
    <3>. QED
      BY <2>10, <2>11, <3>1
  <2>14. event.outcome = "passed" => Len(ran) = Cardinality(DOMAIN due)
    <3>1. n \in Nat /\ left \in Nat /\ Len(ran) \in Nat /\ n = Len(ran) + left
      BY <2>6, <2>7, <2>8 DEF ran, left, n
    <3>2. event.outcome = "passed" => left = 0
      BY EmptySeq DEF EventInv, left
    <3>3. n = Cardinality(DOMAIN due)
      BY <2>11 DEF n
    <3>. QED
      BY <3>1, <3>2, <3>3
  <2>. QED
    BY <2>13, <2>14 DEF EventsRunTheirGroups, due, ran, place
<1>. QED
  BY <1>1, RepositoryInvariant, PTL

-----------------------------------------------------------------------------
(* A migration. *)

\* A numbered id tells the id and the number.
LEMMA NumberedOnce ==
    ASSUME NEW a \in Ids, NEW b \in Ids, NEW m \in Nat, NEW n \in Nat, Numbered(a, m) = Numbered(b, n)
    PROVE  a = b /\ m = n
<1>1. a = [text |-> a.text, numbers |-> a.numbers] /\ a.numbers \in Seq(Nat)
  BY DEF Ids
<1>2. b = [text |-> b.text, numbers |-> b.numbers] /\ b.numbers \in Seq(Nat)
  BY DEF Ids
<1>3. a.text = b.text /\ Append(a.numbers, m) = Append(b.numbers, n)
  BY DEF Numbered
<1>4. /\ Len(a.numbers) \in Nat /\ Len(Append(a.numbers, m)) = Len(a.numbers) + 1
      /\ \A k \in 1..Len(a.numbers) : Append(a.numbers, m)[k] = a.numbers[k]
      /\ Append(a.numbers, m)[Len(a.numbers) + 1] = m
  BY <1>1, AppendProperties, LenProperties
<1>5. /\ Len(b.numbers) \in Nat /\ Len(Append(b.numbers, n)) = Len(b.numbers) + 1
      /\ \A k \in 1..Len(b.numbers) : Append(b.numbers, n)[k] = b.numbers[k]
      /\ Append(b.numbers, n)[Len(b.numbers) + 1] = n
  BY <1>2, AppendProperties, LenProperties
<1>6. Len(a.numbers) = Len(b.numbers) /\ m = n
  BY <1>3, <1>4, <1>5
<1>7. a.numbers = b.numbers
  BY <1>1, <1>2, <1>3, <1>4, <1>5, <1>6, SeqEqual
<1>. QED
  BY <1>1, <1>2, <1>3, <1>6, <1>7

\* The repetitions of an id are counted: never more than there are hooks, and more at each.
LEMMA RepetitionsCounted ==
    ASSUME NEW ids, NEW N \in Nat, NEW p \in 1..N
    PROVE  /\ Cardinality(Before(ids, p)) \in 0..p - 1
           /\ Before(ids, p) # {} => Cardinality(Before(ids, p)) # 0
           /\ \A q \in 1..N : p < q /\ ids[p] = ids[q] =>
                /\ Before(ids, q) # {}
                /\ Cardinality(Before(ids, p)) < Cardinality(Before(ids, q))
<1>1. ASSUME NEW q \in 1..N
      PROVE  IsFiniteSet(Before(ids, q)) /\ Cardinality(Before(ids, q)) \in 0..q - 1
  <2>1. IsFiniteSet(1..q - 1) /\ Cardinality(1..q - 1) = q - 1
    BY FS_Interval
  <2>2. Before(ids, q) \subseteq 1..q - 1
    BY DEF Before
  <2>3. IsFiniteSet(Before(ids, q)) /\ Cardinality(Before(ids, q)) <= q - 1
    BY <2>1, <2>2, FS_Subset
  <2>. QED
    BY <2>3, FS_CardinalityType
<1>2. ASSUME NEW q \in 1..N, p < q, ids[p] = ids[q]
      PROVE  Before(ids, q) # {} /\ Cardinality(Before(ids, p)) < Cardinality(Before(ids, q))
  <2>1. Before(ids, p) \cup {p} \subseteq Before(ids, q) /\ p \notin Before(ids, p)
    BY <1>2 DEF Before
  <2>2. Cardinality(Before(ids, p) \cup {p}) = Cardinality(Before(ids, p)) + 1
    BY <1>1, <2>1, FS_AddElement
  <2>3. Cardinality(Before(ids, p) \cup {p}) <= Cardinality(Before(ids, q))
    BY <1>1, <2>1, FS_Subset
  <2>. QED
    BY <1>1, <2>1, <2>2, <2>3
<1>. QED
  BY <1>1, <1>2, FS_EmptySet

\* The ids of the hooks of a pre-commit configuration.
IdsIn(hooks) == [p \in DOMAIN hooks |-> hooks[p].id]

(***************************************************************************)
(* The ids that _unique_id gives are unique, however often an id is        *)
(* repeated, unless one reads like a repetition of another.                *)
(***************************************************************************)
THEOREM UniqueIdsAreUnique ==
    ASSUME NEW hooks \in Seq(PreCommitHooks), ~ReadsAsRepetition(hooks)
    PROVE  IsInjective([p \in DOMAIN hooks |-> UniqueId(IdsIn(hooks), p)])
<1> DEFINE N == Len(hooks)
           ids == IdsIn(hooks)
           count(p) == Cardinality(Before(ids, p))
<1>1. N \in Nat /\ DOMAIN hooks = 1..N
  BY LenProperties
<1>2. ASSUME NEW p \in 1..N PROVE ids[p] = hooks[p].id /\ ids[p] \in Ids
  <2>1. hooks[p] \in PreCommitHooks
    BY ElementOfSeq
  <2>. QED
    BY <1>1, <2>1 DEF IdsIn, PreCommitHooks
<1>3. ASSUME NEW p \in 1..N, NEW q \in 1..N, NEW n \in 2..N
      PROVE  ids[p] # Numbered(ids[q], n)
  BY <1>1, <1>2 DEF ReadsAsRepetition
<1> HIDE DEF N, ids
<1>4. ASSUME NEW p \in 1..N
      PROVE  /\ Before(ids, p) = {} => UniqueId(ids, p) = ids[p]
             /\ Before(ids, p) # {} => count(p) + 1 \in 2..N /\ UniqueId(ids, p) = Numbered(ids[p], count(p) + 1)
  BY <1>1, RepetitionsCounted DEF UniqueId
<1>5. \A p, q \in 1..N : p < q /\ ids[p] = ids[q] => Before(ids, q) # {} /\ count(p) < count(q)
  BY <1>1, RepetitionsCounted
<1>6. ASSUME NEW p \in 1..N PROVE count(p) \in Nat
  <2>1. count(p) \in 0..p - 1
    BY <1>1, RepetitionsCounted
  <2>. QED
    BY <1>1, <2>1
<1> HIDE DEF count
<1>7. ASSUME NEW p \in 1..N, NEW q \in 1..N, p < q
      PROVE  UniqueId(ids, p) # UniqueId(ids, q)
  <2>1. CASE Before(ids, p) = {} /\ Before(ids, q) = {}
    BY <1>4, <1>5, <1>7, <2>1
  <2>2. CASE Before(ids, p) = {} /\ Before(ids, q) # {}
    BY <1>3, <1>4, <2>2
  <2>3. CASE Before(ids, p) # {} /\ Before(ids, q) = {}
    BY <1>3, <1>4, <2>3
  <2>4. CASE Before(ids, p) # {} /\ Before(ids, q) # {}
    <3> SUFFICES ASSUME UniqueId(ids, p) = UniqueId(ids, q) PROVE FALSE
      OBVIOUS
    <3>1. Numbered(ids[p], count(p) + 1) = Numbered(ids[q], count(q) + 1)
      BY <1>4, <2>4
    <3>2. count(p) + 1 \in Nat /\ count(q) + 1 \in Nat
      BY <1>6
    <3>3. ids[p] = ids[q] /\ count(p) + 1 = count(q) + 1
      BY <1>2, <3>1, <3>2, NumberedOnce
    <3>. QED
      BY <1>5, <1>6, <1>7, <3>3
  <2>. QED
    BY <2>1, <2>2, <2>3, <2>4
<1>8. \A p, q \in 1..N : UniqueId(ids, p) = UniqueId(ids, q) => p = q
  BY <1>1, <1>7
<1>. QED
  BY <1>1, <1>8 DEF IsInjective, ids

\* A hook with an id of its own is the definition of that id.
LEMMA OwnDefinition ==
    ASSUME NEW hooks, NEW N \in Nat, DOMAIN hooks = 1..N, Len(hooks) = N, NEW p \in 1..N,
           \A q \in 1..N : hooks[q].id = hooks[p].id => q = p
    PROVE  Definition(hooks, hooks[p].id) = hooks[p]
<1> DEFINE I == {i \in 1..Len(hooks) : hooks[i].id = hooks[p].id}
<1>1. I = {p}
  OBVIOUS
<1>2. Max(I) = p
  BY <1>1, MaxOfPositions
<1>3. Definition(hooks, hooks[p].id) = hooks[Max(I)]
  BY <1>1 DEF Definition, SelectLastInSeq
<1>. QED
  BY <1>2, <1>3

\* What is known of the last migration whose check.toml is still as it was written.
MigratedInv ==
    migrated # None =>
        LET hooks == PreCommits[migrated.input].hooks IN
        /\ migrated.place \in Places /\ migrated.input \in DOMAIN PreCommits
        /\ checkToml[migrated.place] = Dumped(MapPrecommit(hooks))
        /\ migrated.warnings = [p \in DOMAIN hooks |-> Warnings(hooks[p])]

\* Whoever writes its check.toml ends the history of a migration.
LEMMA RewriteKeeps ==
    ASSUME MigratedInv, ConfigsInv, NEW place \in Places, NEW config, Rewrite(place, config)
    PROVE  MigratedInv'
<1>1. CASE migrated # None /\ migrated.place # place
  BY <1>1 DEF Rewrite, MigratedInv, ConfigsInv
<1>2. CASE ~(migrated # None /\ migrated.place # place)
  BY <1>2 DEF Rewrite, MigratedInv
<1>. QED
  BY <1>1, <1>2

LEMMA MigratedStep == RepoInv /\ MigratedInv /\ [Next]_vars => MigratedInv'
<1> SUFFICES ASSUME RepoInv, MigratedInv, [Next]_vars PROVE MigratedInv'
  OBVIOUS
<1>1. CASE UNCHANGED <<checkToml, migrated>>
  BY <1>1 DEF MigratedInv
<1>2. ASSUME NEW place \in Places, NEW config \in Configs \cup {None}, EditConfig(place, config)
      PROVE  MigratedInv'
  BY <1>2, RewriteKeeps DEF EditConfig, RepoInv
<1>3. ASSUME NEW place \in Places, NEW input \in DOMAIN PreCommits, Migrate(place, input)
      PROVE  MigratedInv'
  BY <1>1, <1>3, RewriteKeeps DEF Migrate, RepoInv
<1>4. CASE MigrateWrites
  <2> DEFINE hooks == PreCommits[command.input].hooks
  <2>1. command.place \in Places /\ command.input \in DOMAIN PreCommits
    BY <1>4 DEF MigrateWrites, RepoInv, MigrateInv
  <2>2. migrated' = [place |-> command.place, input |-> command.input,
                     warnings |-> [p \in DOMAIN hooks |-> Warnings(hooks[p])]]
    BY <1>4 DEF MigrateWrites
  <2>3. checkToml'[command.place] = Dumped(MapPrecommit(hooks))
    BY <1>4, <2>1 DEF MigrateWrites, RepoInv, ConfigsInv
  <2>. QED
    BY <2>1, <2>2, <2>3 DEF MigratedInv
<1>5. ASSUME NEW cwd \in Places, InstallDiscovered(cwd) PROVE MigratedInv'
  BY <1>1, <1>5 DEF InstallDiscovered, Install
<1>6. ASSUME NEW place \in Places, NEW cwd \in Places, InstallFrom(place, cwd) PROVE MigratedInv'
  BY <1>1, <1>6 DEF InstallFrom, Install
<1>7. ASSUME NEW hook \in GitHooks, GitEvent(hook) PROVE MigratedInv'
  BY <1>1, <1>7 DEF GitEvent
<1>8. ASSUME NEW hook \in GitHooks, NEW file \in OwnHooks \cup {None}, EditHook(hook, file)
      PROVE  MigratedInv'
  BY <1>1, <1>8 DEF EditHook
<1>9. CASE Look \/ Truncate \/ Write \/ Chmod \/ Kill \/ RunLine \/ ScriptEnds \/ UNCHANGED vars
  BY <1>1, <1>9 DEF Look, Truncate, Write, Chmod, Kill, RunLine, ScriptEnds, vars
<1>. QED
  BY <1>2, <1>3, <1>4, <1>5, <1>6, <1>7, <1>8, <1>9 DEF Next

\* What the migration of a hook loses is told in a warning, or is one of the three things untold.
LEMMA MappedTells ==
    ASSUME NEW h \in PreCommitHooks, NEW id
    PROVE  Lost(Mapped(h, id), h) \subseteq Told(Warnings(h)) \cup Untold(h)
<1> DEFINE e == Mapped(h, id)
           known == h.repo.url \in DOMAIN KnownRepos
           system == known /\ KnownRepos[h.repo.url].source = "system"
<1>1. /\ e.run = Run(h) /\ e.from = Source(h) /\ e.passFiles = (h.passFilenames # "false")
      /\ e.files = IF h.files = None THEN None ELSE h.files.glob
  BY DEF Mapped
<1> HIDE DEF e
<1>2. ASSUME Tail(e.run) # [p \in DOMAIN h.args |-> <<h.args[p].text>>]
      PROVE  \E p \in DOMAIN h.args : h.args[p].words # <<h.args[p].text>>
  <2> SUFFICES ASSUME \A p \in DOMAIN h.args : h.args[p].words = <<h.args[p].text>> PROVE FALSE
    BY <1>2
  <2>1. h.args \in Seq(Args)
    BY DEF PreCommitHooks
  <2>2. [p \in DOMAIN h.args |-> h.args[p].words] = [p \in DOMAIN h.args |-> <<h.args[p].text>>]
    OBVIOUS
  <2>3. ASSUME NEW base PROVE Tail(Command(base, h)) = [p \in DOMAIN h.args |-> h.args[p].words]
    <3>1. [p \in DOMAIN h.args |-> h.args[p].words] \in Seq(Seq(STRING))
      <4>1. \A p \in DOMAIN h.args : h.args[p] \in Args
        BY <2>1, ElementOfSeq
      <4>2. DOMAIN h.args = 1..Len(h.args) /\ Len(h.args) \in Nat
        BY <2>1, LenProperties
      <4>. QED
        BY <4>1, <4>2 DEF Args
    <3>. QED
      BY <3>1 DEF Command
  <2>. QED
    BY <1>1, <1>2, <2>2, <2>3 DEF Run, KnownCommand
<1>3. e.passFiles # (h.passFilenames = "false")
  BY <1>1
<1>4. h.files # None /\ (e.files = None \/ e.files # h.files.glob) => "files" \in Warnings(h)
  BY <1>1 DEF Warnings
<1>5. /\ ~known /\ h.repo.url # "local" => "guess" \in Warnings(h)
      /\ system => "system tool" \in Warnings(h)
      /\ known /\ ~system /\ h.rev # None /\ ~h.rev.startsAsVersion => "unpinned" \in Warnings(h)
  BY DEF Warnings
<1>6. known /\ ~system /\ h.repo.url # "local" => e.from = PypiSource(KnownRepos[h.repo.url].package, h.rev)
  BY <1>1 DEF Source
<1> HIDE DEF known, system
<1>7. ASSUME h.repo.url # "local", ~known \/ e.from.package # KnownRepos[h.repo.url].package
      PROVE  "guess" \in Warnings(h) \/ "system tool" \in Warnings(h)
  <2>1. known /\ ~system => e.from.package = KnownRepos[h.repo.url].package
    BY <1>7, <1>6 DEF PypiSource, From
  <2>. QED
    BY <1>7, <1>5, <2>1
<1>8. ASSUME h.repo.url # "local", h.rev # None, ~h.rev.isVersion \/ e.from.version # h.rev.text
      PROVE  \/ \E w \in {"unpinned", "guess", "system tool"} : w \in Warnings(h)
             \/ h.rev.startsAsVersion /\ ~h.rev.isVersion
  <2>1. CASE known /\ ~system /\ h.rev.startsAsVersion
    <3>1. e.from.version = h.rev.text
      BY <1>8, <1>6, <2>1 DEF PypiSource, From
    <3>. QED
      BY <1>8, <2>1, <3>1
  <2>2. CASE ~(known /\ ~system /\ h.rev.startsAsVersion)
    BY <1>8, <1>5, <2>2
  <2>. QED
    BY <2>1, <2>2
<1>9. ASSUME NEW w \in Lost(e, h) PROVE w \in Told(Warnings(h)) \cup Untold(h)
  <2>1. CASE w \in h.unread
    BY <2>1 DEF Untold
  <2>2. CASE w = "args" /\ Tail(e.run) # [p \in DOMAIN h.args |-> <<h.args[p].text>>]
    BY <1>2, <2>2 DEF Untold
  <2>3. CASE w = "files" /\ h.files # None /\ (e.files = None \/ e.files # h.files.glob)
    BY <1>4, <2>3 DEF Told
  <2>4. CASE /\ w = "tool" /\ h.repo.url # "local"
             /\ h.repo.url \notin DOMAIN KnownRepos \/ e.from.package # KnownRepos[h.repo.url].package
    BY <1>7, <2>4 DEF Told, known
  <2>5. CASE /\ w = "version" /\ h.repo.url # "local" /\ h.rev # None
             /\ ~h.rev.isVersion \/ e.from.version # h.rev.text
    BY <1>8, <2>5 DEF Told, Untold
  <2>. QED
    BY <1>3, <1>9, <2>1, <2>2, <2>3, <2>4, <2>5 DEF Lost
<1>. QED
  BY <1>9 DEF e

\* Of the hooks that a migration writes, a run executes each.
LEMMA MigratedExecuted ==
    ASSUME NEW hooks \in Seq(PreCommitHooks)
    PROVE  LET written == MapPrecommit(hooks) IN
           /\ Len(written) = Len(hooks)
           /\ ~ReadsAsRepetition(hooks) => \A p \in DOMAIN hooks :
                Definition(written, written[p].id) = Mapped(hooks[p], UniqueId(IdsIn(hooks), p))
<1> DEFINE written == MapPrecommit(hooks)
           N == Len(hooks)
<1>1. N \in Nat /\ DOMAIN hooks = 1..N
  BY LenProperties
<1>2. written = [p \in 1..N |-> Mapped(hooks[p], UniqueId(IdsIn(hooks), p))]
  BY <1>1 DEF MapPrecommit, IdsIn
<1>3. Len(written) = N /\ DOMAIN written = 1..N
  BY <1>1, <1>2
<1>4. ASSUME NEW p \in 1..N
      PROVE  /\ written[p] = Mapped(hooks[p], UniqueId(IdsIn(hooks), p))
             /\ written[p].id = UniqueId(IdsIn(hooks), p)
  BY <1>2 DEF Mapped
<1> HIDE DEF written, N
<1>5. ASSUME ~ReadsAsRepetition(hooks), NEW p \in 1..N
      PROVE  Definition(written, written[p].id) = written[p]
  <2>1. \A q \in 1..N : UniqueId(IdsIn(hooks), q) = UniqueId(IdsIn(hooks), p) => q = p
    BY <1>1, <1>5, UniqueIdsAreUnique DEF IsInjective
  <2>2. \A q \in 1..N : written[q].id = written[p].id => q = p
    BY <1>4, <2>1
  <2>. QED
    BY <1>1, <1>3, <2>2, OwnDefinition
<1>. QED
  BY <1>1, <1>3, <1>4, <1>5 DEF written, N

(***************************************************************************)
(* What a migration drops it tells: for every pre-commit configuration,    *)
(* each of its hooks is one that a run executes, and whatever this one     *)
(* does not keep the user was warned of, but for keys that the migration   *)
(* does not read, arguments that shlex.split changes and revs that only    *)
(* start as a version; however the tree was edited and migrated before and *)
(* elsewhere.                                                              *)
(***************************************************************************)
THEOREM MigrationAlwaysTells == Spec => []MigrationTellsWhatItDrops
<1>1. Init => MigratedInv
  BY DEF Init, MigratedInv
<1>2. MigratedInv => MigrationTellsWhatItDrops
  <2> SUFFICES ASSUME MigratedInv, migrated # None PROVE MigrationTellsWhatItDrops
    BY DEF MigrationTellsWhatItDrops
  <2> DEFINE hooks == PreCommits[migrated.input].hooks
             written == checkToml[migrated.place].hooks
  <2>1. hooks \in Seq(PreCommitHooks)
    BY PreCommitsAssumption DEF MigratedInv
  <2>2. written = MapPrecommit(hooks)
    BY DEF MigratedInv, Dumped
  <2>3. Len(written) = Len(hooks)
    BY <2>1, <2>2, MigratedExecuted
  <2>4. ASSUME ~ReadsAsRepetition(hooks), NEW p \in DOMAIN hooks
        PROVE  \E id : Definition(written, written[p].id) = Mapped(hooks[p], id)
    BY <2>1, <2>2, <2>4, MigratedExecuted
  <2>5. \A p \in DOMAIN hooks : hooks[p] \in PreCommitHooks /\ migrated.warnings[p] = Warnings(hooks[p])
    BY <2>1, ElementOfSeq DEF MigratedInv
  <2> HIDE DEF hooks, written
  <2>6. ASSUME ~ReadsAsRepetition(hooks), NEW p \in DOMAIN hooks
        PROVE  Lost(Definition(written, written[p].id), hooks[p])
                  \subseteq Told(migrated.warnings[p]) \cup Untold(hooks[p])
    <3>1. PICK id : Definition(written, written[p].id) = Mapped(hooks[p], id)
      BY <2>4, <2>6
    <3>. QED
      BY <2>5, <3>1, MappedTells
  <2>. QED
    BY <2>3, <2>6 DEF MigrationTellsWhatItDrops, hooks, written
<1>. QED
  BY <1>1, <1>2, MigratedStep, RepositoryInvariant, PTL DEF Spec
=============================================================================
