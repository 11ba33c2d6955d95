\* Installs, migrations, edits and git events in any order, each of which may be killed.
CONSTANTS
    Configs <- ThreeConfigs
    PreCommits <- FivePreCommits
    KnownRepos <- ThreeKnown
    OwnHooks <- ThreeOwnHooks
    MaxCommands = 3
    MaxEdits = 1
    None = None
SPECIFICATION Spec
INVARIANTS
    TypeOK
    ForeignHooksKept
    EventsRunTheirGroups
    
CHECK_DEADLOCK FALSE
