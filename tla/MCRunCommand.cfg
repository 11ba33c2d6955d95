\* Package graphs, inheritance, every mode and option of the command.
CONSTANTS
    Cases <- AllCases
    Environ <- OnCi
    None = None
    Broken = Broken
SPECIFICATION Spec
INVARIANTS
    TypeOK
    EveryHookAccountedFor
    OpenOnlyIfPassed
    AffectedExactly
    HooksSeeTheirFiles
