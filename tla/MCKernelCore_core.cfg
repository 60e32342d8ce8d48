SPECIFICATION Spec
CONSTANTS
    shell = shell
    prog = prog
    badelf = badelf
    missing = missing
    MaxTerminal = 3
    MaxProcesses = 4
    Files <- MCFiles
    FileType <- MCFileType
    MagicOk <- MCMagicOk
    Shell = shell
    Statuses = {0}
    SwitchInKernel = FALSE
INVARIANTS
    TypeOK
    RunningIsCurrent
    PageOfRunning
    NoLeakedSlot
    TerminalsDisjoint
    NoUndefinedBehaviour
PROPERTY
    ProcessTreeSpec
