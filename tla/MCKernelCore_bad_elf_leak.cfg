SPECIFICATION Spec
CONSTANTS
    shell = shell
    prog = prog
    badelf = badelf
    missing = missing
    MaxTerminal = 3
    MaxProcesses = 4
    Files <- MCFilesBadElf
    FileType <- MCFileType
    MagicOk <- MCMagicOk
    Shell = shell
    Statuses = {0}
    SwitchInKernel = FALSE
INVARIANT
    NoLeakedSlot
