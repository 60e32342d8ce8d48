SPECIFICATION ConsoleSpec
CONSTANTS
    kE = kE
    kX = kX
    kI = kI
    kT = kT
    kL = kL
    kSpace = kSpace
    kTab = kTab
    kF1 = kF1
    kF2 = kF2
    kF3 = kF3
    CAPS = CAPS
    L_SHIFT_MAKE = L_SHIFT_MAKE
    L_SHIFT_BREAK = L_SHIFT_BREAK
    CTRL_MAKE = CTRL_MAKE
    CTRL_BREAK = CTRL_BREAK
    BKSP = BKSP
    ENTER = ENTER
    ALT = ALT
    ALT_BREAK = ALT_BREAK
    L_MAKE = kL
    KeyMap <- MCKeyMap
    InRange <- MCInRange
    Fn <- MCFn
    Nul = "NUL"
    Space = " "
    ExitWord <- MCExitWord
    MaxTerminal = 2
    BufferSize = 1
    Keys <- MCKeysModes
    Counts = {1}
INVARIANT
    CapsParity
    ScreensKept
