SPECIFICATION Spec
CONSTANTS
    garbage = garbage
    BlockSize = 2
    MaxInodeBlocks = 4
    Word = 16
    NumEntries = 4
    NumDataBlocks = 4
    InodeSize <- MCInodeSize
    InodeBlocks <- MCInodeBlocksFn
    DataBlocks <- MCDataBlocks
    OutOfImage = garbage
    TermBuffSize = 4
    NameMax = 2
    FileNameLength = 2
    MaxEntries = 4
    EntryNames <- MCEntryNamesFn
    Nul = "NUL"
    Space = " "
INVARIANT
    GetArgsInBounds
