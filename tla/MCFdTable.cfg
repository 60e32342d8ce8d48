SPECIFICATION Spec
CONSTANTS
    garbage = garbage
    dot = dot
    rtc = rtc
    small = small
    frame = frame
    missing = missing
    notfound = notfound
    BlockSize = 2
    MaxInodeBlocks = 4
    Word = 16
    NumEntries = 4
    NumDataBlocks = 4
    InodeSize <- MCInodeSize
    InodeBlocks <- MCInodeBlocksFn
    DataBlocks <- MCDataBlocks
    OutOfImage = garbage
    MaxOpenFiles = 4
    Names <- MCNames
    Lookup <- MCLookup
    NotFound = notfound
    EntryNameLen <- MCEntryNameLen
    NameMax = 32
    FdInputs <- MCFdInputs
    Counts <- MCCounts
    Hz <- MCHz
INVARIANT
    TypeOK
    StdStreamsBound
    CursorMatchesData
    RtcRateMatchesRequest
PROPERTY
    DescriptorStable
    RtcReadReturns
    RtcReadWaitsForTick
