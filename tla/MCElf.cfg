SPECIFICATION ElfSpec
CONSTANTS
    Wrap = 64
    PageSize = 4
    UserMin = 4
    UserMax = 32
    StackTop = 28
    StackSize = 8
    DynBase = 8
    EhdrSize = 2
    PhdrSize = 1
    FrameSize = 2
    MaxPhnum = 3
    MaxLoads = 2
    MaxInterp = 4
    Images <- MCImages
    Blobs <- MCBlobs
INVARIANTS
    NoWriteExec
    LoadedAsLinked
    LeastPrivilege
    StartsInCode
CHECK_DEADLOCK FALSE
