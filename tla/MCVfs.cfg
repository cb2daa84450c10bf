CONSTANTS
    MaxPid = 2
    Fds = {3, 4}
    Files = {f1, f2}
    FileSize <- MCFileSize
    MaxPath = 4
    Paths <- MCPaths
    Offsets <- MCOffsets
    MaxOff = 3
SPECIFICATION VfsSpec
CHECK_DEADLOCK FALSE
SYMMETRY FileSymmetry
INVARIANTS
    VfsTypeOK
    RefsAreCounted
PROPERTIES
    ChdirComposes
    ImplementsDescriptions
