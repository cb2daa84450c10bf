CONSTANTS
    Frames = {1, 2, 3, 4, 5, 6, 7, 8, 9, 10, 11, 12}
    Procs = {p, q}
    Scratch = scratch
    PageCount = 6
    MmapTop = 5
    ImageEnd = 1
    TableIds = {"near", "far"}
    TablePath <- MCTablePath
    MaxUmap = 6
    BrkArgs = {2, 5, 11}
    MapArgs = {2, 3}
    UnmapArgs = {2}
    Lengths = {1, 3}
    MaxCalls = 6
SPECIFICATION MemSpec
INVARIANTS FramesHaveOneHolder SpacesAreIsolated
PROPERTIES StackIsKept MmapAddsOrNothing ForkCoversParent
SYMMETRY ProcSymmetry
CHECK_DEADLOCK FALSE
