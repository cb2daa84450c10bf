CONSTANTS
    Page = 6
    MaxPages = 2
    Ids = {a, b, c}
    Sizes = {0, 2, 3, 6, 20}
    Threshold = 20
SPECIFICATION Spec
INVARIANTS ArenaIsTiled UsedBlocksAreTheObjects PayloadsAreKept
SYMMETRY IdSymmetry
