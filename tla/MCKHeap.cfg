SPECIFICATION KHeapSpec
CONSTANTS
    PageUnits = 8
    MaxPages = 3
    Wrap = 128
    Sizes = {1, 2, 3, 4, 9}
INVARIANT BlocksAreApart
CHECK_DEADLOCK FALSE
