CONSTANTS
    MaxThreads = 6
    MaxProcesses = 4
    MaxPid = 3
    Spaces = {k, a, b, c}
    KernelSpace = k
    NoSpace = none
SPECIFICATION KSpec
SYMMETRY SpaceSymmetry
INVARIANT RingSurvivesPreemption
CHECK_DEADLOCK FALSE
