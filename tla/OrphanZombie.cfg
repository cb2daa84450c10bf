CONSTANTS
    MaxThreads = 5
    MaxProcesses = 3
    MaxPid = 2
    Spaces = {k, a, b}
    KernelSpace = k
    NoSpace = none
SPECIFICATION FairSpawnSpec
PROPERTY OrphansAreReaped
CHECK_DEADLOCK FALSE
