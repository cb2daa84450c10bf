CONSTANTS
    MaxThreads = 6
    MaxProcesses = 3
    MaxPid = 3
    Spaces = {k, a, b, c}
    KernelSpace = k
    NoSpace = none
SPECIFICATION ReapSpec
PROPERTY LiveSpaceIsKept
