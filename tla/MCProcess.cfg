CONSTANTS
    MaxThreads = 6
    MaxProcesses = 4
    MaxPid = 3
    Spaces = {k, a, b, c}
    KernelSpace = k
    NoSpace = none
SPECIFICATION FairSpec
INVARIANTS
    RunningIsCurrent
    RingIsOneCycle
    ParentIsAlive
    NoLostWakeup
    ThreadsMatchProcesses
    SpacesAreOwned
    NoFreedSpaceRuns
PROPERTIES
    ExitedStaysExited
    ReadyRuns
    SchedSpec
    ImplementsLifecycle
