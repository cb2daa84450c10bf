CONSTANTS
    DeviceSlots <- MCSlots
    Drivers <- MCDrivers
    NameOf <- MCNameOf
    Serial = "uart"
    Insts <- MCInsts
    RefLimit = 3
    LineMax = 3
    RxDepth = 2
    Spins = 2
    Chunk = 2
    Counts = {1, 3}
SPECIFICATION Spec
INVARIANTS HandlesReachTheirDriver WriteReportsWhatWasSent
PROPERTIES ImplementsTerminal
CHECK_DEADLOCK TRUE
