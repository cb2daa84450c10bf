CONSTANTS
    MaxPid = 2
    MaxHandles = 2
    MaxEndpoints = 2
    QueueDepth = 1
    Tags = {t}
    MaxServices = 2
    ServiceNames = {n1, n2}
    NoName = none
SPECIFICATION SvcSpec
CHECK_DEADLOCK FALSE
SYMMETRY NameSymmetry
INVARIANTS
    EndpointsHaveLivingOwners
    NamedEndpointExists
    OwnHandlesResolve
PROPERTIES
    OnlyOwnerEnds
    ImplementsDirectory
