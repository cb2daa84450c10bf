CONSTANTS
    Depth = 3
    Messages = {m1, m2, m3}
    NoMessage = none
SPECIFICATION QSpec
PROPERTY ImplementsFifo
