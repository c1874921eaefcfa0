SPECIFICATION FairSpec
CONSTANTS
    Size = 4
    Reserve = 2
    Burst = 2
    MaxReads = 2
    OutSize = 5
    OutHalf = 2
    Quantum = 2
    NoBeat = NoBeat
INVARIANTS
    RingSafe
PROPERTIES
    ImplementsFifo
    InputDrains
    ClearEnds
CHECK_DEADLOCK FALSE
