SPECIFICATION FairSpec
CONSTANTS
    Ring = 8
    Threshold = 4
    MaxPairs = 6
    StartGuard = 2
    EndGuard = 4
    MaxAge = 6
    Group = 2
    Duration = 17
    Overrun = 9
    NoBank = NoBank
    NoPair = NoPair
    NoUnit = NoUnit
INVARIANTS
    OwnershipUnbroken
    SentExactly
    LanesEven
PROPERTIES
    RunEnds
