SPECIFICATION FairSpec
CONSTANTS
    Banks = 2
    BlockSize = 3
    UnitBits = 2
    WordBits = 4
    CodeBits <- MCCodeBits
    MaxCode = 3
    RawBits = 3
    HeaderWords = 4
    HeaderClocks = 1
    ScoreTail = 1
    NoPair = NoPair
    NoRecord = NoRecord
    IdleTop = 2
    DrainTop = 9
    TransferUnits = 16
    PadUnits = 8
    Reserve = 4
    Gaps <- MCGaps
    MaxItems = 5
    ResetItems = 1
    MaxResets = 1
INVARIANTS BeatsSafe
PROPERTIES ImplementsStream StalledWordStays StreamEnds
