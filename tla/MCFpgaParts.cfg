SPECIFICATION FairSpec
CONSTANTS
    BlockWords = 4
    Words = 24
    StartLevel = 2
    QueueSize = 4
    NoWord = NoWord
    MaxBlocks = 15
    Parts = {low, high}
    Values = {0, 1, 2, 3, 4}
    Half = 2
    AddrBits = 2
    Modes = {TRUE, FALSE}
INVARIANTS
    UsbSafe
    CopiesSound
    LevelsSafe
PROPERTIES
    ImplementsFifo
    AllMoves
