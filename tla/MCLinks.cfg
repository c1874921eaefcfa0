SPECIFICATION SpecParts
CONSTANTS
    Ring = 3
    MinPairs = 1
    MaxPairs = 2
    AnyPlace = 2
    Far = 5
    Depth = 4
    ConfirmLevel = 2
    Prompt = FALSE
    Units = 4
    MaxLost = 1
    MaxMisread = 1
    Misreadings <- Offsets
    NoUnit = NoUnit
    NoPair = NoPair
    NoSkip = NoSkip
    FrameBytes = 3
    SpectrumSettings <- SpectrumChoices
    BatchSizes = {1, 3}
    QueuedBatches = 2
    NoBatch = NoBatch
    MaxIndex = 6
    MaxRuns = 2
    MaxChanges = 1
    InnerMagic = {0, 2}
    MaxOpens = 3
    MaxRequests = 4
INVARIANTS
    InPlace
    ControlExact
    CodecExact
PROPERTIES
    FramesInOrder
CHECK_DEADLOCK FALSE
