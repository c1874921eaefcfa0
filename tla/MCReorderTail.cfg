SPECIFICATION Spec
CONSTANTS
    Ring = 6
    MinPairs = 4
    MaxPairs = 5
    AnyPlace = 3
    Far = 5
    Depth = 6
    ConfirmLevel = 4
    Prompt = FALSE
    Units = 3
    MaxLost = 1
    MaxMisread = 0
    Misreadings <- Offsets
    NoUnit = NoUnit
    NoPair = NoPair
    NoSkip = NoSkip
INVARIANTS
    LossReported
