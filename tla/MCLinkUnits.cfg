SPECIFICATION SpecParts
CONSTANTS
    Ring = 4
    MinPairs = 2
    MaxPairs = 3
    AnyPlace = 2
    Far = 5
    Depth = 4
    ConfirmLevel = 2
    Prompt = TRUE
    Units = 4
    MaxLost = 2
    MaxMisread = 1
    Misreadings <- Rejected
    NoUnit = NoUnit
    NoPair = NoPair
    NoSkip = NoSkip
    GroupPairs = 4
    GroupBytes = 10
    LaneRing = 16
    LaneMin = 9
    LaneMax = 12
    Pauses = {0, 40}
    Phases = {1, 4, 6, 7}
    DamagedLayouts <- OtherLayouts
    MaxSent = 3
INVARIANTS
    OnlyDamagedLost
    LaneSound
PROPERTIES
    UnitsLeave
