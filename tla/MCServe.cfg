SPECIFICATION FairSpec
CONSTANTS
    PllMin = 2210
    PllMax = 2790
    LoMin = 1842
    NormalStep = 30
    FiveSixthsStep = 25
    Parts = 4
    DcNames <- Names
    LastCap = 2
    LockPatterns <- Patterns
    StageOf <- Stages
    Boot <- BootSettings
    Automatic <- EspAuto
    OutOfRange <- TooHigh
    MaxFaults = 1
    Asked <- Settings
    NoClient = 0
    Nothing = Nothing
    MaxActs = 3
    MaxFailures = 1
INVARIANTS
    RunAsTagged
    SettingsAsAsked
PROPERTIES
    RunFollowsWish
    PageUpToDate
CHECK_DEADLOCK FALSE
