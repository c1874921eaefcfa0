SPECIFICATION SpecParts
CONSTANTS
    PllMin = 2210
    PllMax = 2790
    LoMin = 1842
    NormalStep = 30
    FiveSixthsStep = 25
    Parts = 4
    DcNames <- Names
    LastCap = 6
    LockPatterns <- Patterns
    StageOf <- Stages
    Boot <- BootSettings
    Automatic <- EspAuto
    OutOfRange <- TooHigh
    MaxFaults = 2
    Connections = {1, 2}
    MaxActs = 1
    MaxOpens = 2
    MaxRuns = 2
    MaxUnits = 1
    MaxLosses = 1
    UsbSize = 1
INVARIANTS
    LoAsSet
CHECK_DEADLOCK FALSE
