SPECIFICATION FairSpec
CONSTANTS
    Levels = {0, 1}
    Sizes = {1, 2}
    MaxWindow = 4
    MaxFlight = 3
    Wrap = 8
    Nothing = Nothing
    MaxFrames = 4
    Connections = {1, 2}
    MaxActs = 3
INVARIANTS
    ViewerExact
PROPERTIES
    NothingStuck
    SessionEnds
CHECK_DEADLOCK FALSE
