SPECIFICATION FairSpec
CONSTANTS
    w1 = w1
    w2 = w2
    Workers <- Pool
    MaxQueuedJobs = 2
    Jobs = 3
    Caller = Caller
    Writer = Writer
    NoJob = NoJob
INVARIANTS
    FinishedExact
PROPERTIES
    ImplementsOrder
    CallsReturn
    DestructorEnds
CHECK_DEADLOCK FALSE
