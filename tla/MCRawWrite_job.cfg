SPECIFICATION FairSpec
CONSTANTS
    t1 = t1
    t2 = t2
    none = none
    Threads = {t1, t2}
    NoThread = none
    Items = 3
    Size = 2
    MaxOpens = 2
    MoveOn = TRUE
    Prompt = TRUE
    Errors = TRUE
    Unplug = TRUE
INVARIANTS
    TypeOK
    AckedWasSent
    JobInOrder
PROPERTIES
    WriteReturns
CHECK_DEADLOCK FALSE
