SPECIFICATION Spec
CONSTANTS
    t1 = t1
    t2 = t2
    none = none
    Threads = {t1, t2}
    NoThread = none
    Items = 2
    Size = 2
    MaxOpens = 2
    MoveOn = TRUE
    Prompt = TRUE
    Errors = FALSE
    Unplug = FALSE
INVARIANTS
    ToldIsSent
CHECK_DEADLOCK FALSE
