SPECIFICATION FairSpec
CONSTANTS
    MaxBufs = 2
    Size = 2
    MaxPolls = 3
    MaxChanges = 2
    ThreadFirst = TRUE
INVARIANTS
    TypeOK
    ThreadWithinLife
    PausesOnError
    OkMeansSent
PROPERTIES
    AbortAnswered
    JobEnds
CHECK_DEADLOCK FALSE
