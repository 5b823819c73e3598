SPECIFICATION FairSpec
CONSTANTS
    printer = printer
    faxer = faxer
    j1 = j1
    Devices = {printer, faxer}
    FaxDevice = faxer
    Jobs = {j1}
    PipeBuf = 8
    DqSize <- Lengths
    ErrorSize = 5
    Statuses = {"idle"}
    ReplyCap = 8
    RequestCap = 1
    MaxRequests = 4
    KillEarly = TRUE
    HistorySize = 2
INVARIANTS
    TypeOK
    DqOfDevice
    FaxWhole
PROPERTIES
    HistoryIsRecent
    DaemonsServe
CHECK_DEADLOCK FALSE
