SPECIFICATION FairSpec
CONSTANTS
    c1 = c1
    c2 = c2
    Chans = {c1, c2}
    Profiles <- KindsOfUse
    BufSize = 2
    MaxTries = 1
    CreditMod = 65536
INVARIANTS
    TypeOK
    CreditExact
    ReadHasCredit
    OpenAtDevice
PROPERTIES
    KeepsStreams
    CallsReturn
CHECK_DEADLOCK FALSE
