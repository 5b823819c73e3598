SPECIFICATION FairSpec
CONSTANTS
    Sources = {"platen", "adf", "duplex"}
    MaxSheets = 2
    ChunkSizes <- TwoChunks
    MaxFaults = 1
    MaxOthers = 1
INVARIANTS
    TypeOK
    PagesWhole
    NoChannelLeft
    NoJobLeft
PROPERTIES
    ScanEnds
CHECK_DEADLOCK FALSE
