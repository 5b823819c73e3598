SPECIFICATION HistorySpec
CONSTANTS
    p1 = p1
    p2 = p2
    NoProc = NoProc
    Procs <- TwoProcs
    Interface <- OneNumber
    Disciplined = TRUE
    Channels <- PmlPrintEws
    Modes = {"DOT4", "DOT4_BRIDGE", "RAW"}
    Present <- AioWithEws
SYMMETRY SymProcs
INVARIANTS
    TypeOK
    ChannelCntExact
    OpenChannelBacked
    ReleasedWhenClosed
    SocketAfterInitUnmixed
    OwnTransport
PROPERTIES
    TransportRemoved
