SPECIFICATION HistorySpec
CONSTANTS
    p1 = p1
    p2 = p2
    NoProc = NoProc
    Procs <- OneProc
    Interface <- OneNumber
    Disciplined = TRUE
    Channels <- PrintAndEws
    Modes = {"DOT4"}
    Present <- AioWithEws
INVARIANTS
    SocketAfterInit
