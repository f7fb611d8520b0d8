\* One client of version 2 or 3, with a program that does not compile.
SPECIFICATION OldSpec
CONSTANTS
    k1 = k1
    k2 = k2
    t1 = t1
    t2 = t2
    Main = Main
    NoConn = NoConn
    NULL = NoConn
    NoReply = NoReply
    Clients = {k1}
    Rounds <- OneRound
    Units <- Short
    Backlog = 1
    Fragile = {}
    Killable = {}
    Versions = {"v2", "v3"}
    Threads = {t1, t2}
    Programs <- Broken
    CutPrograms = {"broken"}
    Shells = {"bash"}
    FdLimit = 3
    Nodes <- AllConns
INVARIANT SuccessesPassed
CHECK_DEADLOCK FALSE
