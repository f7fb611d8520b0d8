\* Two clients, one with a program that never ends.
SPECIFICATION FairOldSpec
CONSTANTS
    k1 = k1
    k2 = k2
    t1 = t1
    t2 = t2
    Main = Main
    NoConn = NoConn
    NULL = NoConn
    NoReply = NoReply
    Clients = {k1, k2}
    Rounds <- OneRound
    Units <- ShortAndLong
    Backlog = 1
    Fragile = {}
    Killable = {k2}
    Versions = {"v1", "v2", "v3"}
    Threads = {t1, t2}
    Programs <- OneEndless
    CutPrograms = {"broken", "wrong"}
    Shells = {"bash", "dash"}
    FdLimit = 3
    Nodes <- AllConns
PROPERTY ConnectedAreAnswered
CHECK_DEADLOCK FALSE
