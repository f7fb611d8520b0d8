\* Two clients, one of which goes round twice; programs that end.
SPECIFICATION OldSpec
CONSTANTS
    k1 = k1
    k2 = k2
    t1 = t1
    t2 = t2
    Main = Main
    NoConn = NoConn
    NULL = NoConn
    NoReply = NoReply
    Clients = {k1, k2}
    Rounds <- TwoAndOne
    Units <- ShortAndLong
    Backlog = 1
    Fragile = {k2}
    Killable = {k2}
    Versions = {"v1", "v2", "v3"}
    Threads = {t1, t2}
    Programs <- Ending
    CutPrograms = {"broken", "crashes"}
    Shells = {"bash"}
    FdLimit = 3
    Nodes <- AllConns
SYMMETRY Interchangeable
INVARIANTS OldTypeOK VerdictsAreOwn TextsAreOwn WholeFilesJudged SocketsAreAccounted
INVARIANT SuccessesWereAnswered
PROPERTIES PoolIsTaskQueue ServerSurvives
CHECK_DEADLOCK FALSE
