\* A client of two rounds, whose file does not fit, one worker, and one restart.
SPECIFICATION FairGraderSpec
CONSTANTS
    w1 = w1
    k1 = k1
    i1 = i1
    i2 = i2
    NoTask = NoTask
    NoId = NoId
    Workers = {w1}
    Clients = {k1}
    Fits = {}
    Rounds = 2
    MaxChecks = 1
    Conns <- AllConns
    Ids = {i1, i2}
    Tasks <- Some
    Capacity = 6
    Requests <- SubmitOrCheck
    MaxRestarts = 1
    Endless = {i1}
INVARIANTS OwnVerdicts OneCheckARound
PROPERTY EveryClientEnds
CHECK_DEADLOCK FALSE
