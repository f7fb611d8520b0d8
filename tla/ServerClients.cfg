\* Clients that break off in every way, and a queue that fills.
SPECIFICATION ServerSpec
CONSTANTS
    w1 = w1
    w2 = w2
    w3 = w3
    c1 = c1
    c2 = c2
    c3 = c3
    c4 = c4
    c5 = c5
    i1 = i1
    i2 = i2
    NoTask = NoTask
    NoId = NoId
    MaxRestarts = 0
    Workers = {w1, w2}
    Conns = {c1, c2, c3, c4, c5}
    Ids = {i1, i2}
    Tasks <- Some
    Capacity = 1
    Requests <- AllWays
    Endless = {}
SYMMETRY Interchangeable
INVARIANTS SocketsAreOwned DescriptorsAreBounded
CHECK_DEADLOCK FALSE
