\* Three workers, an endless program and a client that stalls.
SPECIFICATION FairServerSpec
CONSTANTS
    w1 = w1
    w2 = w2
    w3 = w3
    c1 = c1
    c2 = c2
    c3 = c3
    c4 = c4
    c5 = c5
    i1 = i1
    i2 = i2
    NoTask = NoTask
    NoId = NoId
    MaxRestarts = 0
    Workers = {w1, w2, w3}
    Conns = {c1, c2, c3}
    Ids = {i1, i2}
    Tasks <- Some
    Capacity = 5
    Requests <- OneStalls
    Endless = {i1}
PROPERTIES EveryRequestEnds EveryIssuedIdIsGraded
CHECK_DEADLOCK FALSE
