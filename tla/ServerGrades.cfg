\* Two submissions, two checks of either at any time, and one restart.
SPECIFICATION ServerSpec
CONSTANTS
    w1 = w1
    w2 = w2
    w3 = w3
    c1 = c1
    c2 = c2
    c3 = c3
    c4 = c4
    c5 = c5
    i1 = i1
    i2 = i2
    NoTask = NoTask
    NoId = NoId
    MaxRestarts = 1
    Workers = {w1, w2}
    Conns = {c1, c2, c3, c4}
    Ids = {i1, i2}
    Tasks <- Some
    Capacity = 6
    Requests <- TwoSubmissions
    Endless = {}
SYMMETRY Interchangeable
INVARIANTS ServerTypeOK IssuedIsKept VerdictOnceTold NothingIsAddedTwice
PROPERTY VerdictsAreFinal
CHECK_DEADLOCK FALSE
