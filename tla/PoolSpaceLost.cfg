\* One worker, a queue for one task, tasks that add nothing.
SPECIFICATION FairSpec
CONSTANTS
    w1 = w1
    w2 = w2
    main = main
    r1 = r1
    r2 = r2
    r3 = r3
    c1 = c1
    c2 = c2
    NoTask = NoTask
    Nobody = Nobody
    Workers = {w1}
    Submitters = {main}
    Tasks = {r1, r2}
    Spawns <- SpawnsNone
    Endless = {}
    Teardown = {}
    QueueSize = 2
PROPERTY AddTaskReturns
