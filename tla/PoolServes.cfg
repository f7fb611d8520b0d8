\* Two workers, a queue for two tasks, submissions that add a task of their own,
\* one of which never returns; main may call ThreadPoolWait or ThreadPoolCleanup
\* at any moment.
SPECIFICATION FairSpec
CONSTANTS
    w1 = w1
    w2 = w2
    main = main
    r1 = r1
    r2 = r2
    r3 = r3
    c1 = c1
    c2 = c2
    NoTask = NoTask
    Nobody = Nobody
    Workers = {w1, w2}
    Submitters = {main}
    Tasks = {r1, r2, r3, c1, c2}
    Spawns <- SpawnsTwo
    Endless = {c1}
    Teardown = {"ThreadPoolWait", "ThreadPoolCleanup"}
    QueueSize = 3
INVARIANTS TypeOK NoTaskStranded
PROPERTIES ImplementsTaskQueue EveryTaskRuns
CHECK_DEADLOCK FALSE
