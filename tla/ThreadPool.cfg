SPECIFICATION FairSpec
CONSTANTS
    Workers = {w1, w2, w3}
    MaxTasks = 3
    StopRace = FALSE
CHECK_DEADLOCK FALSE
INVARIANTS OneAwakePerTask EachTaskOnce
PROPERTIES PoolMakesProgress
