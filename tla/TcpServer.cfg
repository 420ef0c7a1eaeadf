SPECIFICATION PooledFairSpec
CONSTANTS
    Base = base
    IoLoops = {io, io2}
    Conns = {c1, c2}
    UserThreads = {u}
    io = io
    io2 = io2
    c1 = c1
    c2 = c2
    u = u
    Setups <- SoundSetups
    MaxQueue = 3
    MaxThreads = 2
    MaxHandouts = 2
CHECK_DEADLOCK FALSE
INVARIANTS NoAssertFails NoStaleThis UpThenDown NoDanglingChannel RoundRobin
PROPERTIES ClosedIsReleased
