SPECIFICATION FairSpec
CONSTANTS
    MaxConns = 2
    Setups <- SoundSetups
CHECK_DEADLOCK FALSE
INVARIANTS NoAssertFails SocketsOwned NoStaleThis
PROPERTIES StopHolds Reconnects
