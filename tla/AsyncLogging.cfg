SPECIFICATION FairSpec
CONSTANTS
    RollSize = 2
    FlushInterval = 1
    kCheckTimeRoll = 1
    kRollPerSeconds = 2
    MaxTime = 2
    Appenders = {a}
    Main = main
    Logger = logger
    LineSizes = {2, 3}
    BufferSizes = {3, 5}
    MaxBuffers = 2
    DropMsgLen = 1
    Capacities = {0, 1}
    MaxLines = 4
CHECK_DEADLOCK FALSE
INVARIANTS RollsInTime EveryLineOnce BuffersComeBack StoppedIsOnDisk
PROPERTIES LogMakesProgress
