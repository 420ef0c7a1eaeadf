SPECIFICATION ThreadFairSpec
CONSTANTS
    LoopThread = loop
    Callers = {a, b}
    Owner = a
    IoChannels = {io}
    WakeupChannel = wakeup
    EarlyQueue = FALSE
    MaxFunctors = 4
    CtorFirst = TRUE
    UserQuits = TRUE
INVARIANTS StartLoopResult Inv PromptWakeup
PROPERTIES StartLoopReturns RunningLoopIsJoined ImplementsTaskQueue FunctorsRun QuitStops
