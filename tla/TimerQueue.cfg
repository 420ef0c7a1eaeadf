SPECIFICATION FairSpec
CONSTANTS
    Callers = {a}
    Addrs = {1, 2}
    Intervals = {0, 1}
    MaxTimers = 2
    MaxTime = 3
    MaxNow = 4
    MaxQueue = 1
CHECK_DEADLOCK FALSE
INVARIANTS SetsAgree OneOwner ArmedForEarliest CancelledStaysOut
PROPERTIES DueTimersRun
