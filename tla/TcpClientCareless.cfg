SPECIFICATION Spec
CONSTANTS
    MaxConns = 1
    Setups <- CarelessSetups
CHECK_DEADLOCK FALSE
INVARIANTS StartsIdle
