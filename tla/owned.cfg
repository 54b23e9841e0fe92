\* PID 0, which means nobody, and another PID.
SPECIFICATION Spec
CONSTANTS
    a = a
    b = b
    Threads <- MCPair
    PidOf <- MCPairPidOf
    Opened = {TRUE, FALSE}
    W = 4
INVARIANTS
    TypeOK
    OnlyPidZeroLocks
    LockIsKept
PROPERTY
    NeverUnlocked
CHECK_DEADLOCK FALSE
