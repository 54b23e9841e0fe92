\* A deadline WaitLimit milliseconds away.
SPECIFICATION Spec
CONSTANTS
    a = a
    b = b
    c = c
    Threads <- MCThreads
    Signallers = {}
    InitialValue = 1
    SEM_VALUE_MAX = 2
    TicksPerMs = 2
    WaitLimit = 2
    Deadlines <- MCDeadlines
    MaxTime = 6
PROPERTY
    TimeoutAtMostOneMsEarly
