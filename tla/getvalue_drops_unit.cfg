\* sem_getvalue at the maximum, with a signaller.
SPECIFICATION Spec
CONSTANTS
    a = a
    b = b
    c = c
    Threads <- MCThreads
    Signallers <- MCOneSignaller
    InitialValue = 2
    SEM_VALUE_MAX = 2
    TicksPerMs = 2
    WaitLimit = 8
    Deadlines <- MCNoDeadlines
    MaxTime = 6
PROPERTY
    GetvalueKeepsValue
