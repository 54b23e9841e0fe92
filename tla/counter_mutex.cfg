\* Clients that post what they hold: three threads, two units, a full semaphore.
SPECIFICATION Spec
CONSTANTS
    a = a
    b = b
    c = c
    Threads <- MCThreads
    Signallers = {}
    InitialValue = 2
    SEM_VALUE_MAX = 2
    TicksPerMs = 2
    WaitLimit = 8
    Deadlines <- MCDeadlines
    MaxTime = 6
SYMMETRY Symmetry
INVARIANTS
    UnitsConserved
    NothingFails
PROPERTIES
    ImplementsCounting
    GetvalueNotTooHigh
    TimeoutAtMostOneMsEarly
