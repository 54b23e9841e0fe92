\* A signaller posts up to and at the maximum; holders post; the clock runs.
SPECIFICATION FairSpec
CONSTANTS
    a = a
    b = b
    c = c
    Threads <- MCThreads
    Signallers <- MCOneSignaller
    InitialValue = 1
    SEM_VALUE_MAX = 1
    TicksPerMs = 1
    WaitLimit = 2
    Deadlines = {2}
    MaxTime = 2
INVARIANTS
    TypeOK
    SupplyNeverShrinks
PROPERTIES
    TimedWaitReturns
    WaitServed
