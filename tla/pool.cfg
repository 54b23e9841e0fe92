\* Two clients, two workers, two tasks; a pool without optional features and
\* one with pausing and priorities, which is reset only while it is paused.
SPECIFICATION Spec
CONSTANTS
    a = a
    b = b
    t1 = t1
    t2 = t2
    Task = {t1, t2}
    Client = {a, b}
    Owner = a
    MaxThreads = 2
    FlagSets <- MCAllFlags
    Calls = {"detach_task", "purge", "pause", "unpause", "wait", "wait_for", "reset", "destroy"}
    Priority <- MCPriority
    ResetUnpaused = FALSE
\* After the destructor nothing is left to do.
CHECK_DEADLOCK FALSE
INVARIANTS
    RunningCounted
    NoLostWakeup
    DestroyRunsAll
    NoDeadlock
PROPERTIES
    WaitMeansDone
    StrandedOnlyBy
    ImplementsTaskPool
    FutureSettles
    WaitReturns
