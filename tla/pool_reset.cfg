\* A pool with pausing, reset while it is not paused.
SPECIFICATION Spec
CONSTANTS
    a = a
    b = b
    t1 = t1
    t2 = t2
    Task = {t1, t2}
    Client = {a, b}
    Owner = a
    MaxThreads = 2
    FlagSets <- MCPauseOnly
    Calls = {"detach_task", "reset"}
    Priority <- MCPriority
    ResetUnpaused = TRUE
PROPERTY
    FutureSettles
