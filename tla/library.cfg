\* One small instance of each part; a behaviour runs one of them.
SPECIFICATION Spec
CONSTANTS
    MaxIndex = 3
    DiffMax = 7
    thread_count = 2
    MaxBlocks = 3
    Duration = 1
    Thread = {1, 2}
    Main = 1
    Cpu = {0, 1}
    AskedCpu = {0, 1, 2}
    Adder = {1, 2}
    Elem = {e1, e2, e3, e4}
    Process = {p1, p2, p3}
    PID = {0, 1, 2}
    StackLimit = 20
    Num = {0, 1, 2}
    MaxSize = 3
    Other = Other
    Truths <- MCTruths
    Printer = {1, 2}
    Stream = {3, 4}
    MaxStreams = 2
    MaxLines = 2
    Name = {n1, n2}
    Text = {x, y}
    PARAM_PACK_MAX_SIZE = 2
    AskedSizes = {0, 1, 3}
    NULL = NULL
\* Every part ends: all tasks run, all elements used, a crash, all answers asked.
CHECK_DEADLOCK FALSE
INVARIANTS
    BlocksPartition
    LoopRunOnce
    WaitForTruth
    ReadsBack
    AddedStaysLinked
    MainAlone
    DataNeverLocked
    StartOutcome
    EquivationWhole
    WholeLines
    PackStaysEmpty
PROPERTIES
    SetFailsClean
    ProgramEnds
    DataNeverReturned
