\* The heap may reuse a block at once.
SPECIFICATION Spec
CONSTANTS
    a = a
    b = b
    b1 = b1
    b2 = b2
    b3 = b3
    h1 = h1
    h2 = h2
    h3 = h3
    n1 = n1
    n2 = n2
    NULL = NULL
    ANON = ANON
    Threads <- MCThreads
    Blocks <- MCBlocks
    Handles <- MCHandles
    Names <- MCNames
    Refused = {n2}
    RemoteObjects = {n1}
    OFlags <- MCAllFlags
    PShared = {TRUE, FALSE}
    Quarantine = FALSE
SYMMETRY Symmetry
INVARIANT OpenedIsUsable
