SPECIFICATION Spec
CONSTANTS
    b1 = b1
    b2 = b2
    m1 = m1
    m2 = m2
    w1 = w1
    w2 = w2
    None = None
    NoBatch = NoBatch
    Batches = {b1, b2}
    Members = {m1, m2}
    Chunks <- MCChunks
    Part <- MCPart
    Points <- MCPoints
    Cap = 3
    Workers = {w1, w2}
    MaxAttempts = 2
INVARIANTS
    TypeOK
    ReadyIsComplete
    DayStateExplained
PROPERTIES
    ImplementsAtomicPosting
CHECK_DEADLOCK FALSE
