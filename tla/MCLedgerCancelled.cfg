SPECIFICATION Spec
CONSTANTS
    a = a
    m1 = m1
    m2 = m2
    w1 = w1
    w2 = w2
    None = None
    NoBatch = NoBatch
    Batches = {a}
    Members = {m1, m2}
    Chunks <- MCChunks
    Part <- MCPart
    Points <- MCPoints
    Cap = 1
    Workers = {w1, w2}
    MaxAttempts = 2
PROPERTIES
    CancelledIsFinal
CHECK_DEADLOCK FALSE
