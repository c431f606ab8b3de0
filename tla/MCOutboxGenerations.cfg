SPECIFICATION Spec
CONSTANTS
    root = root
    child = child
    prior = prior
    member = member
    p1 = p1
    d1 = d1
    d2 = d2
    NoSlot = NoSlot
    NoProc = NoProc
    NoIntent = NoIntent
    Intents = {root, child, prior}
    Roots = {root}
    ChildrenOf <- MCChildrenOf
    SlotOf <- MCSlotOf
    Procs = {p1}
    Drains = {d1, d2}
    ProcOf <- MCProcOf
    MaxAttempts = 2
    Lease = 1
    Base = 1
    BackoffMax = 2
    MaxClock = 2
VIEW MCView
SYMMETRY MCSymmetry
INVARIANTS
    ActiveSlotUnique
    DeferNeverRefused
    PendingNeverStranded
PROPERTIES
    ImplementsPromise
CHECK_DEADLOCK FALSE
