SPECIFICATION Spec
CONSTANTS
    intent = intent
    p1 = p1
    p2 = p2
    d1 = d1
    d2 = d2
    d3 = d3
    NoSlot = NoSlot
    NoProc = NoProc
    NoIntent = NoIntent
    Intents = {intent}
    Roots = {}
    ChildrenOf <- MCChildrenOf
    SlotOf <- MCSlotOf
    Procs = {p1, p2}
    Drains = {d1, d2, d3}
    ProcOf <- MCProcOf
    MaxAttempts = 3
    Lease = 2
    Base = 1
    BackoffMax = 3
    MaxClock = 5
INVARIANTS
    TypeOK
    FenceIdentifiesAttempt
    LeaseExclusive
    OneEffectPerAttempt
CHECK_DEADLOCK FALSE
