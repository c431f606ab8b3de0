SPECIFICATION FairSpec
CONSTANTS
    None = None
    Worker = {w1, w2}
    Client = {c1}
    Actor = {"actor"}
    Relocation = {"relocation"}
    Attestation = {"attestation"}
    MaxAttempts = 2
INVARIANTS
    TypeOK
    OneActive
    DeletionHasOwner
    AvailableIsStored
    EvidenceIsKept
    ReclaimedIsGone
PROPERTIES
    ImplementsLifecycle
    DeletionEnds
CHECK_DEADLOCK FALSE
