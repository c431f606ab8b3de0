SPECIFICATION Spec
CONSTANTS
    None = None
    User = {u1}
    Token = {t1, t2, t3}
    Request = {r1, r2}
    Identity = {"wecom"}
    Value = {v1}
    MaxVersion <- MCMaxVersion
SYMMETRY Symmetry
INVARIANTS
    TypeOK
    OneLivePerFamily
    LiveIsEntitled
PROPERTIES
    FreshRefreshKeepsFamily
    ProofNotRevived
CHECK_DEADLOCK FALSE
