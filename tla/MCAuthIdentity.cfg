SPECIFICATION Spec
CONSTANTS
    None = None
    User = {u1, u2}
    Token = {t1, t2}
    Request = {r1}
    Identity = {"phone", "openid"}
    Value = {v1}
    MaxVersion <- MCMaxVersion
SYMMETRY Symmetry
PROPERTIES
    ImplementsSessions
CHECK_DEADLOCK FALSE
