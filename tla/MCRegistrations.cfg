SPECIFICATION Spec
CHECK_DEADLOCK FALSE
CONSTANTS
    m1 = m1
    m2 = m2
    m3 = m3
    s1 = s1
    s2 = s2
    p1 = p1
    p2 = p2
    None = None
    Activity = Activity
    Member = {m1, m2, m3}
    SessionOrder <- MCSessionOrder
    Offered <- MCOffered
    Lists <- MCLists
    Limits <- MCLimits
    MaxAway = 1
SYMMETRY Symmetry
INVARIANTS
    TypeOK
    NothingIsOversold
    SeatsAgree
    HeaderHidesNothing
PROPERTIES
    NoPromotionOvertakes
    FreedSeatIsTaken
    ImplementsFirstCome
