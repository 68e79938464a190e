SPECIFICATION Spec
CONSTANTS
    PriceList = {p1}
    CostSheet = {s1, s2}
    Quote = {q1, q2}
    User = {u1, u2}
    u1 = u1
    u2 = u2
    l1 = l1
    l2 = l2
    Activity = {a1, a2}
    Visit = {v1}
    NoOne = NoOne
    f = f
    b1 = b1
    b2 = b2
    Territory = {t1, t2, t3}
CHECK_DEADLOCK FALSE
SYMMETRY Symmetry
INVARIANT TypeOK
INVARIANT PricesStand
INVARIANT DiscountsVouched
INVARIANT NewestCounts
INVARIANT OneAssignee
INVARIANT NextFollowUp
INVARIANT OneToken
INVARIANT TerritoriesRooted
PROPERTY ConvertedRest
PROPERTY EndedForGood
PROPERTY GrantsHeld
