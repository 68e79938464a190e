SPECIFICATION Spec
CONSTANTS
    Property = {p1}
    Tenant = {t1}
    Single = {x1}
    Pair = {x2, x3}
    Another = {x4, x5}
    Trio = {x6, x7, x8}
    Snag = {s1}
    Override = {o1}
    Document = {d1, d2}
    d1 = d1
    Ticket = {q1}
    None = None
CHECK_DEADLOCK FALSE
SYMMETRY Symmetry
INVARIANT TypeOK
INVARIANT OccupantsAgree
INVARIANT RentStands
INVARIANT PossessionVouched
INVARIANT StageTells
INVARIANT DeadlinesAgree
INVARIANT EscalationsAgree
