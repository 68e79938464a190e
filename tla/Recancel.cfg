SPECIFICATION Spec
CONSTANTS
    Unit = {u1}
    Hold = {h1, h2}
    Booking = {b1, b2}
    Customer = {c1}
    User = {a1, a2}
    Session = {}
    MaxApprovers = 2
    None = None
CHECK_DEADLOCK FALSE
SYMMETRY Symmetry
INVARIANT NoCompetingClaims
