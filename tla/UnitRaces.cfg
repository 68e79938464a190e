SPECIFICATION Spec
CONSTANTS
    Unit = {u1}
    Hold = {h1, h2}
    Booking = {b1, b2}
    Customer = {c1}
    User = {a1, a2}
    Session = {s1}
    MaxApprovers = 2
    None = None
CHECK_DEADLOCK FALSE
SYMMETRY Symmetry
INVARIANT KeysAgree
INVARIANT ClaimsAgree
PROPERTY BookingsRespectHolds
PROPERTY PromiseKept
