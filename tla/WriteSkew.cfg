SPECIFICATION Spec
CONSTANTS
    Unit = {u1}
    Hold = {h1}
    Booking = {b1}
    Customer = {c1}
    User = {a1, a2, a3}
    Session = {s1}
    MaxApprovers = 2
    None = None
CHECK_DEADLOCK FALSE
SYMMETRY Symmetry
INVARIANT ApprovalAwaited
