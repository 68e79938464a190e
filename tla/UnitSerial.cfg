SPECIFICATION FairSpec
CONSTANTS
    Unit = {u1, u2}
    Hold = {h1, h2}
    Booking = {b1}
    Customer = {c1}
    User = {a1, a2, a3}
    Session = {}
    MaxApprovers = 2
    None = None
CHECK_DEADLOCK FALSE
INVARIANT TypeOK
INVARIANT ConfirmedByAll
INVARIANT ApprovalAwaited
PROPERTY HoldsMoveForward
PROPERTY ConfirmedStays
PROPERTY OverdueHoldsEnd
