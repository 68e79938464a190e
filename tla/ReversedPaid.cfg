SPECIFICATION Spec
CONSTANTS
    Partner = {p1}
    Document = {d1}
    Agreement = {a1}
    Registration = {}
    Contact = {k1, k2}
    Project = {j1}
    Booking = {b1}
    Payout = {o1}
    Session = {}
    Rates = {1}
    Windows = {"current"}
    None = None
CHECK_DEADLOCK FALSE
SYMMETRY Symmetry
PROPERTY ReversedStays
