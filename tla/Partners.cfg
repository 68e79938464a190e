SPECIFICATION PartnersSpec
CONSTANTS
    Partner = {p1}
    Document = {d1, d2}
    Agreement = {a1}
    Registration = {r1, r2}
    Contact = {k1, k2}
    Project = {j1}
    Booking = {b1, b2}
    Payout = {o1, o2}
    Session = {s1}
    Rates = {1}
    Windows = {"future", "current"}
    None = None
CHECK_DEADLOCK FALSE
SYMMETRY Symmetry
INVARIANT TypeOK
INVARIANT OneProtector
INVARIANT PayoutsAddUp
INVARIANT OnlyVettedSell
INVARIANT OwedOnSales
