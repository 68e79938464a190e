SPECIFICATION Spec
CONSTANTS
    Payment = {p1, p2}
    Refund = {}
    Charge = {}
    Cancellation = {c1}
    Session = {}
    Price = 2
    BookingAmount = 1
    Amounts = {1, 2}
    Schedules <- Halves
    MaxPlans = 1
    MaxInstallments = 2
    Credit = {TRUE, FALSE}
    None = None
CHECK_DEADLOCK FALSE
SYMMETRY Symmetry
INVARIANT CanReviewAgain
