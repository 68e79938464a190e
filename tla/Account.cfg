SPECIFICATION AccountSpec
CONSTANTS
    Payment = {p1, p2}
    Refund = {r1, r2}
    Charge = {}
    Cancellation = {}
    Session = {}
    Price = 2
    BookingAmount = 1
    Amounts = {1, 2}
    Schedules <- HalvesOrWhole
    MaxPlans = 2
    MaxInstallments = 2
    Credit = {TRUE}
    None = None
    Single = {x1}
    Pair = {p1, p2}
CHECK_DEADLOCK FALSE
SYMMETRY Symmetry
INVARIANT AccountTypeOK
INVARIANT MoneyUsedOnce
INVARIANT MoneyOnEvidence
INVARIANT InstallmentsAgree
INVARIANT BalanceAgrees
INVARIANT SoldOnVerified
 
