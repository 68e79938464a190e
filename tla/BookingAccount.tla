---------------------------- MODULE BookingAccount ----------------------------
(***************************************************************************)
(* The money of one booking: services/finance.py (payments, reconciliation, *)
(* allocation, charges, refunds, the customer ledger), the payment half of *)
(* services/bookings.py, and the settlement of a cancelled sale in          *)
(* services/post_sales.py.                                                  *)
(*                                                                         *)
(* An action is one request, at its commit.  The rows it writes are locked *)
(* first and so are current; sums, counts and lookups made with a plain    *)
(* SELECT come from the read view v of the request's transaction, and,     *)
(* because the session does not flush before a query (autoflush=False),    *)
(* never include what the request itself has just changed.                 *)
(*                                                                         *)
(* Who acts is left out: every second-person rule can be met by some       *)
(* member of staff.  Demand letters only record an amount and are left out. *)
(***************************************************************************)
EXTENDS Integers, Sequences, FiniteSets, FiniteSetsExt, Functions

CONSTANTS
    Payment,          \* idempotency keys of the payments submitted over time
    Refund,           \* identities for the refunds requested over time
    Charge,           \* idempotency keys of the interest and penalty charges
    Cancellation,     \* identities for the cancellations requested over time
    Session,          \* concurrent requests whose read view may be old
    Price,            \* bookings.agreed_price
    BookingAmount,    \* bookings.booking_amount
    Amounts,          \* the amounts a payment, refund or charge may be for
    Schedules,        \* the installment amounts a payment plan may ask for
    MaxPlans,         \* how many payment plans the booking is given at most
    MaxInstallments,  \* the longest schedule
    Credit,           \* the choices for allow_unallocated_credit
    None              \* SQL NULL

ASSUME PriceAssumption == Price \in Nat \ {0} /\ BookingAmount \in Nat
ASSUME AmountsAssumption == Amounts \subseteq Nat \ {0}
ASSUME SchedulesAssumption ==
    \A s \in Schedules : s \in Seq(Nat) /\ Len(s) \in 1..MaxInstallments
ASSUME BoundsAssumption == MaxPlans \in Nat \ {0} /\ MaxInstallments \in Nat
ASSUME CreditAssumption == Credit \subseteq BOOLEAN
ASSUME SourcesDisjoint == None \notin Payment /\ Payment \cap Cancellation = {}
ASSUME RowsFinite == /\ IsFiniteSet(Payment) /\ IsFiniteSet(Refund)
                     /\ IsFiniteSet(Charge) /\ IsFiniteSet(Cancellation)

PaymentStatus == {"NONE", "PENDING", "PROCESSING", "COMPLETED", "FAILED", "REFUNDED"}
Undecided == {"PENDING", "PROCESSING"}
Live == Undecided \cup {"COMPLETED"}
Received == {"COMPLETED", "REFUNDED"}
BookingStatus == {"PAYMENT_PENDING", "VERIFICATION", "APPROVAL", "CONFIRMED",
                  "REJECTED", "CANCELLED"}
FinalBooking == {"CONFIRMED", "REJECTED", "CANCELLED"}

(* An installment is the i-th of the n-th plan.                            *)
Slot == (1..MaxPlans) \X (1..MaxInstallments)

(* `verdict' is the payment's last reconciliation, `manual' whether its    *)
(* audit entry records an override.                                        *)
PaymentRow == [status: PaymentStatus, amount: Nat,
               verdict: {"MATCHED", "MISMATCHED", None}, manual: BOOLEAN]
RefundRow == [status: PaymentStatus, amount: Nat,
              source: Payment \cup Cancellation \cup {None}]
CancellationRow == [status: {"NONE", "REQUESTED", "UNDER_REVIEW", "APPROVED",
                             "REJECTED", "COMPLETED"}, paid: Nat, deduction: Nat]
ChargeRow == [status: {"NONE", "APPLIED", "WAIVED"}, amount: Nat]
Installment == [amount: Nat, paid: Nat]

(* A ledger entry is keyed by what it records, never posted twice.         *)
EntryKey == ({"agreed"} \X {None}) \cup ({"payment"} \X Payment)
            \cup ({"refund"} \X Refund) \cup ({"applied", "waived"} \X Charge)
            \cup ({"reversal", "deduction"} \X Cancellation)
Entry == [key: EntryKey, type: {"DEBIT", "CREDIT"}, amount: Nat]

VARIABLES
    status,   \* bookings.status
    plans,    \* payment_plans with their installments, the newest last
    pay,      \* payments
    alloc,    \* payment_allocations: what of a payment is active on a slot
    refund,   \* refunds
    charge,   \* financial_charges
    cancel,   \* cancellations
    ledger,   \* customer_ledger_entries
    view      \* what each session's transaction saw when it began

rows == <<status, plans, pay, alloc, refund, charge, cancel, ledger>>
vars == <<rows, view>>

Allocated(p) == SumFunction(alloc[p])

Snapshot == [pay |-> pay, refund |-> refund, plans |-> Len(plans),
             allocated |-> {p \in Payment : Allocated(p) > 0}]
ReadView == [pay: [Payment -> PaymentRow], refund: [Refund -> RefundRow],
             plans: 1..MaxPlans, allocated: SUBSET Payment]
Views == {Snapshot} \cup {view[s] : s \in Session}

TypeOK ==
    /\ status \in BookingStatus
    /\ plans \in Seq(Seq(Installment)) /\ Len(plans) \in 1..MaxPlans
    /\ pay \in [Payment -> PaymentRow]
    /\ alloc \in [Payment -> [Slot -> Nat]]
    /\ refund \in [Refund -> RefundRow]
    /\ charge \in [Charge -> ChargeRow]
    /\ cancel \in [Cancellation -> CancellationRow]
    /\ ledger \subseteq Entry
    /\ view \in [Session -> ReadView]

NewPlan(schedule) ==
    [i \in DOMAIN schedule |-> [amount |-> schedule[i], paid |-> 0]]
PlanTotal(schedule) == SumFunction(schedule)

Debit(key, amount) == [key |-> key, type |-> "DEBIT", amount |-> amount]
CreditEntry(key, amount) == [key |-> key, type |-> "CREDIT", amount |-> amount]

(* create_booking commits the booking, its first plan and the entry for    *)
(* the agreed value together.                                              *)
Init ==
    /\ status = "PAYMENT_PENDING"
    /\ \E schedule \in Schedules :
          PlanTotal(schedule) = Price /\ plans = <<NewPlan(schedule)>>
    /\ pay = [p \in Payment |-> [status |-> "NONE", amount |-> 0,
                                 verdict |-> None, manual |-> FALSE]]
    /\ alloc = [p \in Payment |-> [s \in Slot |-> 0]]
    /\ refund = [r \in Refund |-> [status |-> "NONE", amount |-> 0, source |-> None]]
    /\ charge = [c \in Charge |-> [status |-> "NONE", amount |-> 0]]
    /\ cancel = [c \in Cancellation |->
                    [status |-> "NONE", paid |-> 0, deduction |-> 0]]
    /\ ledger = {Debit(<<"agreed", None>>, Price)}
    /\ view = [s \in Session |-> Snapshot]

-----------------------------------------------------------------------------
(* What the services compute from a read view.                             *)

PaymentTotal(v, statuses) ==
    SumFunctionOnSet([p \in Payment |-> v.pay[p].amount],
                     {p \in Payment : v.pay[p].status \in statuses})

RefundTotal(v, sources, statuses) ==
    SumFunctionOnSet([r \in Refund |-> v.refund[r].amount],
                     {r \in Refund : v.refund[r].source \in sources
                                     /\ v.refund[r].status \in statuses})

PaidAmount(v) ==
    LET paid == PaymentTotal(v, Received)
        refunded == RefundTotal(v, Payment \cup Cancellation, {"COMPLETED"})
    IN  IF paid > refunded THEN paid - refunded ELSE 0

(* What is still open on installments, and how an amount can be spread     *)
(* over them (or over allocations to reverse) one after another until it   *)
(* is used up.  Every order is possible: a request names the order in which *)
(* installments are filled, and allocated_at, which orders the reversals,  *)
(* has whole seconds.                                                      *)
Open(n) ==
    [s \in {n} \X DOMAIN plans[n] |-> plans[n][s[2]].amount - plans[n][s[2]].paid]

(* mutant: each installment takes the whole amount *)
Spreads_NotReduced(open, amount) ==
    {[s \in {x \in DOMAIN open : open[x] > 0} |-> Min({amount, open[s]})]}

Spreads(open, amount) ==
    LET takers == {s \in DOMAIN open : open[s] > 0}
    IN  {share \in [takers -> 0..amount] :
            /\ \A s \in takers : share[s] <= open[s]
            /\ SumFunction(share) = Min({amount, SumFunction(open)})
            /\ Cardinality({s \in takers : share[s] \notin {0, open[s]}}) <= 1}

At(share, s) == IF s \in DOMAIN share THEN share[s] ELSE 0

Begin(s) ==
    /\ view' = [view EXCEPT ![s] = Snapshot]
    /\ UNCHANGED rows

-----------------------------------------------------------------------------
(* Payments come in, from the booking screen or from collections.          *)

Submitted(p, amount) ==
    [pay EXCEPT ![p].status = "PENDING", ![p].amount = amount]

(* A key already used only repeats the answer, or is refused.              *)
CreateBookingPayment(v, p, amount) ==
    /\ status \in {"PAYMENT_PENDING", "VERIFICATION"}
    /\ pay[p].status = "NONE"
    /\ PaymentTotal(v, Live) + amount <= Price
    /\ pay' = Submitted(p, amount)
    /\ status' = IF PaymentTotal(v, Live) + amount >= BookingAmount
                 THEN "VERIFICATION" ELSE status
    /\ UNCHANGED <<plans, alloc, refund, charge, cancel, ledger, view>>

CreateCollectionPayment(p, amount) ==
    /\ pay[p].status = "NONE"
    /\ pay' = Submitted(p, amount)
    /\ UNCHANGED <<status, plans, alloc, refund, charge, cancel, ledger, view>>

(* mutant: the verdict is written into the payment's status *)
ReconcilePayment_VerdictAsStatus(p, verdict) ==
    /\ pay[p].status \in Undecided
    /\ pay' = [pay EXCEPT ![p].status = verdict, ![p].verdict = verdict]
    /\ UNCHANGED <<status, plans, alloc, refund, charge, cancel, ledger, view>>

ReconcilePayment(p, verdict) ==
    /\ pay[p].status \in Undecided
    /\ pay' = [pay EXCEPT ![p].status = "PROCESSING", ![p].verdict = verdict]
    /\ UNCHANGED <<status, plans, alloc, refund, charge, cancel, ledger, view>>

(* decide_payment refuses COMPLETED: only a failure is recorded here.      *)
FailPayment(p) ==
    /\ pay[p].status \in Undecided
    /\ pay' = [pay EXCEPT ![p].status = "FAILED"]
    /\ UNCHANGED <<status, plans, alloc, refund, charge, cancel, ledger, view>>

(* mutant: any reconciliation will do, matched or not *)
Reconciled_Any(v, p) == v.pay[p].status = "PROCESSING"

Reconciled(v, p) == v.pay[p].verdict = "MATCHED"

(* The plan allocated to is the newest one in the view; its installments   *)
(* are then locked, so their open amounts are current.                     *)
AllocatePayment(v, p, manual, credit) ==
    LET n == v.plans
        amount == pay[p].amount
    IN
    /\ pay[p].status \in Undecided
    /\ Reconciled(v, p) \/ manual
    /\ amount <= SumFunction(Open(n)) \/ credit
    /\ \E share \in Spreads(Open(n), amount) :
          /\ alloc' = [alloc EXCEPT ![p] = [s \in Slot |-> @[s] + At(share, s)]]
          /\ plans' = [plans EXCEPT ![n] = [i \in DOMAIN plans[n] |->
                          [plans[n][i] EXCEPT !.paid = @ + At(share, <<n, i>>)]]]
    /\ pay' = [pay EXCEPT ![p].status = "COMPLETED", ![p].manual = manual]
    /\ status' = IF status = "PAYMENT_PENDING"
                    /\ PaymentTotal(v, {"COMPLETED"}) >= BookingAmount
                 THEN "VERIFICATION" ELSE status
    /\ ledger' = ledger \cup {CreditEntry(<<"payment", p>>, amount)}
    /\ UNCHANGED <<refund, charge, cancel, view>>

(* bookings.set_payment_plan: the older plans are archived as they stand.  *)
SetPaymentPlan(schedule) ==
    /\ status \in {"PAYMENT_PENDING", "VERIFICATION"}
    /\ Len(plans) < MaxPlans
    /\ PlanTotal(schedule) = Price
    /\ plans' = Append(plans, NewPlan(schedule))
    /\ UNCHANGED <<status, pay, alloc, refund, charge, cancel, ledger, view>>

-----------------------------------------------------------------------------
(* What of the booking's own course depends on money or is depended on;    *)
(* UnitInventory has the rest of it.                                       *)

MoveBooking(next) ==
    /\ status' = next
    /\ UNCHANGED <<plans, pay, alloc, refund, charge, cancel, ledger, view>>

AdvanceBooking(v) ==
    /\ status = "PAYMENT_PENDING"
    /\ PaymentTotal(v, Live) >= BookingAmount
    /\ MoveBooking("VERIFICATION")

(* mutant: a submitted payment is as good as a verified one *)
RequestApproval_Submitted(v) ==
    /\ status = "VERIFICATION"
    /\ PaymentTotal(v, Live) >= BookingAmount
    /\ MoveBooking("APPROVAL")

RequestApproval(v) ==
    /\ status = "VERIFICATION"
    /\ PaymentTotal(v, {"COMPLETED"}) >= BookingAmount
    /\ MoveBooking("APPROVAL")

DecideApproval ==
    /\ status = "APPROVAL"
    /\ MoveBooking("CONFIRMED") \/ MoveBooking("REJECTED")

CancelBooking ==
    /\ status \notin FinalBooking
    /\ MoveBooking("CANCELLED")

-----------------------------------------------------------------------------
(* Charges.                                                                *)

CreateCharge(c, s, amount) ==
    /\ s[1] \in DOMAIN plans /\ s[2] \in DOMAIN plans[s[1]]
    /\ Open(s[1])[s] > 0
    /\ charge[c].status = "NONE"
    /\ charge' = [charge EXCEPT ![c] = [status |-> "APPLIED", amount |-> amount]]
    /\ ledger' = ledger \cup {Debit(<<"applied", c>>, amount)}
    /\ UNCHANGED <<status, plans, pay, alloc, refund, cancel, view>>

WaiveCharge(c) ==
    /\ charge[c].status = "APPLIED"
    /\ charge' = [charge EXCEPT ![c].status = "WAIVED"]
    /\ ledger' = ledger \cup {CreditEntry(<<"waived", c>>, charge[c].amount)}
    /\ UNCHANGED <<status, plans, pay, alloc, refund, cancel, view>>

-----------------------------------------------------------------------------
(* Refunds.                                                                *)

Committed(v, p) == RefundTotal(v, {p}, Live)

RequestRefund(v, r, p, amount) ==
    /\ pay[p].status \in Received
    /\ refund[r].status = "NONE"
    /\ Committed(v, p) + amount <= pay[p].amount
    /\ refund' = [refund EXCEPT ![r] =
                     [status |-> "PENDING", amount |-> amount, source |-> p]]
    /\ UNCHANGED <<status, plans, pay, alloc, charge, cancel, ledger, view>>

DecideRefund(r) ==
    /\ refund[r].status = "PENDING"
    /\ \E decision \in {"PROCESSING", "FAILED"} :
          refund' = [refund EXCEPT ![r].status = decision]
    /\ UNCHANGED <<status, plans, pay, alloc, charge, cancel, ledger, view>>

(* The payments a refund gives back: its own, or, for the settlement of a  *)
(* cancellation, all that were ever verified.                              *)
Repaid(r) == IF refund[r].source \in Payment THEN {refund[r].source}
             ELSE {p \in Payment : pay[p].status \in Received}

(* mutant: the sum is taken after the refund is flushed, and counts it twice *)
FullyRefunded_Flushed(v, r, p) ==
    \/ p \notin v.allocated
    \/ /\ refund[r].source = p
       /\ RefundTotal(v, {p}, {"COMPLETED"}) + 2 * refund[r].amount >= pay[p].amount

(* A payment becomes REFUNDED when the view shows no active allocation of  *)
(* it, or when the view's finished refunds of it and this one cover it.    *)
FullyRefunded(v, r, p) ==
    \/ p \notin v.allocated
    \/ /\ refund[r].source = p
       /\ RefundTotal(v, {p}, {"COMPLETED"}) + refund[r].amount >= pay[p].amount

(* mutant: the installments keep what was given back *)
ProcessRefund_KeepsPaid(v, r) ==
    LET active == [x \in Repaid(r) \X Slot |-> alloc[x[1]][x[2]]] IN
    /\ refund[r].status = "PROCESSING"
    /\ \E back \in Spreads(active, refund[r].amount) :
          alloc' = [p \in Payment |-> [s \in Slot |->
                       alloc[p][s] - At(back, <<p, s>>)]]
    /\ pay' = [p \in Payment |-> IF p \in Repaid(r) /\ FullyRefunded(v, r, p)
                                 THEN [pay[p] EXCEPT !.status = "REFUNDED"] ELSE pay[p]]
    /\ refund' = [refund EXCEPT ![r].status = "COMPLETED"]
    /\ ledger' = ledger \cup {Debit(<<"refund", r>>, refund[r].amount)}
    /\ UNCHANGED <<status, plans, charge, cancel, view>>

ProcessRefund(v, r) ==
    LET active == [x \in Repaid(r) \X Slot |-> alloc[x[1]][x[2]]] IN
    /\ refund[r].status = "PROCESSING"
    /\ \E back \in Spreads(active, refund[r].amount) :
          /\ alloc' = [p \in Payment |-> [s \in Slot |->
                          alloc[p][s] - At(back, <<p, s>>)]]
          /\ plans' = [n \in DOMAIN plans |-> [i \in DOMAIN plans[n] |->
                [plans[n][i] EXCEPT !.paid = Max({0, @ - SumFunction(
                    [p \in Repaid(r) |-> At(back, <<p, <<n, i>>>>)])})]]]
    /\ pay' = [p \in Payment |-> IF p \in Repaid(r) /\ FullyRefunded(v, r, p)
                                 THEN [pay[p] EXCEPT !.status = "REFUNDED"] ELSE pay[p]]
    /\ refund' = [refund EXCEPT ![r].status = "COMPLETED"]
    /\ ledger' = ledger \cup {Debit(<<"refund", r>>, refund[r].amount)}
    /\ UNCHANGED <<status, charge, cancel, view>>

-----------------------------------------------------------------------------
(* A confirmed sale is cancelled and settled.                              *)

Active == {"REQUESTED", "UNDER_REVIEW", "APPROVED"}

RequestCancellation(c) ==
    /\ status = "CONFIRMED"
    /\ \A d \in Cancellation : cancel[d].status \notin Active
    /\ cancel[c].status = "NONE"
    /\ cancel' = [cancel EXCEPT ![c].status = "REQUESTED"]
    /\ UNCHANGED <<status, plans, pay, alloc, refund, charge, ledger, view>>

ReviewCancellation(v, c) ==
    /\ cancel[c].status = "REQUESTED"
    /\ \E deduction \in 0..PaidAmount(v) :
          cancel' = [cancel EXCEPT ![c] = [status |-> "UNDER_REVIEW",
                        paid |-> PaidAmount(v), deduction |-> deduction]]
    /\ UNCHANGED <<status, plans, pay, alloc, refund, charge, ledger, view>>

DecideCancellation(c) ==
    /\ cancel[c].status = "UNDER_REVIEW"
    /\ \E decision \in {"APPROVED", "REJECTED"} :
          cancel' = [cancel EXCEPT ![c].status = decision]
    /\ UNCHANGED <<status, plans, pay, alloc, refund, charge, ledger, view>>

(* mutant: the deduction is not charged to the customer *)
Settlement_NoDeduction(c) == {CreditEntry(<<"reversal", c>>, Price)}

Settlement(c) ==
    {CreditEntry(<<"reversal", c>>, Price)} \cup
    (IF cancel[c].deduction > 0
     THEN {Debit(<<"deduction", c>>, cancel[c].deduction)} ELSE {})

(* The unit is locked first and must still be sold to this booking, so of  *)
(* the booking and the cancellation, which are read before that, an old    *)
(* copy that passes the checks is a true one; the money paid is a plain    *)
(* sum.                                                                    *)
CompleteCancellation(v, c) ==
    /\ cancel[c].status = "APPROVED" /\ status = "CONFIRMED"
    /\ PaidAmount(v) = cancel[c].paid
    /\ cancel' = [cancel EXCEPT ![c].status = "COMPLETED"]
    /\ status' = "CANCELLED"
    /\ ledger' = ledger \cup Settlement(c)
    /\ \/ cancel[c].paid = cancel[c].deduction /\ UNCHANGED refund
       \/ /\ cancel[c].paid > cancel[c].deduction
          /\ \E r \in Refund :
                /\ refund[r].status = "NONE"
                /\ refund' = [refund EXCEPT ![r] =
                       [status |-> "PROCESSING", source |-> c,
                        amount |-> cancel[c].paid - cancel[c].deduction]]
    /\ UNCHANGED <<plans, pay, alloc, charge, view>>

-----------------------------------------------------------------------------
PaymentStep ==
    \/ \E v \in Views, p \in Payment, amount \in Amounts : CreateBookingPayment(v, p, amount)
    \/ \E p \in Payment, amount \in Amounts : CreateCollectionPayment(p, amount)
    \/ \E p \in Payment, verdict \in {"MATCHED", "MISMATCHED"} : ReconcilePayment(p, verdict)
    \/ \E p \in Payment : FailPayment(p)
    \/ \E v \in Views, p \in Payment, manual \in BOOLEAN, credit \in Credit :
          AllocatePayment(v, p, manual, credit)
    \/ \E schedule \in Schedules : SetPaymentPlan(schedule)

BookingStep ==
    \/ \E v \in Views : AdvanceBooking(v) \/ RequestApproval(v)
    \/ DecideApproval
    \/ CancelBooking

ChargeStep ==
    \/ \E c \in Charge, s \in Slot, amount \in Amounts : CreateCharge(c, s, amount)
    \/ \E c \in Charge : WaiveCharge(c)

RefundStep ==
    \/ \E v \in Views, r \in Refund, p \in Payment, amount \in Amounts :
          RequestRefund(v, r, p, amount)
    \/ \E r \in Refund : DecideRefund(r)
    \/ \E v \in Views, r \in Refund : ProcessRefund(v, r)

CancellationStep ==
    \/ \E c \in Cancellation : RequestCancellation(c) \/ DecideCancellation(c)
    \/ \E v \in Views, c \in Cancellation :
          ReviewCancellation(v, c) \/ CompleteCancellation(v, c)

Next ==
    \/ \E s \in Session : Begin(s)
    \/ PaymentStep
    \/ BookingStep
    \/ ChargeStep
    \/ RefundStep
    \/ CancellationStep

Spec == Init /\ [][Next]_vars

-----------------------------------------------------------------------------
(* Properties.                                                             *)

RefundedOf(p) == RefundTotal(Snapshot, {p}, {"COMPLETED"})

(* Money is where the allocations say it is: each installment counts as    *)
(* paid exactly what active allocations put on it, and never more than it  *)
(* asks for.                                                               *)
PaidAgrees ==
    \A n \in DOMAIN plans : \A i \in DOMAIN plans[n] :
        /\ plans[n][i].paid = SumFunction([p \in Payment |-> alloc[p][<<n, i>>]])
        /\ plans[n][i].paid <= plans[n][i].amount

(* The balance shown to the customer, debits less credits, is what the     *)
(* booking, its charges, payments, refunds and cancellation say is owed.   *)
EntryTotal(type) ==
    SumFunctionOnSet([e \in ledger |-> e.amount], {e \in ledger : e.type = type})
ContractOwed ==
    LET done == {c \in Cancellation : cancel[c].status = "COMPLETED"}
    IN  IF done = {} THEN Price ELSE SumFunction([c \in done |-> cancel[c].deduction])
ChargesOwed ==
    SumFunctionOnSet([c \in Charge |-> charge[c].amount],
                     {c \in Charge : charge[c].status = "APPLIED"})
LedgerAgrees ==
    EntryTotal("DEBIT") - EntryTotal("CREDIT") =
        ContractOwed
        + ChargesOwed
        - PaymentTotal(Snapshot, Received)
        + RefundTotal(Snapshot, Payment \cup Cancellation, {"COMPLETED"})

(* A payment's money is used once: what of it still pays installments and  *)
(* what was given back never exceed it; and "refunds cannot exceed the     *)
(* verified payment", even those that still wait for a decision.           *)
UsedOnce ==
    \A p \in Payment : /\ Allocated(p) + RefundedOf(p) <= pay[p].amount
                       /\ Committed(Snapshot, p) <= pay[p].amount

(* More is never given back than was received, whichever way it is asked   *)
(* for.                                                                    *)
NoOverRefund ==
    RefundTotal(Snapshot, Payment \cup Cancellation, {"COMPLETED"})
        <= PaymentTotal(Snapshot, Received)

(* A payment is called refunded when, and only when, that is what became of *)
(* it: whatever was refunded in parts, in whichever order the parts were    *)
(* asked for, decided and paid, and whichever installments they were taken  *)
(* back from, a refunded payment pays no installment any more, and one that *)
(* was given back in full is called refunded.  process_refund decides it    *)
(* with two queries that see none of the reversals it has just made.        *)
RefundsTold ==
    \A p \in Payment :
        /\ pay[p].status = "REFUNDED" => Allocated(p) = 0
        /\ pay[p].status \in Received /\ RefundedOf(p) = pay[p].amount
              => pay[p].status = "REFUNDED"

(* "A matched reconciliation or documented override is required": when a   *)
(* payment is verified, its latest reconciliation matched, or the audit    *)
(* trail says somebody overrode it.                                        *)
VerifiedOnEvidence ==
    \A p \in Payment : pay[p].status \in Received =>
        pay[p].verdict = "MATCHED" \/ pay[p].manual

(* "Verified payments must cover the booking amount": whatever payments    *)
(* raced for it and however old the approver's reads, a booking is up for *)
(* approval or sold only once that much had been verified.                 *)
ApprovedOnVerified ==
    status \in {"APPROVAL", "CONFIRMED"} =>
        PaymentTotal(Snapshot, Received) >= BookingAmount

(* "Payments changed after review; review the cancellation again": it can *)
(* be reviewed again, or asked for again.                                  *)
CanReviewAgain ==
    \A c \in Cancellation :
        cancel[c].status = "APPROVED" /\ PaidAmount(Snapshot) # cancel[c].paid
            => \/ \E v \in Views : ENABLED ReviewCancellation(v, c)
               \/ \E d \in Cancellation : ENABLED RequestCancellation(d)
=============================================================================
