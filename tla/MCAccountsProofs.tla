-------------------------- MODULE MCAccountsProofs --------------------------
(***************************************************************************)
(* The properties of the run Account.  Requests that follow one another    *)
(* have the run's own parameters; what is proved of an account is brought  *)
(* to those that race and to a sale's settlement by instances of its       *)
(* proofs whose parameters are theirs.                                     *)
(***************************************************************************)
EXTENDS MCAccounts, AccountProofs

Raced == INSTANCE AccountProofs WITH
    Refund <- Single, Session <- Single, Amounts <- {1}, Schedules <- Halves
Settled == INSTANCE AccountProofs WITH
    Payment <- Single, Charge <- Single, Cancellation <- Pair, Schedules <- HalvesOrShort,
    MaxPlans <- 1, Credit <- BOOLEAN

-----------------------------------------------------------------------------
LEMMA RacingSpreads == 
    \A open, amount : Racing!Spreads(open, amount) = Raced!Spreads(open, amount)
  BY DEF Racing!SumFunction, Raced!SumFunction, Racing!SumFunctionOnSet,
         Raced!SumFunctionOnSet, Racing!FoldFunctionOnSet, Raced!FoldFunctionOnSet,
         Racing!MapThenFoldSet, Raced!MapThenFoldSet, Racing!Cardinality, Raced!Cardinality,
         Racing!Min, Raced!Min, Racing!Spreads, Raced!Spreads

LEMMA RacingSums == \A f : Racing!SumFunction(f) = Raced!SumFunction(f)
  BY DEF Racing!SumFunction, Raced!SumFunction, Racing!SumFunctionOnSet,
         Raced!SumFunctionOnSet, Racing!FoldFunctionOnSet, Raced!FoldFunctionOnSet,
         Racing!MapThenFoldSet, Raced!MapThenFoldSet

LEMMA RacingPaymentTotals == 
    \A v, statuses : Racing!PaymentTotal(v, statuses) = Raced!PaymentTotal(v, statuses)
  BY DEF Racing!SumFunctionOnSet, Raced!SumFunctionOnSet, Racing!FoldFunctionOnSet,
         Raced!FoldFunctionOnSet, Racing!MapThenFoldSet, Raced!MapThenFoldSet,
         Racing!PaymentTotal, Raced!PaymentTotal

LEMMA RacingAllocations ==
    \A v, p, manual, credit :
        Racing!AllocatePayment(v, p, manual, credit)
            => Raced!AllocatePayment(v, p, manual, credit)
  <1> SUFFICES ASSUME NEW v, NEW p, NEW manual, NEW credit,
                      Racing!AllocatePayment(v, p, manual, credit)
               PROVE  Raced!AllocatePayment(v, p, manual, credit)
    OBVIOUS
  <1> USE DEF Racing!Open, Raced!Open, Racing!At, Raced!At, Racing!Slot, Raced!Slot
  <1>1. /\ pay[p].status \in Raced!Undecided
        /\ Raced!Reconciled(v, p) \/ manual
    BY DEF Racing!AllocatePayment, Racing!Undecided, Raced!Undecided, Racing!Reconciled,
           Raced!Reconciled
  <1>2. pay[p].amount <= Raced!SumFunction(Raced!Open(v.plans)) \/ credit
    BY RacingSums DEF Racing!AllocatePayment
  <1>3. \E share \in Raced!Spreads(Raced!Open(v.plans), pay[p].amount) :
          /\ alloc' = [alloc EXCEPT ![p] = [s \in Raced!Slot |-> @[s] + Raced!At(share, s)]]
          /\ plans' = [plans EXCEPT ![v.plans] = [i \in DOMAIN plans[v.plans] |->
                [plans[v.plans][i] EXCEPT !.paid = @ + Raced!At(share, <<v.plans, i>>)]]]
    BY RacingSpreads DEF Racing!AllocatePayment
  <1>4. /\ pay' = [pay EXCEPT ![p].status = "COMPLETED", ![p].manual = manual]
        /\ status' = IF status = "PAYMENT_PENDING"
                        /\ Raced!PaymentTotal(v, {"COMPLETED"}) >= BookingAmount
                     THEN "VERIFICATION" ELSE status
        /\ UNCHANGED <<refund, charge, cancel, view>>
    BY RacingPaymentTotals DEF Racing!AllocatePayment
  <1>5. ledger' = ledger \cup {Raced!CreditEntry(<<"payment", p>>, pay[p].amount)}
    BY DEF Racing!AllocatePayment, Racing!CreditEntry, Raced!CreditEntry
  <1> QED BY <1>1, <1>2, <1>3, <1>4, <1>5 DEF Raced!AllocatePayment

LEMMA RacingProcesses == \A v, r : Racing!ProcessRefund(v, r) => Raced!ProcessRefund(v, r)
  BY ZenonT(60), RacingSpreads
     DEF Racing!SumFunction, Raced!SumFunction, Racing!SumFunctionOnSet,
         Raced!SumFunctionOnSet, Racing!FoldFunctionOnSet, Raced!FoldFunctionOnSet,
         Racing!MapThenFoldSet, Raced!MapThenFoldSet, Racing!Max, Raced!Max, Racing!Received,
         Raced!Received, Racing!Slot, Raced!Slot, Racing!Debit, Raced!Debit,
         Racing!RefundTotal, Raced!RefundTotal, Racing!At, Raced!At, Racing!Repaid,
         Raced!Repaid, Racing!FullyRefunded, Raced!FullyRefunded, Racing!ProcessRefund,
         Raced!ProcessRefund

LEMMA RacingStarts == Racing!Init => Raced!Init
  BY DEF Racing!SumFunction, Raced!SumFunction, Racing!SumFunctionOnSet,
         Raced!SumFunctionOnSet, Racing!FoldFunctionOnSet, Raced!FoldFunctionOnSet,
         Racing!MapThenFoldSet, Raced!MapThenFoldSet, Racing!Slot, Raced!Slot,
         Racing!Allocated, Raced!Allocated, Racing!Snapshot, Raced!Snapshot, Racing!NewPlan,
         Raced!NewPlan, Racing!PlanTotal, Raced!PlanTotal, Racing!Debit, Raced!Debit,
         Racing!Init, Raced!Init

LEMMA RacingPayments == Racing!PaymentStep => Raced!PaymentStep
  BY RacingAllocations
     DEF Racing!SumFunction, Raced!SumFunction, Racing!SumFunctionOnSet,
         Raced!SumFunctionOnSet, Racing!FoldFunctionOnSet, Raced!FoldFunctionOnSet,
         Racing!MapThenFoldSet, Raced!MapThenFoldSet, Racing!Undecided, Raced!Undecided,
         Racing!Live, Raced!Live, Racing!Allocated, Raced!Allocated, Racing!Snapshot,
         Raced!Snapshot, Racing!Views, Raced!Views, Racing!NewPlan, Raced!NewPlan,
         Racing!PlanTotal, Raced!PlanTotal, Racing!PaymentTotal, Raced!PaymentTotal,
         Racing!Submitted, Raced!Submitted, Racing!CreateBookingPayment,
         Raced!CreateBookingPayment, Racing!CreateCollectionPayment,
         Raced!CreateCollectionPayment, Racing!ReconcilePayment, Raced!ReconcilePayment,
         Racing!FailPayment, Raced!FailPayment, Racing!SetPaymentPlan, Raced!SetPaymentPlan,
         Racing!PaymentStep, Raced!PaymentStep

LEMMA RacingBookings == Racing!BookingStep => Raced!BookingStep
  BY DEF Racing!SumFunction, Raced!SumFunction, Racing!SumFunctionOnSet,
         Raced!SumFunctionOnSet, Racing!FoldFunctionOnSet, Raced!FoldFunctionOnSet,
         Racing!MapThenFoldSet, Raced!MapThenFoldSet, Racing!Undecided, Raced!Undecided,
         Racing!Live, Raced!Live, Racing!FinalBooking, Raced!FinalBooking, Racing!Allocated,
         Raced!Allocated, Racing!Snapshot, Raced!Snapshot, Racing!Views, Raced!Views,
         Racing!PaymentTotal, Raced!PaymentTotal, Racing!MoveBooking, Raced!MoveBooking,
         Racing!AdvanceBooking, Raced!AdvanceBooking, Racing!RequestApproval,
         Raced!RequestApproval, Racing!DecideApproval, Raced!DecideApproval,
         Racing!CancelBooking, Raced!CancelBooking, Racing!BookingStep, Raced!BookingStep

LEMMA RacingCharges == Racing!ChargeStep => Raced!ChargeStep
  BY DEF Racing!Slot, Raced!Slot, Racing!Debit, Raced!Debit, Racing!CreditEntry,
         Raced!CreditEntry, Racing!Open, Raced!Open, Racing!CreateCharge, Raced!CreateCharge,
         Racing!WaiveCharge, Raced!WaiveCharge, Racing!ChargeStep, Raced!ChargeStep

LEMMA RacingRefunds == Racing!RefundStep => Raced!RefundStep
  BY RacingProcesses
     DEF Racing!SumFunction, Raced!SumFunction, Racing!SumFunctionOnSet,
         Raced!SumFunctionOnSet, Racing!FoldFunctionOnSet, Raced!FoldFunctionOnSet,
         Racing!MapThenFoldSet, Raced!MapThenFoldSet, Racing!Undecided, Raced!Undecided,
         Racing!Live, Raced!Live, Racing!Received, Raced!Received, Racing!Allocated,
         Raced!Allocated, Racing!Snapshot, Raced!Snapshot, Racing!Views, Raced!Views,
         Racing!RefundTotal, Raced!RefundTotal, Racing!Committed, Raced!Committed,
         Racing!RequestRefund, Raced!RequestRefund, Racing!DecideRefund, Raced!DecideRefund,
         Racing!RefundStep, Raced!RefundStep

LEMMA RacingCancellations == Racing!CancellationStep => Raced!CancellationStep
  BY DEF Racing!SumFunction, Raced!SumFunction, Racing!SumFunctionOnSet,
         Raced!SumFunctionOnSet, Racing!FoldFunctionOnSet, Raced!FoldFunctionOnSet,
         Racing!MapThenFoldSet, Raced!MapThenFoldSet, Racing!Received, Raced!Received,
         Racing!Allocated, Raced!Allocated, Racing!Snapshot, Raced!Snapshot, Racing!Views,
         Raced!Views, Racing!Debit, Raced!Debit, Racing!CreditEntry, Raced!CreditEntry,
         Racing!PaymentTotal, Raced!PaymentTotal, Racing!RefundTotal, Raced!RefundTotal,
         Racing!PaidAmount, Raced!PaidAmount, Racing!Active, Raced!Active,
         Racing!RequestCancellation, Raced!RequestCancellation, Racing!ReviewCancellation,
         Raced!ReviewCancellation, Racing!DecideCancellation, Raced!DecideCancellation,
         Racing!Settlement, Raced!Settlement, Racing!CompleteCancellation,
         Raced!CompleteCancellation, Racing!CancellationStep, Raced!CancellationStep

LEMMA RacingSteps == Racing!Next => Raced!Next
  BY RacingPayments, RacingBookings, RacingCharges, RacingRefunds, RacingCancellations
     DEF Racing!rows, Raced!rows, Racing!Snapshot, Raced!Snapshot, Racing!Begin, Raced!Begin,
         Racing!Allocated, Raced!Allocated, Racing!SumFunction, Raced!SumFunction,
         Racing!SumFunctionOnSet, Raced!SumFunctionOnSet, Racing!FoldFunctionOnSet,
         Raced!FoldFunctionOnSet, Racing!MapThenFoldSet, Raced!MapThenFoldSet, Racing!Next,
         Raced!Next

LEMMA RacingTypeOK == Raced!TypeOK => Racing!TypeOK
  BY DEF Racing!PaymentStatus, Raced!PaymentStatus, Racing!BookingStatus, Raced!BookingStatus,
         Racing!Slot, Raced!Slot, Racing!PaymentRow, Raced!PaymentRow, Racing!RefundRow,
         Raced!RefundRow, Racing!CancellationRow, Raced!CancellationRow, Racing!ChargeRow,
         Raced!ChargeRow, Racing!Installment, Raced!Installment, Racing!EntryKey,
         Raced!EntryKey, Racing!Entry, Raced!Entry, Racing!ReadView, Raced!ReadView,
         Racing!TypeOK, Raced!TypeOK

LEMMA RacingPaidAgrees == Raced!PaidAgrees => Racing!PaidAgrees
  BY DEF Racing!SumFunction, Raced!SumFunction, Racing!SumFunctionOnSet,
         Raced!SumFunctionOnSet, Racing!FoldFunctionOnSet, Raced!FoldFunctionOnSet,
         Racing!MapThenFoldSet, Raced!MapThenFoldSet, Racing!PaidAgrees, Raced!PaidAgrees

LEMMA RacingLedgerAgrees == Raced!LedgerAgrees => Racing!LedgerAgrees
  BY DEF Racing!SumFunction, Raced!SumFunction, Racing!SumFunctionOnSet,
         Raced!SumFunctionOnSet, Racing!FoldFunctionOnSet, Raced!FoldFunctionOnSet,
         Racing!MapThenFoldSet, Raced!MapThenFoldSet, Racing!Received, Raced!Received,
         Racing!Allocated, Raced!Allocated, Racing!Snapshot, Raced!Snapshot,
         Racing!PaymentTotal, Raced!PaymentTotal, Racing!RefundTotal, Raced!RefundTotal,
         Racing!EntryTotal, Raced!EntryTotal, Racing!ContractOwed, Raced!ContractOwed,
         Racing!ChargesOwed, Raced!ChargesOwed, Racing!LedgerAgrees, Raced!LedgerAgrees

LEMMA RacingApprovedOnVerified == Raced!ApprovedOnVerified => Racing!ApprovedOnVerified
  BY DEF Racing!SumFunction, Raced!SumFunction, Racing!SumFunctionOnSet,
         Raced!SumFunctionOnSet, Racing!FoldFunctionOnSet, Raced!FoldFunctionOnSet,
         Racing!MapThenFoldSet, Raced!MapThenFoldSet, Racing!Received, Raced!Received,
         Racing!Allocated, Raced!Allocated, Racing!Snapshot, Raced!Snapshot,
         Racing!PaymentTotal, Raced!PaymentTotal, Racing!ApprovedOnVerified,
         Raced!ApprovedOnVerified

LEMMA SettlingSpreads == 
    \A open, amount : Settling!Spreads(open, amount) = Settled!Spreads(open, amount)
  BY DEF Settling!SumFunction, Settled!SumFunction, Settling!SumFunctionOnSet,
         Settled!SumFunctionOnSet, Settling!FoldFunctionOnSet, Settled!FoldFunctionOnSet,
         Settling!MapThenFoldSet, Settled!MapThenFoldSet, Settling!Cardinality,
         Settled!Cardinality, Settling!Min, Settled!Min, Settling!Spreads, Settled!Spreads

LEMMA SettlingSums == \A f : Settling!SumFunction(f) = Settled!SumFunction(f)
  BY DEF Settling!SumFunction, Settled!SumFunction, Settling!SumFunctionOnSet,
         Settled!SumFunctionOnSet, Settling!FoldFunctionOnSet, Settled!FoldFunctionOnSet,
         Settling!MapThenFoldSet, Settled!MapThenFoldSet

LEMMA SettlingPaymentTotals == 
    \A v, statuses : Settling!PaymentTotal(v, statuses) = Settled!PaymentTotal(v, statuses)
  BY DEF Settling!SumFunctionOnSet, Settled!SumFunctionOnSet, Settling!FoldFunctionOnSet,
         Settled!FoldFunctionOnSet, Settling!MapThenFoldSet, Settled!MapThenFoldSet,
         Settling!PaymentTotal, Settled!PaymentTotal

LEMMA SettlingAllocations ==
    \A v, p, manual, credit :
        Settling!AllocatePayment(v, p, manual, credit)
            => Settled!AllocatePayment(v, p, manual, credit)
  <1> SUFFICES ASSUME NEW v, NEW p, NEW manual, NEW credit,
                      Settling!AllocatePayment(v, p, manual, credit)
               PROVE  Settled!AllocatePayment(v, p, manual, credit)
    OBVIOUS
  <1> USE DEF Settling!Open, Settled!Open, Settling!At, Settled!At, Settling!Slot, Settled!Slot
  <1>1. /\ pay[p].status \in Settled!Undecided
        /\ Settled!Reconciled(v, p) \/ manual
    BY DEF Settling!AllocatePayment, Settling!Undecided, Settled!Undecided, Settling!Reconciled,
           Settled!Reconciled
  <1>2. pay[p].amount <= Settled!SumFunction(Settled!Open(v.plans)) \/ credit
    BY SettlingSums DEF Settling!AllocatePayment
  <1>3. \E share \in Settled!Spreads(Settled!Open(v.plans), pay[p].amount) :
          /\ alloc' = [alloc EXCEPT ![p] = [s \in Settled!Slot |-> @[s] + Settled!At(share, s)]]
          /\ plans' = [plans EXCEPT ![v.plans] = [i \in DOMAIN plans[v.plans] |->
                [plans[v.plans][i] EXCEPT !.paid = @ + Settled!At(share, <<v.plans, i>>)]]]
    BY SettlingSpreads DEF Settling!AllocatePayment
  <1>4. /\ pay' = [pay EXCEPT ![p].status = "COMPLETED", ![p].manual = manual]
        /\ status' = IF status = "PAYMENT_PENDING"
                        /\ Settled!PaymentTotal(v, {"COMPLETED"}) >= BookingAmount
                     THEN "VERIFICATION" ELSE status
        /\ UNCHANGED <<refund, charge, cancel, view>>
    BY SettlingPaymentTotals DEF Settling!AllocatePayment
  <1>5. ledger' = ledger \cup {Settled!CreditEntry(<<"payment", p>>, pay[p].amount)}
    BY DEF Settling!AllocatePayment, Settling!CreditEntry, Settled!CreditEntry
  <1> QED BY <1>1, <1>2, <1>3, <1>4, <1>5 DEF Settled!AllocatePayment

LEMMA SettlingProcesses == \A v, r : Settling!ProcessRefund(v, r) => Settled!ProcessRefund(v, r)
  BY ZenonT(60), SettlingSpreads
     DEF Settling!SumFunction, Settled!SumFunction, Settling!SumFunctionOnSet,
         Settled!SumFunctionOnSet, Settling!FoldFunctionOnSet, Settled!FoldFunctionOnSet,
         Settling!MapThenFoldSet, Settled!MapThenFoldSet, Settling!Max, Settled!Max,
         Settling!Received, Settled!Received, Settling!Slot, Settled!Slot, Settling!Debit,
         Settled!Debit, Settling!RefundTotal, Settled!RefundTotal, Settling!At, Settled!At,
         Settling!Repaid, Settled!Repaid, Settling!FullyRefunded, Settled!FullyRefunded,
         Settling!ProcessRefund, Settled!ProcessRefund

LEMMA SettlingStarts == Settling!Init => Settled!Init
  BY DEF Settling!SumFunction, Settled!SumFunction, Settling!SumFunctionOnSet,
         Settled!SumFunctionOnSet, Settling!FoldFunctionOnSet, Settled!FoldFunctionOnSet,
         Settling!MapThenFoldSet, Settled!MapThenFoldSet, Settling!Slot, Settled!Slot,
         Settling!Allocated, Settled!Allocated, Settling!Snapshot, Settled!Snapshot,
         Settling!NewPlan, Settled!NewPlan, Settling!PlanTotal, Settled!PlanTotal,
         Settling!Debit, Settled!Debit, Settling!Init, Settled!Init

LEMMA SettlingPayments == Settling!PaymentStep => Settled!PaymentStep
  BY SettlingAllocations
     DEF Settling!SumFunction, Settled!SumFunction, Settling!SumFunctionOnSet,
         Settled!SumFunctionOnSet, Settling!FoldFunctionOnSet, Settled!FoldFunctionOnSet,
         Settling!MapThenFoldSet, Settled!MapThenFoldSet, Settling!Undecided,
         Settled!Undecided, Settling!Live, Settled!Live, Settling!Allocated,
         Settled!Allocated, Settling!Snapshot, Settled!Snapshot, Settling!Views,
         Settled!Views, Settling!NewPlan, Settled!NewPlan, Settling!PlanTotal,
         Settled!PlanTotal, Settling!PaymentTotal, Settled!PaymentTotal, Settling!Submitted,
         Settled!Submitted, Settling!CreateBookingPayment, Settled!CreateBookingPayment,
         Settling!CreateCollectionPayment, Settled!CreateCollectionPayment,
         Settling!ReconcilePayment, Settled!ReconcilePayment, Settling!FailPayment,
         Settled!FailPayment, Settling!SetPaymentPlan, Settled!SetPaymentPlan,
         Settling!PaymentStep, Settled!PaymentStep

LEMMA SettlingBookings == Settling!BookingStep => Settled!BookingStep
  BY DEF Settling!SumFunction, Settled!SumFunction, Settling!SumFunctionOnSet,
         Settled!SumFunctionOnSet, Settling!FoldFunctionOnSet, Settled!FoldFunctionOnSet,
         Settling!MapThenFoldSet, Settled!MapThenFoldSet, Settling!Undecided,
         Settled!Undecided, Settling!Live, Settled!Live, Settling!FinalBooking,
         Settled!FinalBooking, Settling!Allocated, Settled!Allocated, Settling!Snapshot,
         Settled!Snapshot, Settling!Views, Settled!Views, Settling!PaymentTotal,
         Settled!PaymentTotal, Settling!MoveBooking, Settled!MoveBooking,
         Settling!AdvanceBooking, Settled!AdvanceBooking, Settling!RequestApproval,
         Settled!RequestApproval, Settling!DecideApproval, Settled!DecideApproval,
         Settling!CancelBooking, Settled!CancelBooking, Settling!BookingStep,
         Settled!BookingStep

LEMMA SettlingCharges == Settling!ChargeStep => Settled!ChargeStep
  BY DEF Settling!Slot, Settled!Slot, Settling!Debit, Settled!Debit, Settling!CreditEntry,
         Settled!CreditEntry, Settling!Open, Settled!Open, Settling!CreateCharge,
         Settled!CreateCharge, Settling!WaiveCharge, Settled!WaiveCharge, Settling!ChargeStep,
         Settled!ChargeStep

LEMMA SettlingRefunds == Settling!RefundStep => Settled!RefundStep
  BY SettlingProcesses
     DEF Settling!SumFunction, Settled!SumFunction, Settling!SumFunctionOnSet,
         Settled!SumFunctionOnSet, Settling!FoldFunctionOnSet, Settled!FoldFunctionOnSet,
         Settling!MapThenFoldSet, Settled!MapThenFoldSet, Settling!Undecided,
         Settled!Undecided, Settling!Live, Settled!Live, Settling!Received, Settled!Received,
         Settling!Allocated, Settled!Allocated, Settling!Snapshot, Settled!Snapshot,
         Settling!Views, Settled!Views, Settling!RefundTotal, Settled!RefundTotal,
         Settling!Committed, Settled!Committed, Settling!RequestRefund, Settled!RequestRefund,
         Settling!DecideRefund, Settled!DecideRefund, Settling!RefundStep, Settled!RefundStep

LEMMA SettlingCancellations == Settling!CancellationStep => Settled!CancellationStep
  BY DEF Settling!SumFunction, Settled!SumFunction, Settling!SumFunctionOnSet,
         Settled!SumFunctionOnSet, Settling!FoldFunctionOnSet, Settled!FoldFunctionOnSet,
         Settling!MapThenFoldSet, Settled!MapThenFoldSet, Settling!Received, Settled!Received,
         Settling!Allocated, Settled!Allocated, Settling!Snapshot, Settled!Snapshot,
         Settling!Views, Settled!Views, Settling!Debit, Settled!Debit, Settling!CreditEntry,
         Settled!CreditEntry, Settling!PaymentTotal, Settled!PaymentTotal,
         Settling!RefundTotal, Settled!RefundTotal, Settling!PaidAmount, Settled!PaidAmount,
         Settling!Active, Settled!Active, Settling!RequestCancellation,
         Settled!RequestCancellation, Settling!ReviewCancellation, Settled!ReviewCancellation,
         Settling!DecideCancellation, Settled!DecideCancellation, Settling!Settlement,
         Settled!Settlement, Settling!CompleteCancellation, Settled!CompleteCancellation,
         Settling!CancellationStep, Settled!CancellationStep

LEMMA SettlingSteps == Settling!Next => Settled!Next
  BY SettlingPayments, SettlingBookings, SettlingCharges, SettlingRefunds, SettlingCancellations
     DEF Settling!rows, Settled!rows, Settling!Snapshot, Settled!Snapshot, Settling!Begin,
         Settled!Begin, Settling!Allocated, Settled!Allocated, Settling!SumFunction,
         Settled!SumFunction, Settling!SumFunctionOnSet, Settled!SumFunctionOnSet,
         Settling!FoldFunctionOnSet, Settled!FoldFunctionOnSet, Settling!MapThenFoldSet,
         Settled!MapThenFoldSet, Settling!Next, Settled!Next

LEMMA SettlingTypeOK == Settled!TypeOK => Settling!TypeOK
  BY DEF Settling!PaymentStatus, Settled!PaymentStatus, Settling!BookingStatus,
         Settled!BookingStatus, Settling!Slot, Settled!Slot, Settling!PaymentRow,
         Settled!PaymentRow, Settling!RefundRow, Settled!RefundRow, Settling!CancellationRow,
         Settled!CancellationRow, Settling!ChargeRow, Settled!ChargeRow, Settling!Installment,
         Settled!Installment, Settling!EntryKey, Settled!EntryKey, Settling!Entry,
         Settled!Entry, Settling!ReadView, Settled!ReadView, Settling!TypeOK, Settled!TypeOK

LEMMA SettlingPaidAgrees == Settled!PaidAgrees => Settling!PaidAgrees
  BY DEF Settling!SumFunction, Settled!SumFunction, Settling!SumFunctionOnSet,
         Settled!SumFunctionOnSet, Settling!FoldFunctionOnSet, Settled!FoldFunctionOnSet,
         Settling!MapThenFoldSet, Settled!MapThenFoldSet, Settling!PaidAgrees,
         Settled!PaidAgrees

LEMMA SettlingLedgerAgrees == Settled!LedgerAgrees => Settling!LedgerAgrees
  BY DEF Settling!SumFunction, Settled!SumFunction, Settling!SumFunctionOnSet,
         Settled!SumFunctionOnSet, Settling!FoldFunctionOnSet, Settled!FoldFunctionOnSet,
         Settling!MapThenFoldSet, Settled!MapThenFoldSet, Settling!Received, Settled!Received,
         Settling!Allocated, Settled!Allocated, Settling!Snapshot, Settled!Snapshot,
         Settling!PaymentTotal, Settled!PaymentTotal, Settling!RefundTotal,
         Settled!RefundTotal, Settling!EntryTotal, Settled!EntryTotal, Settling!ContractOwed,
         Settled!ContractOwed, Settling!ChargesOwed, Settled!ChargesOwed,
         Settling!LedgerAgrees, Settled!LedgerAgrees

LEMMA SettlingRefundsTold == Settled!RefundsTold => Settling!RefundsTold
  BY DEF Settling!SumFunction, Settled!SumFunction, Settling!SumFunctionOnSet,
         Settled!SumFunctionOnSet, Settling!FoldFunctionOnSet, Settled!FoldFunctionOnSet,
         Settling!MapThenFoldSet, Settled!MapThenFoldSet, Settling!Received, Settled!Received,
         Settling!Allocated, Settled!Allocated, Settling!Snapshot, Settled!Snapshot,
         Settling!RefundTotal, Settled!RefundTotal, Settling!RefundedOf, Settled!RefundedOf,
         Settling!RefundsTold, Settled!RefundsTold

-----------------------------------------------------------------------------
(***************************************************************************)
(* What the parameters of the two instances satisfy.                       *)
(***************************************************************************)
LEMMA Finite ==
    ASSUME NEW S, IsFiniteSet(S)
    PROVE  Raced!IsFiniteSet(S) /\ Settled!IsFiniteSet(S)
  BY DEF IsFiniteSet, Raced!IsFiniteSet, Settled!IsFiniteSet

LEMMA Scheduled ==
    \A s \in Halves \cup HalvesOrShort : s \in Seq(Nat) /\ Len(s) \in 1..MaxInstallments
  <1>1. <<1, 1>> \in Seq(Nat) /\ Len(<<1, 1>>) = 2 /\ <<1>> \in Seq(Nat) /\ Len(<<1>>) = 1
    OBVIOUS
  <1>2. 1 \in 1..MaxInstallments /\ 2 \in 1..MaxInstallments
    BY AccountsAssumption, BoundsAssumption
  <1> QED BY <1>1, <1>2 DEF Halves, HalvesOrShort

LEMMA RacedConditions ==
    /\ Price \in Nat \ {0} /\ BookingAmount \in Nat
    /\ {1} \subseteq Nat \ {0}
    /\ \A s \in Halves : s \in Seq(Nat) /\ Len(s) \in 1..MaxInstallments
    /\ MaxPlans \in Nat \ {0} /\ MaxInstallments \in Nat
    /\ Credit \subseteq BOOLEAN
    /\ None \notin Payment /\ Payment \cap Cancellation = {}
    /\ Raced!IsFiniteSet(Payment) /\ Raced!IsFiniteSet(Single)
    /\ Raced!IsFiniteSet(Charge) /\ Raced!IsFiniteSet(Cancellation)
  BY Finite, Scheduled, AccountsAssumption, PriceAssumption, BoundsAssumption,
     CreditAssumption, SourcesDisjoint, RowsFinite

LEMMA SettledConditions ==
    /\ Price \in Nat \ {0} /\ BookingAmount \in Nat
    /\ Amounts \subseteq Nat \ {0}
    /\ \A s \in HalvesOrShort : s \in Seq(Nat) /\ Len(s) \in 1..MaxInstallments
    /\ 1 \in Nat \ {0} /\ MaxInstallments \in Nat
    /\ BOOLEAN \subseteq BOOLEAN
    /\ None \notin Single /\ Single \cap Pair = {}
    /\ Settled!IsFiniteSet(Single) /\ Settled!IsFiniteSet(Refund)
    /\ Settled!IsFiniteSet(Pair)
  BY Finite, Scheduled, AccountsAssumption, PriceAssumption, AmountsAssumption,
     BoundsAssumption, RowsFinite

-----------------------------------------------------------------------------
(***************************************************************************)
(* A step is a step of the kind the behaviour is of.                       *)
(***************************************************************************)
LEMMA KindStays == ASSUME [AccountNext]_<<kind, vars>> PROVE kind' = kind
  BY DEF AccountNext

LEMMA SerialSteps ==
    ASSUME [AccountNext]_<<kind, vars>>, kind = "serial"
    PROVE  [Next]_vars
  BY DEF AccountNext

LEMMA RacedSteps ==
    ASSUME [AccountNext]_<<kind, vars>>, kind = "races"
    PROVE  [Raced!Next]_(Raced!vars)
  BY RacingSteps DEF AccountNext, vars, rows, Raced!vars, Raced!rows

LEMMA SettledSteps ==
    ASSUME [AccountNext]_<<kind, vars>>, kind = "settlement"
    PROVE  [Settled!Next]_(Settled!vars)
  BY SettlingSteps DEF AccountNext, vars, rows, Settled!vars, Settled!rows

LEMMA Starts ==
    AccountInit => /\ kind = "serial" => Init
                   /\ kind = "races" => Raced!Init
                   /\ kind = "settlement" => Settled!Init
  BY RacingStarts, SettlingStarts DEF AccountInit

-----------------------------------------------------------------------------
(* The rows are of their types and refer to rows that are there, whatever  *)
(* the order of requests and however old their reads.                      *)
THEOREM AccountsTyped == AccountSpec => []AccountTypeOK
  <1> DEFINE IInv == /\ kind \in {"serial", "races", "settlement"}
                     /\ kind = "serial" => TypeInv
                     /\ kind = "races" => Raced!TypeInv
                     /\ kind = "settlement" => Settled!TypeInv
  <1>1. AccountInit => IInv
    BY Starts, RacedConditions, SettledConditions, TypeInit, Raced!TypeInit, Settled!TypeInit
       DEF AccountInit
  <1>2. ASSUME IInv, [AccountNext]_<<kind, vars>> PROVE IInv'
    <2>1. ASSUME kind = "serial" PROVE TypeInv'
      BY <1>2, <2>1, SerialSteps, TypeStep
    <2>2. ASSUME kind = "races" PROVE Raced!TypeInv'
      BY <1>2, <2>2, RacedSteps, RacedConditions, Raced!TypeStep
    <2>3. ASSUME kind = "settlement" PROVE Settled!TypeInv'
      BY <1>2, <2>3, SettledSteps, SettledConditions, Settled!TypeStep
    <2> QED BY <1>2, <2>1, <2>2, <2>3, KindStays
  <1>3. IInv => AccountTypeOK
    BY RacingTypeOK, SettlingTypeOK DEF AccountTypeOK, TypeInv, Raced!TypeInv, Settled!TypeInv
  <1> QED BY <1>1, <1>2, <1>3, PTL DEF AccountSpec

(* Requests that follow one another use a payment's money once: what still *)
(* pays installments and what was given back never exceed it, and neither  *)
(* do the refunds asked for (request_refund, process_refund).              *)
THEOREM AccountsUsedOnce == AccountSpec => []MoneyUsedOnce
  <1> DEFINE IInv == kind = "serial" => SpentInv
  <1>1. AccountInit => IInv
    BY Starts, SpentStart
  <1>2. ASSUME IInv, [AccountNext]_<<kind, vars>> PROVE IInv'
    <2>1. ASSUME kind = "serial" PROVE SpentInv'
      BY <1>2, <2>1, SerialSteps, AccountsAssumption, SpentStep
    <2> QED BY <1>2, <2>1, KindStays
  <1>3. IInv => MoneyUsedOnce
    BY DEF SpentInv, MoneyUsedOnce
  <1> QED BY <1>1, <1>2, <1>3, PTL DEF AccountSpec

(* Requests that follow one another verify a payment on a match or with an *)
(* override on record (allocate_payment).                                  *)
THEOREM AccountsOnEvidence == AccountSpec => []MoneyOnEvidence
  <1> DEFINE IInv == kind = "serial" => MoneyInv /\ VerifiedOnEvidence
  <1>1. AccountInit => IInv
    BY Starts, MoneyStart DEF Init, VerifiedOnEvidence, Received
  <1>2. ASSUME IInv, [AccountNext]_<<kind, vars>> PROVE IInv'
    <2>1. ASSUME kind = "serial" PROVE (MoneyInv /\ VerifiedOnEvidence)'
      BY <1>2, <2>1, SerialSteps, AccountsAssumption, MoneyStep, EvidenceStep
    <2> QED BY <1>2, <2>1, KindStays
  <1>3. IInv => MoneyOnEvidence
    BY DEF MoneyOnEvidence
  <1> QED BY <1>1, <1>2, <1>3, PTL DEF AccountSpec

(* Where requests follow one another, also in the settlement of a cancelled *)
(* sale, a refunded payment pays no installment any more, and one that was  *)
(* given back in full is called refunded (process_refund).                  *)
THEOREM AccountsRefunded == AccountSpec => []MoneyRefunded
  <1> DEFINE IInv == /\ kind = "serial" => ToldInv
                     /\ kind = "settlement" => Settled!ToldInv
  <1>1. AccountInit => IInv
    BY Starts, SettledConditions, ToldStart, Settled!ToldStart
  <1>2. ASSUME IInv, [AccountNext]_<<kind, vars>> PROVE IInv'
    <2>1. ASSUME kind = "serial" PROVE ToldInv'
      BY <1>2, <2>1, SerialSteps, AccountsAssumption, ToldStep
    <2>2. ASSUME kind = "settlement" PROVE Settled!ToldInv'
      BY <1>2, <2>2, SettledSteps, SettledConditions, AccountsAssumption, Settled!ToldStep
    <2> QED BY <1>2, <2>1, <2>2, KindStays
  <1>3. IInv => MoneyRefunded
    BY SettlingRefundsTold DEF MoneyRefunded, ToldInv, Settled!ToldInv
  <1> QED BY <1>1, <1>2, <1>3, PTL DEF AccountSpec

(* An installment counts as paid what active allocations put on it, and    *)
(* never more than it asks for, also when requests race and after a        *)
(* cancellation.                                                           *)
THEOREM AccountsPaid == AccountSpec => []InstallmentsAgree
  <1> DEFINE IInv == /\ kind = "races" => Raced!PaidInv
                     /\ kind = "settlement" => Settled!PaidInv
  <1>1. AccountInit => IInv
    BY Starts, RacedConditions, SettledConditions, Raced!PaidStart, Settled!PaidStart
  <1>2. ASSUME IInv, [AccountNext]_<<kind, vars>> PROVE IInv'
    <2>1. ASSUME kind = "races" PROVE Raced!PaidInv'
      BY <1>2, <2>1, RacedSteps, RacedConditions, Raced!PaidStep
    <2>2. ASSUME kind = "settlement" PROVE Settled!PaidInv'
      BY <1>2, <2>2, SettledSteps, SettledConditions, Settled!PaidStep
    <2> QED BY <1>2, <2>1, <2>2, KindStays
  <1>3. IInv => InstallmentsAgree
    BY RacingPaidAgrees, SettlingPaidAgrees
       DEF InstallmentsAgree, Raced!PaidInv, Settled!PaidInv
  <1> QED BY <1>1, <1>2, <1>3, PTL DEF AccountSpec

(* The balance the ledger shows is what the booking, its charges, payments,*)
(* refunds and cancellations say is owed, also when requests race and when *)
(* a cancelled sale is settled (finance.py, complete_cancellation).        *)
THEOREM AccountsBalanced == AccountSpec => []BalanceAgrees
  <1> DEFINE IInv == /\ kind = "races" => Raced!BalanceInv
                     /\ kind = "settlement" => Settled!BalanceInv
  <1>1. AccountInit => IInv
    BY Starts, RacedConditions, SettledConditions, Raced!BalanceStart, Settled!BalanceStart
  <1>2. ASSUME IInv, [AccountNext]_<<kind, vars>> PROVE IInv'
    <2>1. ASSUME kind = "races" PROVE Raced!BalanceInv'
      BY <1>2, <2>1, RacedSteps, RacedConditions, Raced!BalanceStep
    <2>2. ASSUME kind = "settlement" PROVE Settled!BalanceInv'
      BY <1>2, <2>2, SettledSteps, SettledConditions, Settled!BalanceStep
    <2> QED BY <1>2, <2>1, <2>2, KindStays
  <1>3. IInv => BalanceAgrees
    BY RacingLedgerAgrees, SettlingLedgerAgrees
       DEF BalanceAgrees, Raced!BalanceInv, Settled!BalanceInv
  <1> QED BY <1>1, <1>2, <1>3, PTL DEF AccountSpec

(* However payments and approvals race, a booking is up for approval or    *)
(* sold only once the booking amount had been verified (request_approval). *)
THEOREM AccountsApproved == AccountSpec => []SoldOnVerified
  <1> DEFINE IInv == kind = "races" => Raced!SoldInv
  <1>1. AccountInit => IInv
    BY Starts, RacedConditions, Raced!SoldStart
  <1>2. ASSUME IInv, [AccountNext]_<<kind, vars>> PROVE IInv'
    <2>1. ASSUME kind = "races" PROVE Raced!SoldInv'
      BY <1>2, <2>1, RacedSteps, RacedConditions, Raced!SoldStep
    <2> QED BY <1>2, <2>1, KindStays
  <1>3. IInv => SoldOnVerified
    BY RacingApprovedOnVerified DEF SoldOnVerified, Raced!SoldInv
  <1> QED BY <1>1, <1>2, <1>3, PTL DEF AccountSpec
=============================================================================
