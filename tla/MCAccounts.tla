------------------------------ MODULE MCAccounts ------------------------------
(***************************************************************************)
(* The money of one booking with the values TLC checks it on.  Each        *)
(* behaviour is of one kind: requests that follow one another; requests    *)
(* that race, one of them with old reads; the settlement of a sale that is *)
(* cancelled.                                                              *)
(***************************************************************************)
EXTENDS BookingAccount, TLC

CONSTANTS Single,  \* the identity of a row where there is one, whatever it is of
          Pair     \* where there are two

VARIABLE kind

Halves == {<<1, 1>>}
HalvesOrWhole == {<<1, 1>>, <<2>>}
HalvesOrShort == {<<1, 1>>, <<1>>}

Racing == INSTANCE BookingAccount WITH
    Refund <- Single, Session <- Single, Amounts <- {1}, Schedules <- Halves
Settling == INSTANCE BookingAccount WITH
    Payment <- Single, Charge <- Single, Cancellation <- Pair, Schedules <- HalvesOrShort,
    MaxPlans <- 1, Credit <- BOOLEAN

(* One after the other, no request has old reads; and rows of a kind are    *)
(* not rows of another.                                                     *)
ASSUME AccountsAssumption ==
    /\ Session = {} /\ MaxInstallments > 1
    /\ IsFiniteSet(Single) /\ IsFiniteSet(Pair)
    /\ None \notin Single /\ Single \cap Pair = {}

AccountInit ==
    /\ kind \in {"serial", "races", "settlement"}
    /\ CASE kind = "serial" -> Init
         [] kind = "races" -> Racing!Init
         [] kind = "settlement" -> Settling!Init

AccountNext ==
    /\ UNCHANGED kind
    /\ \/ kind = "serial" /\ Next
       \/ kind = "races" /\ Racing!Next
       \/ kind = "settlement" /\ Settling!Next

AccountSpec == AccountInit /\ [][AccountNext]_<<kind, vars>>

Symmetry == Permutations(Payment) \cup Permutations(Refund)

-----------------------------------------------------------------------------
(* The properties of BookingAccount, each where it is meant to hold.       *)

(* The rows are of their types, and refer to rows that are there.          *)
AccountTypeOK ==
    CASE kind = "serial" -> TypeOK
      [] kind = "races" -> Racing!TypeOK
      [] kind = "settlement" -> Settling!TypeOK

(* A payment's money is used once, as long as requests follow one another. *)
MoneyUsedOnce == kind = "serial" => UsedOnce

(* Nothing is verified without a match or an override on record.           *)
MoneyOnEvidence == kind = "serial" => VerifiedOnEvidence

(* A payment is called refunded exactly when it was, as long as requests   *)
(* follow one another, and also when a cancelled sale is settled.          *)
MoneyRefunded ==
    /\ kind = "serial" => RefundsTold
    /\ kind = "settlement" => Settling!RefundsTold

(* An installment counts as paid what active allocations put on it, also   *)
(* when requests race, and after a cancellation.                           *)
InstallmentsAgree ==
    /\ kind = "races" => Racing!PaidAgrees
    /\ kind = "settlement" => Settling!PaidAgrees

(* The balance shown is what is owed, also when requests race, and when a  *)
(* cancelled sale is settled.                                              *)
BalanceAgrees ==
    /\ kind = "races" => Racing!LedgerAgrees
    /\ kind = "settlement" => Settling!LedgerAgrees

(* However payments and approvals race, a sale goes up for approval only   *)
(* on money that was verified.                                             *)
SoldOnVerified == kind = "races" => Racing!ApprovedOnVerified
=============================================================================
