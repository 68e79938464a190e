------------------------------ MODULE Transfers ------------------------------
(***************************************************************************)
(* services/post_sales.py, as far as units go: a sale that moves to another *)
(* unit, and a sale that is cancelled, each asked for, reviewed, decided   *)
(* and completed by several people over days, while units are held, booked *)
(* and sold as UnitInventory has it.                                       *)
(*                                                                         *)
(* An action is one request, at its commit.  What a transfer and a         *)
(* cancellation do to payments, plans, commissions and the ledger is left  *)
(* out: completion also asks that the payments are those reviewed and the  *)
(* quotation the one accepted, which only narrows what happens here.       *)
(***************************************************************************)
EXTENDS UnitInventory

CONSTANTS Transfer, Cancellation   \* identities for the requests made over time

VARIABLES
    transfer,      \* unit_transfers; `hands' are those who asked and reviewed
    cancellation   \* cancellations

WorkflowStatus == {"NONE", "REQUESTED", "UNDER_REVIEW", "APPROVED", "REJECTED", "COMPLETED"}

(* The statuses in which active_booking_key holds the booking.             *)
Pending == {"REQUESTED", "UNDER_REVIEW", "APPROVED"}

TransferRow == [booking: Booking \cup {None}, from: Unit \cup {None}, to: Unit \cup {None},
                hands: SUBSET User, status: WorkflowStatus]
CancellationRow == [booking: Booking \cup {None}, hands: SUBSET User, status: WorkflowStatus]

SalesTypeOK ==
    /\ TypeOK
    /\ transfer \in [Transfer -> TransferRow]
    /\ cancellation \in [Cancellation -> CancellationRow]
    (* a request names what it is about *)
    /\ \A t \in Transfer : transfer[t].status # "NONE" =>
          /\ transfer[t].booking \in Booking
          /\ transfer[t].from \in Unit /\ transfer[t].to \in Unit
    /\ \A c \in Cancellation : cancellation[c].status # "NONE" => cancellation[c].booking \in Booking

SalesInit ==
    /\ Init
    /\ transfer = [t \in Transfer |->
          [booking |-> None, from |-> None, to |-> None, hands |-> {}, status |-> "NONE"]]
    /\ cancellation = [c \in Cancellation |-> [booking |-> None, hands |-> {}, status |-> "NONE"]]

(* Somebody who neither asked for the request nor reviewed it decides.     *)
Reviewed(row, actor) == [row EXCEPT !.status = "UNDER_REVIEW", !.hands = @ \cup {actor}]
Verdicts == {"APPROVED", "REJECTED"}
MayDecide(row, actor) == row.status = "UNDER_REVIEW" /\ actor \notin row.hands

-----------------------------------------------------------------------------
(* Transfers.                                                              *)

(* _unit_is_available: a hold counts although it is overdue.               *)
Available(u) ==
    /\ unit[u] = "AVAILABLE"
    /\ \A h \in HoldsKeyedTo(u) : hold[h].status \notin Reserving
    /\ BookingsKeyedTo(u) = {}

RequestTransfer(t, b, u, actor) ==
    /\ transfer[t].status = "NONE"
    /\ booking[b].status = "CONFIRMED"
    /\ u # booking[b].unit /\ Available(u)
    /\ \A s \in Transfer : transfer[s].booking = b => transfer[s].status \notin Pending
    /\ transfer' = [transfer EXCEPT ![t] =
          [booking |-> b, from |-> booking[b].unit, to |-> u, hands |-> {actor},
           status |-> "REQUESTED"]]
    /\ UNCHANGED <<vars, cancellation>>

ReviewTransfer(t, actor) ==
    /\ transfer[t].status = "REQUESTED"
    /\ Available(transfer[t].to)
    /\ transfer' = [transfer EXCEPT ![t] = Reviewed(@, actor)]
    /\ UNCHANGED <<vars, cancellation>>

DecideTransfer(t, actor, verdict) ==
    /\ MayDecide(transfer[t], actor)
    /\ transfer' = [transfer EXCEPT ![t].status = verdict]
    /\ UNCHANGED <<vars, cancellation>>

(* The booking, its old unit and its new one are locked.                   *)
Transferable(b, from, to) ==
    /\ booking[b].status = "CONFIRMED"
    /\ booking[b].unit = from /\ booking[b].key
    /\ unit[from] \in {"BOOKED", "SOLD"}
    /\ Available(to)

(* mutant: the old unit is not released                                    *)
CompleteTransfer_KeepsOld(t) ==
    LET b == transfer[t].booking  to == transfer[t].to IN
    /\ transfer[t].status = "APPROVED" /\ Transferable(b, transfer[t].from, to)
    /\ unit' = [unit EXCEPT ![to] = "BOOKED"]
    /\ booking' = [booking EXCEPT ![b].unit = to]
    /\ transfer' = [transfer EXCEPT ![t].status = "COMPLETED"]
    /\ UNCHANGED <<hold, approval, view, trespassed, cancellation>>

CompleteTransfer(t) ==
    LET b == transfer[t].booking  from == transfer[t].from  to == transfer[t].to IN
    /\ transfer[t].status = "APPROVED"
    /\ Transferable(b, from, to)
    /\ unit' = [unit EXCEPT ![from] = "CANCELLED_RELEASED", ![to] = "BOOKED"]
    /\ booking' = [booking EXCEPT ![b].unit = to]
    /\ transfer' = [transfer EXCEPT ![t].status = "COMPLETED"]
    /\ UNCHANGED <<hold, approval, view, trespassed, cancellation>>

-----------------------------------------------------------------------------
(* Cancellations of sales.  A transfer that is under way stays so.         *)

RequestCancellation(c, b, actor) ==
    /\ cancellation[c].status = "NONE"
    /\ booking[b].status = "CONFIRMED"
    /\ \A d \in Cancellation : cancellation[d].booking = b => cancellation[d].status \notin Pending
    /\ cancellation' = [cancellation EXCEPT ![c] =
          [booking |-> b, hands |-> {actor}, status |-> "REQUESTED"]]
    /\ UNCHANGED <<vars, transfer>>

ReviewCancellation(c, actor) ==
    /\ cancellation[c].status = "REQUESTED"
    /\ cancellation' = [cancellation EXCEPT ![c] = Reviewed(@, actor)]
    /\ UNCHANGED <<vars, transfer>>

DecideCancellation(c, actor, verdict) ==
    /\ MayDecide(cancellation[c], actor)
    /\ cancellation' = [cancellation EXCEPT ![c].status = verdict]
    /\ UNCHANGED <<vars, transfer>>

CompleteCancellation(c) ==
    LET b == cancellation[c].booking  u == booking[b].unit IN
    /\ cancellation[c].status = "APPROVED"
    /\ booking[b].status = "CONFIRMED" /\ booking[b].key
    /\ unit[u] \in {"BOOKED", "SOLD"}
    /\ booking' = [booking EXCEPT ![b] = Ended(@, "CANCELLED")]
    /\ unit' = [unit EXCEPT ![u] = "CANCELLED_RELEASED"]
    /\ cancellation' = [cancellation EXCEPT ![c].status = "COMPLETED"]
    /\ UNCHANGED <<hold, approval, view, trespassed, transfer>>

-----------------------------------------------------------------------------
(* The inventory goes on; the foreign keys of transfers keep their units.  *)
InventoryStep ==
    /\ Next
    /\ \A t \in Transfer : transfer[t].status # "NONE" => unit'[transfer[t].to] # "NONE"
    /\ UNCHANGED <<transfer, cancellation>>

TransferStep ==
    \/ \E t \in Transfer, b \in Booking, u \in Unit, actor \in User : RequestTransfer(t, b, u, actor)
    \/ \E t \in Transfer, actor \in User :
          \/ ReviewTransfer(t, actor)
          \/ \E verdict \in Verdicts : DecideTransfer(t, actor, verdict)
    \/ \E t \in Transfer : CompleteTransfer(t)

CancellationStep ==
    \/ \E c \in Cancellation, b \in Booking, actor \in User : RequestCancellation(c, b, actor)
    \/ \E c \in Cancellation, actor \in User :
          \/ ReviewCancellation(c, actor)
          \/ \E verdict \in Verdicts : DecideCancellation(c, actor, verdict)
    \/ \E c \in Cancellation : CompleteCancellation(c)

SalesNext == InventoryStep \/ TransferStep \/ CancellationStep

SalesSpec == SalesInit /\ [][SalesNext]_<<vars, transfer, cancellation>>

-----------------------------------------------------------------------------
(* A sale has its unit, wherever transfers took it, until it is cancelled: *)
(* it holds the unit's key, alone; a transfer that is under way starts     *)
(* where the sale is; and every unit, the ones that sales left included,   *)
(* agrees with its claimant.                                               *)
SalesKept ==
    /\ \A b \in Booking : booking[b].status = "CONFIRMED" => booking[b].key
    /\ \A t \in Transfer :
          transfer[t].status \in Pending /\ booking[transfer[t].booking].status = "CONFIRMED" =>
             booking[transfer[t].booking].unit = transfer[t].from
    /\ KeysAgree
    /\ ClaimsAgree
=============================================================================
