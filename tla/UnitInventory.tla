---------------------------- MODULE UnitInventory ----------------------------
(***************************************************************************)
(* Units, the holds that reserve them and the bookings that sell them:    *)
(* services/inventory.py, the unit-touching half of services/bookings.py, *)
(* and the hold-expiry worker.                                            *)
(*                                                                         *)
(* One action is one request handler (or one pass of the worker), taken at *)
(* the moment its transaction commits.  That is sound because every row a *)
(* handler writes it first selects FOR UPDATE and keeps locked.  What a    *)
(* handler may have read EARLIER is the read view of its session: under   *)
(* MySQL's default isolation level a plain SELECT, and an ORM object first *)
(* loaded by one, show the database as it was when the request's first    *)
(* query ran, which is the authentication query.  Handlers that decide on *)
(* such reads take that view as a parameter v.                             *)
(***************************************************************************)
EXTENDS Naturals, Sequences

CONSTANTS
    Unit,          \* the units an organization may list
    Hold,          \* identities for the holds requested over time
    Booking,       \* identities for the bookings made over time
    Customer,
    User,          \* staff: salespeople and approvers, all active
    Session,       \* concurrent requests whose read view may be old
    MaxApprovers,  \* the longest approver list a request may carry
    None           \* SQL NULL

ASSUME NoneAssumption == None \notin Unit \cup Customer \cup User
ASSUME MaxApproversAssumption == MaxApprovers \in Nat \ {0}

HoldType == {"SOFT_HOLD", "HARD_HOLD"}
UnitStatus == {"NONE", "AVAILABLE", "BOOKING_INITIATED", "BOOKED", "SOLD",
               "CANCELLED_RELEASED"} \cup HoldType
Reserving == {"PENDING_APPROVAL", "ACTIVE"}
HoldStatus == {"NONE", "REJECTED", "RELEASED", "EXPIRED", "CONVERTED"} \cup Reserving
Open == {"DRAFT", "DOCUMENTATION_PENDING", "PAYMENT_PENDING", "VERIFICATION", "APPROVAL"}
Final == {"CONFIRMED", "REJECTED", "CANCELLED"}
BookingStatus == {"NONE"} \cup Open \cup Final
ApprovalStatus == {"PENDING", "APPROVED", "REJECTED", "CANCELLED"}

(* A row whose status is "NONE" has not been inserted yet.                 *)
(* `key' is active_unit_key: TRUE when the column holds the row's unit.   *)
HoldRow == [unit: Unit \cup {None}, customer: Customer \cup {None},
            holder: User \cup {None}, type: HoldType \cup {None},
            status: HoldStatus, key: BOOLEAN, due: BOOLEAN]
BookingRow == [unit: Unit \cup {None}, customer: Customer \cup {None},
               flow: BOOLEAN, status: BookingStatus, key: BOOLEAN]
ApprovalRow == [approver: User, status: ApprovalStatus]

NoHold == [unit |-> None, customer |-> None, holder |-> None, type |-> None,
           status |-> "NONE", key |-> FALSE, due |-> FALSE]
NoBooking == [unit |-> None, customer |-> None, flow |-> FALSE,
              status |-> "NONE", key |-> FALSE]

VARIABLES
    unit,        \* units.status, "NONE" when the unit is not listed
    hold,        \* unit_holds
    booking,     \* bookings
    approval,    \* booking_approvals of a booking, by step number
    view,        \* what each session's transaction saw when it began
    trespassed   \* history: units whose status was once written on behalf of
                 \* a booking that no longer held the unit, over a live claim

rows == <<unit, hold, booking, approval>>
vars == <<unit, hold, booking, approval, view, trespassed>>

(* The columns a plain read shows and a handler goes on to use.            *)
ReadView == [holdStatus: [Hold -> HoldStatus], booking: [Booking -> BookingRow],
             approval: [Booking -> Seq(ApprovalRow)]]
Snapshot == [holdStatus |-> [h \in Hold |-> hold[h].status],
             booking |-> booking, approval |-> approval]

(* A request either runs undisturbed, reading what is there, or reads the *)
(* view its session took when it began.                                   *)
Views == {Snapshot} \cup {view[s] : s \in Session}

TypeOK ==
    /\ unit \in [Unit -> UnitStatus]
    /\ hold \in [Hold -> HoldRow]
    /\ booking \in [Booking -> BookingRow]
    /\ approval \in [Booking -> Seq(ApprovalRow)]
    /\ view \in [Session -> ReadView]
    /\ trespassed \in SUBSET Unit

Init ==
    /\ unit = [u \in Unit |-> "NONE"]
    /\ hold = [h \in Hold |-> NoHold]
    /\ booking = [b \in Booking |-> NoBooking]
    /\ approval = [b \in Booking |-> << >>]
    /\ view = [s \in Session |-> Snapshot]
    /\ trespassed = {}

-----------------------------------------------------------------------------
(* What a unit's claimants are.                                            *)

HoldsKeyedTo(u) == {h \in Hold : hold[h].key /\ hold[h].unit = u}
BookingsKeyedTo(u) == {b \in Booking : booking[b].key /\ booking[b].unit = u}
Claimed(u) == HoldsKeyedTo(u) # {} \/ BookingsKeyedTo(u) # {}

(* The reserving hold _expire_hold finds on a unit, split by the clock.    *)
OverdueOn(u) ==
    {h \in Hold : hold[h].unit = u /\ hold[h].status \in Reserving /\ hold[h].due}
ValidOn(u) ==
    {h \in Hold : hold[h].unit = u /\ hold[h].status \in Reserving /\ ~hold[h].due}

(* A hold or booking row that gives up the unit's key.                     *)
Ended(row, status) == [row EXCEPT !.status = status, !.key = FALSE]

(* The tables after the holds in H are marked expired, as the first thing *)
(* a handler does on the unit it locked.                                   *)
HoldsExpiring(H) ==
    [h \in Hold |-> IF h \in H THEN Ended(hold[h], "EXPIRED")
                               ELSE hold[h]]

UnitsExpiring(H) ==
    [u \in Unit |-> IF unit[u] \in HoldType /\ (\E h \in H : hold[h].unit = u)
                    THEN "AVAILABLE" ELSE unit[u]]

(* A booking without the unit's key that writes the unit's status disturbs *)
(* whoever holds it now.                                                   *)
Trespass(b, u) == IF ~booking[b].key /\ Claimed(u) THEN trespassed \cup {u}
                                                   ELSE trespassed

CancelPending(steps) ==
    [i \in DOMAIN steps |-> IF steps[i].status = "PENDING"
                            THEN [steps[i] EXCEPT !.status = "CANCELLED"]
                            ELSE steps[i]]

-----------------------------------------------------------------------------
(* Requests begin, holds fall due.                                         *)

Begin(s) ==
    /\ view' = [view EXCEPT ![s] = Snapshot]
    /\ UNCHANGED <<rows, trespassed>>

FallDue(h) ==
    /\ hold[h].status \in Reserving
    /\ ~hold[h].due
    /\ hold' = [hold EXCEPT ![h].due = TRUE]
    /\ UNCHANGED <<unit, booking, approval, view, trespassed>>

-----------------------------------------------------------------------------
(* Units.                                                                  *)

CreateUnit(u) ==
    /\ unit[u] = "NONE"
    /\ unit' = [unit EXCEPT ![u] = "AVAILABLE"]
    /\ UNCHANGED <<hold, booking, approval, view, trespassed>>

(* The foreign keys of holds and bookings keep a unit they ever named.     *)
DeleteUnit(u) ==
    /\ unit[u] \in {"AVAILABLE", "CANCELLED_RELEASED"}
    /\ \A h \in Hold : hold[h].unit # u
    /\ \A b \in Booking : booking[b].unit # u
    /\ unit' = [unit EXCEPT ![u] = "NONE"]
    /\ UNCHANGED <<hold, booking, approval, view, trespassed>>

TransitionUnit(u) ==
    /\ \/ unit[u] = "CANCELLED_RELEASED" /\ unit' = [unit EXCEPT ![u] = "AVAILABLE"]
       \/ unit[u] = "BOOKED" /\ unit' = [unit EXCEPT ![u] = "SOLD"]
    /\ UNCHANGED <<hold, booking, approval, view, trespassed>>

-----------------------------------------------------------------------------
(* Holds.                                                                  *)

(* mutant: a request nobody approved in time is not looked for *)
ExpireDueHolds_ActiveOnly ==
    /\ \E H \in SUBSET {h \in UNION {OverdueOn(u) : u \in Unit} : hold[h].status = "ACTIVE"} :
          H # {} /\ hold' = HoldsExpiring(H) /\ unit' = UnitsExpiring(H)
    /\ UNCHANGED <<booking, approval, view, trespassed>>

(* One commit of expire_due_holds, by the worker or by a read: the due    *)
(* holds it saw, as many as its batch reached.                             *)
ExpireDueHolds ==
    /\ \E H \in SUBSET UNION {OverdueOn(u) : u \in Unit} :
          /\ H # {}
          /\ hold' = HoldsExpiring(H)
          /\ unit' = UnitsExpiring(H)
    /\ UNCHANGED <<booking, approval, view, trespassed>>

(* mutant: only another hold makes a unit unavailable *)
CreateHold_IgnoresStatus(h, u, c, holder, type) ==
    /\ hold[h].status = "NONE" /\ ValidOn(u) = {} /\ unit[u] # "NONE"
    /\ hold' = [HoldsExpiring(OverdueOn(u)) EXCEPT ![h] =
                  [unit |-> u, customer |-> c, holder |-> holder, type |-> type,
                   status |-> "PENDING_APPROVAL", key |-> TRUE, due |-> FALSE]]
    /\ unit' = [unit EXCEPT ![u] = type]
    /\ UNCHANGED <<booking, approval, view, trespassed>>

CreateHold(h, u, c, holder, type) ==
    /\ hold[h].status = "NONE"
    /\ ValidOn(u) = {}
    /\ UnitsExpiring(OverdueOn(u))[u] = "AVAILABLE"
    /\ hold' = [HoldsExpiring(OverdueOn(u)) EXCEPT ![h] =
                  [unit |-> u, customer |-> c, holder |-> holder, type |-> type,
                   status |-> "PENDING_APPROVAL", key |-> TRUE, due |-> FALSE]]
    /\ unit' = [unit EXCEPT ![u] = type]
    /\ UNCHANGED <<booking, approval, view, trespassed>>

(* mutant: an approved hold can be decided again *)
DecidableHold_AnyReserving(v, h, actor) ==
    /\ v.holdStatus[h] \in Reserving /\ h \in ValidOn(hold[h].unit)
    /\ hold[h].holder # actor /\ unit[hold[h].unit] = hold[h].type

(* The hold object the decision is taken on was loaded by a plain read, so *)
(* its status is the view's; only the WHERE clause sees the current row.   *)
DecidableHold(v, h, actor) ==
    /\ v.holdStatus[h] = "PENDING_APPROVAL"
    /\ h \in ValidOn(hold[h].unit)
    /\ hold[h].holder # actor
    /\ unit[hold[h].unit] = hold[h].type

ApproveHold(v, h, actor) ==
    /\ DecidableHold(v, h, actor)
    /\ hold' = [hold EXCEPT ![h].status = "ACTIVE"]
    /\ UNCHANGED <<unit, booking, approval, view, trespassed>>

RejectHold(v, h, actor) ==
    /\ DecidableHold(v, h, actor)
    /\ hold' = [hold EXCEPT ![h] = Ended(@, "REJECTED")]
    /\ unit' = [unit EXCEPT ![hold[h].unit] = "AVAILABLE"]
    /\ UNCHANGED <<booking, approval, view, trespassed>>

(* A decision or release that finds the unit's hold overdue commits its    *)
(* expiry before it answers 409.                                           *)
ExpireAndRefuse(u) ==
    /\ OverdueOn(u) # {}
    /\ hold' = HoldsExpiring(OverdueOn(u))
    /\ unit' = UnitsExpiring(OverdueOn(u))
    /\ UNCHANGED <<booking, approval, view, trespassed>>

DecideHold(v, h, actor) ==
    \/ ApproveHold(v, h, actor)
    \/ RejectHold(v, h, actor)
    \/ v.holdStatus[h] # "NONE" /\ ExpireAndRefuse(hold[h].unit)

ReleaseHold(u) ==
    \/ /\ ValidOn(u) # {}
       /\ hold' = [h \in Hold |-> IF h \in ValidOn(u)
                                  THEN Ended(hold[h], "RELEASED")
                                  ELSE hold[h]]
       /\ unit' = [unit EXCEPT ![u] = "AVAILABLE"]
       /\ UNCHANGED <<booking, approval, view, trespassed>>
    \/ ExpireAndRefuse(u)

-----------------------------------------------------------------------------
(* Bookings.                                                               *)

NewBooking(u, c, flow, status) ==
    [unit |-> u, customer |-> c, flow |-> flow, status |-> status, key |-> TRUE]

(* No booking is keyed to u: in the read view, where the handler looks,   *)
(* and in the table, where the unique index (organization_id,             *)
(* active_unit_key) refuses the insert.                                    *)
Unbooked(v, u) ==
    /\ \A b \in Booking : ~(v.booking[b].key /\ v.booking[b].unit = u)
    /\ BookingsKeyedTo(u) = {}

(* mutant: a hold still waiting for approval is converted too *)
InitiateBooking_PendingHold(v, b, u, c) ==
    /\ booking[b].status = "NONE" /\ Unbooked(v, u)
    /\ UnitsExpiring(OverdueOn(u))[u] \in {"AVAILABLE"} \cup HoldType
    /\ \A h \in ValidOn(u) : hold[h].customer \in {None, c}
    /\ hold' = [h \in Hold |-> IF h \in ValidOn(u)
                               THEN Ended(hold[h], "CONVERTED")
                               ELSE HoldsExpiring(OverdueOn(u))[h]]
    /\ booking' = [booking EXCEPT ![b] = NewBooking(u, c, FALSE, "DRAFT")]
    /\ unit' = [unit EXCEPT ![u] = "BOOKING_INITIATED"]
    /\ UNCHANGED <<approval, view, trespassed>>

(* The inventory screen's direct booking: a DRAFT outside the controlled  *)
(* flow, on a free unit or over an approved hold of the same customer.    *)
InitiateBooking(v, b, u, c) ==
    /\ booking[b].status = "NONE"
    /\ Unbooked(v, u)
    /\ UnitsExpiring(OverdueOn(u))[u] \in {"AVAILABLE"} \cup HoldType
    /\ \A h \in ValidOn(u) : hold[h].status = "ACTIVE" /\ hold[h].customer \in {None, c}
    /\ hold' = [h \in Hold |-> IF h \in ValidOn(u)
                               THEN Ended(hold[h], "CONVERTED")
                               ELSE HoldsExpiring(OverdueOn(u))[h]]
    /\ booking' = [booking EXCEPT ![b] = NewBooking(u, c, FALSE, "DRAFT")]
    /\ unit' = [unit EXCEPT ![u] = "BOOKING_INITIATED"]
    /\ UNCHANGED <<approval, view, trespassed>>

(* The controlled flow: an accepted quotation (its customer and unit) and *)
(* an approved, unexpired hold that matches it.                            *)
CreateBooking(v, b, h) ==
    /\ booking[b].status = "NONE"
    /\ hold[h].status = "ACTIVE"
    /\ ~hold[h].due
    /\ unit[hold[h].unit] \in HoldType
    /\ Unbooked(v, hold[h].unit)
    /\ hold' = [hold EXCEPT ![h] = Ended(@, "CONVERTED")]
    /\ booking' = [booking EXCEPT ![b] =
                     NewBooking(hold[h].unit, hold[h].customer, TRUE, "PAYMENT_PENDING")]
    /\ unit' = [unit EXCEPT ![hold[h].unit] = "BOOKING_INITIATED"]
    /\ UNCHANGED <<approval, view, trespassed>>

(* mutant: payment leads to the status no other handler knows *)
NextStatus_Submitted == [s \in BookingStatus |->
    IF s = "PAYMENT_PENDING" THEN {"SUBMITTED"} ELSE {}]

NextStatus == [s \in BookingStatus |->
    CASE s = "DRAFT" -> {"DOCUMENTATION_PENDING"}
      [] s = "DOCUMENTATION_PENDING" -> {"PAYMENT_PENDING"}
      [] s = "PAYMENT_PENDING" -> {"VERIFICATION"}
      [] OTHER -> {}]

(* Whether the payments cover the booking amount is decided elsewhere.     *)
AdvanceBooking(b) ==
    /\ booking[b].flow
    /\ \E target \in NextStatus[booking[b].status] :
          booking' = [booking EXCEPT ![b].status = target]
    /\ UNCHANGED <<unit, hold, approval, view, trespassed>>

(* The approver lists a requester may name: distinct, and not themselves. *)
ApproverLists(actor) ==
    {l \in UNION {[1 .. n -> User \ {actor}] : n \in 1 .. MaxApprovers} :
        \A i, j \in DOMAIN l : l[i] = l[j] => i = j}

RequestApproval(b, actor) ==
    /\ booking[b].status = "VERIFICATION"
    /\ approval[b] = << >>
    /\ \E l \in ApproverLists(actor) :
          approval' = [approval EXCEPT ![b] =
              [i \in DOMAIN l |-> [approver |-> l[i], status |-> "PENDING"]]]
    /\ booking' = [booking EXCEPT ![b].status = "APPROVAL"]
    /\ UNCHANGED <<unit, hold, view, trespassed>>

(* The assigned approver of step i decides.  The approval row is read      *)
(* locked, the booking is the view's object.                               *)
Decidable(v, b, i) ==
    /\ v.booking[b].status = "APPROVAL"
    /\ i \in DOMAIN approval[b]
    /\ approval[b][i].status = "PENDING"

(* mutant: the decision is not flushed before the count *)
Undecided_NotFlushed(v, b, i) ==
    {j \in DOMAIN v.approval[b] : v.approval[b][j].status = "PENDING"}

(* mutant: only the steps after this one are counted *)
Undecided_LaterSteps(v, b, i) ==
    {j \in DOMAIN v.approval[b] : j > i /\ v.approval[b][j].status = "PENDING"}

(* The count of undecided steps is a plain SELECT: the view, plus the      *)
(* decision this transaction has flushed.                                  *)
Undecided(v, b, i) ==
    {j \in DOMAIN v.approval[b] \ {i} : v.approval[b][j].status = "PENDING"}

(* mutant: a rejected booking leaves its unit where it was *)
RejectBooking_KeepsUnit(v, b, i) ==
    /\ Decidable(v, b, i)
    /\ approval' = [approval EXCEPT
                      ![b] = CancelPending([@ EXCEPT ![i].status = "REJECTED"])]
    /\ booking' = [booking EXCEPT ![b] = Ended(@, "REJECTED")]
    /\ UNCHANGED <<unit, hold, view, trespassed>>

RejectBooking(v, b, i) ==
    LET u == v.booking[b].unit IN
    /\ Decidable(v, b, i)
    /\ approval' = [approval EXCEPT
                      ![b] = CancelPending([@ EXCEPT ![i].status = "REJECTED"])]
    /\ booking' = [booking EXCEPT ![b] = Ended(@, "REJECTED")]
    /\ unit' = [unit EXCEPT ![u] = "CANCELLED_RELEASED"]
    /\ trespassed' = Trespass(b, u)
    /\ UNCHANGED <<hold, view>>

ApproveStep(v, b, i) ==
    /\ Decidable(v, b, i)
    /\ Undecided(v, b, i) # {}
    /\ approval' = [approval EXCEPT ![b][i].status = "APPROVED"]
    /\ UNCHANGED <<unit, hold, booking, view, trespassed>>

ConfirmBooking(v, b, i) ==
    LET u == v.booking[b].unit IN
    /\ Decidable(v, b, i)
    /\ Undecided(v, b, i) = {}
    /\ v.booking[b].key
    /\ unit[u] = "BOOKING_INITIATED"
    /\ approval' = [approval EXCEPT ![b][i].status = "APPROVED"]
    /\ booking' = [booking EXCEPT ![b].status = "CONFIRMED"]
    /\ unit' = [unit EXCEPT ![u] = "BOOKED"]
    /\ trespassed' = Trespass(b, u)
    /\ UNCHANGED <<hold, view>>

DecideApproval(v, b, i) ==
    \/ RejectBooking(v, b, i)
    \/ ApproveStep(v, b, i)
    \/ ConfirmBooking(v, b, i)

(* mutant: the unit's key stays with the cancelled booking *)
CancelBooking_KeepsKey(v, b) ==
    LET u == v.booking[b].unit IN
    /\ v.booking[b].status \in Open
    /\ booking' = [booking EXCEPT ![b].status = "CANCELLED"]
    /\ approval' = [approval EXCEPT ![b] = CancelPending(@)]
    /\ unit' = [unit EXCEPT ![u] = "CANCELLED_RELEASED"]
    /\ trespassed' = Trespass(b, u)
    /\ UNCHANGED <<hold, view>>

(* bookings.cancel_booking: the status it checks is the view's.            *)
CancelBooking(v, b) ==
    LET u == v.booking[b].unit IN
    /\ v.booking[b].status \in Open
    /\ booking' = [booking EXCEPT ![b] = Ended(@, "CANCELLED")]
    /\ approval' = [approval EXCEPT ![b] = CancelPending(@)]
    /\ unit' = [unit EXCEPT ![u] = "CANCELLED_RELEASED"]
    /\ trespassed' = Trespass(b, u)
    /\ UNCHANGED <<hold, view>>

(* mutant: a sale can be cancelled from the inventory screen *)
TransitionBooking_AnyStatus(b) ==
    LET u == booking[b].unit IN
    /\ booking[b].status \notin {"NONE", "CANCELLED"}
    /\ booking' = [booking EXCEPT ![b] = Ended(@, "CANCELLED")]
    /\ unit' = [unit EXCEPT ![u] = "CANCELLED_RELEASED"]
    /\ trespassed' = Trespass(b, u)
    /\ UNCHANGED <<hold, approval, view>>

(* inventory.transition_booking, which the route reaches only to cancel: a *)
(* REJECTED booking passes its check, and approvals are left as they are.  *)
TransitionBooking(b) ==
    LET u == booking[b].unit IN
    /\ booking[b].status \notin {"NONE", "CONFIRMED", "CANCELLED"}
    /\ booking' = [booking EXCEPT ![b] = Ended(@, "CANCELLED")]
    /\ unit' = [unit EXCEPT ![u] = "CANCELLED_RELEASED"]
    /\ trespassed' = Trespass(b, u)
    /\ UNCHANGED <<hold, approval, view>>

-----------------------------------------------------------------------------
UnitStep == \E u \in Unit : CreateUnit(u) \/ DeleteUnit(u) \/ TransitionUnit(u)

HoldStep ==
    \/ \E h \in Hold, u \in Unit, c \in Customer, holder \in User, type \in HoldType :
          CreateHold(h, u, c, holder, type)
    \/ \E v \in Views, h \in Hold, actor \in User : DecideHold(v, h, actor)
    \/ \E u \in Unit : ReleaseHold(u)
    \/ \E h \in Hold : FallDue(h)
    \/ ExpireDueHolds

BookingStep ==
    \/ \E v \in Views, b \in Booking, u \in Unit, c \in Customer :
          InitiateBooking(v, b, u, c)
    \/ \E v \in Views, b \in Booking, h \in Hold : CreateBooking(v, b, h)
    \/ \E b \in Booking : AdvanceBooking(b) \/ TransitionBooking(b)
    \/ \E b \in Booking, actor \in User : RequestApproval(b, actor)
    \/ \E v \in Views, b \in Booking : \E i \in DOMAIN approval[b] : DecideApproval(v, b, i)
    \/ \E v \in Views, b \in Booking : CancelBooking(v, b)

Next ==
    \/ \E s \in Session : Begin(s)
    \/ UnitStep
    \/ HoldStep
    \/ BookingStep

Spec == Init /\ [][Next]_vars

(* The worker loops for ever and logs what fails: it is always tried again. *)
FairSpec == Spec /\ WF_vars(ExpireDueHolds)

-----------------------------------------------------------------------------
(* Properties.                                                             *)

(* The active_unit_key columns agree with the statuses that set them, so a *)
(* unit has one reserving hold and one live booking at the very most.      *)
KeysAgree ==
    /\ \A h \in Hold : hold[h].key <=> hold[h].status \in Reserving
    /\ \A b \in Booking : booking[b].key => booking[b].status \in Open \cup {"CONFIRMED"}
    /\ \A b \in Booking : booking[b].status \in Open => booking[b].key
    /\ \A g, h \in Hold : hold[g].key /\ hold[h].key /\ hold[g].unit = hold[h].unit => g = h
    /\ \A a, b \in Booking :
          booking[a].key /\ booking[b].key /\ booking[a].unit = booking[b].unit => a = b

(* What the status of unit u says of its claimants is what the holds and  *)
(* bookings say.                                                           *)
UnitAgrees(u) ==
    /\ unit[u] \in HoldType <=> \E h \in HoldsKeyedTo(u) : hold[h].type = unit[u]
    /\ HoldsKeyedTo(u) # {} => BookingsKeyedTo(u) = {} /\ unit[u] \in HoldType
    /\ unit[u] = "BOOKING_INITIATED" <=>
          \E b \in BookingsKeyedTo(u) : booking[b].status \in Open
    /\ unit[u] \in {"BOOKED", "SOLD"} <=>
          \E b \in BookingsKeyedTo(u) : booking[b].status = "CONFIRMED"

(* A unit is on offer, held, being booked or sold exactly as its one       *)
(* claimant is, whatever the requests that raced for it and however old   *)
(* their reads - unless a booking that had lost it wrote over the claim.  *)
ClaimsAgree == \A u \in Unit \ trespassed : UnitAgrees(u)

(* A booking is sold only on the word of every approver it was sent to.   *)
ConfirmedByAll ==
    \A b \in Booking : booking[b].status = "CONFIRMED" =>
        /\ approval[b] # << >>
        /\ \A i \in DOMAIN approval[b] : approval[b][i].status = "APPROVED"

(* Nobody decides a booking after all its approvers have: one that waits   *)
(* for approval waits for somebody.                                        *)
ApprovalAwaited ==
    \A b \in Booking : booking[b].status = "APPROVAL" =>
        \E i \in DOMAIN approval[b] : approval[b][i].status = "PENDING"

(* "Protection against competing holds or duplicate active bookings": a    *)
(* unit with a live booking is not held for anybody.                       *)
NoCompetingClaims ==
    \A u \in Unit : HoldsKeyedTo(u) = {} \/ BookingsKeyedTo(u) = {}

HoldMoves == {<<"NONE", "PENDING_APPROVAL">>, <<"PENDING_APPROVAL", "ACTIVE">>,
              <<"PENDING_APPROVAL", "REJECTED">>, <<"ACTIVE", "CONVERTED">>}
             \cup (Reserving \X {"RELEASED", "EXPIRED"})

(* A hold that ended stays ended, and a decision taken once is not taken   *)
(* again: an approved hold is released, converted or expires.              *)
HoldsMoveForward ==
    [][\A h \in Hold : hold'[h].status # hold[h].status =>
          <<hold[h].status, hold'[h].status>> \in HoldMoves]_vars

(* A sale stands: no handler here takes a CONFIRMED booking back.          *)
ConfirmedStays ==
    [][\A b \in Booking : booking[b].status = "CONFIRMED" =>
          booking'[b].status = "CONFIRMED"]_vars

(* A booking takes a unit from under a reservation only when the hold was *)
(* approved, for the booking's own customer, or overdue.                   *)
BookingsRespectHolds ==
    [][\A b \in Booking : ~booking[b].key /\ booking'[b].key =>
          \A h \in ValidOn(booking'[b].unit) :
              /\ hold[h].status = "ACTIVE" /\ hold[h].customer = booking'[b].customer
              /\ hold'[h].status = "CONVERTED"]_vars

(* An overdue hold does not keep its unit for ever, and a hold approved    *)
(* too late is no exception.                                               *)
OverdueHoldsEnd ==
    \A h \in Hold : (hold[h].status \in Reserving /\ hold[h].due) ~>
                      hold[h].status \notin Reserving
=============================================================================
