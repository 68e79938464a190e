------------------------ MODULE UnitInventoryProofs ------------------------
(***************************************************************************)
(* Units, holds, bookings and sales, for any number of each and of users   *)
(* and sessions: types, keys and claims; the refinement of UnitClaims; the *)
(* approvals of a booking; what one step may do to a hold or a booking;    *)
(* and how a sale keeps its unit through transfers and cancellations.      *)
(* Each theorem says whether it needs requests that follow one another.    *)
(***************************************************************************)
EXTENDS Transfers, UnitPromise, TLAPS

(***************************************************************************)
(* Types, keys and claims.                                                 *)
(***************************************************************************)
(* Rows that exist name a unit, and a hold its type.                       *)
Placed ==
    /\ \A h \in Hold : hold[h].status # "NONE" =>
          hold[h].unit \in Unit /\ hold[h].type \in HoldType
    /\ \A b \in Booking : booking[b].status # "NONE" => booking[b].unit \in Unit

(* A read view may be old, but a booking it shows exists and has not       *)
(* changed units since.                                                    *)
Faithful(v) ==
    \A b \in Booking : v.booking[b].status # "NONE" =>
        booking[b].status # "NONE" /\ v.booking[b].unit = booking[b].unit

TypeInv == TypeOK /\ Placed /\ (\A s \in Session : Faithful(view[s]))

UnitInv == TypeInv /\ KeysAgree /\ ClaimsAgree

-----------------------------------------------------------------------------
(* Helpers: what the operators of the model return.                        *)

LEMMA CancelPendingType ==
    ASSUME NEW s \in Seq(ApprovalRow)
    PROVE  CancelPending(s) \in Seq(ApprovalRow)
  <1>1. DOMAIN s = 1 .. Len(s) /\ Len(s) \in Nat
    OBVIOUS
  <1>2. \A i \in 1 .. Len(s) : s[i] \in ApprovalRow
    OBVIOUS
  <1>3. \A i \in 1 .. Len(s) : CancelPending(s)[i] \in ApprovalRow
    BY <1>1, <1>2 DEF CancelPending, ApprovalRow, ApprovalStatus
  <1>4. CancelPending(s) \in [1 .. Len(s) -> ApprovalRow]
    BY <1>1, <1>3 DEF CancelPending
  <1> QED BY <1>1, <1>4

LEMMA SnapshotType ==
    ASSUME TypeOK PROVE Snapshot \in ReadView
  BY DEF TypeOK, Snapshot, ReadView, HoldRow

LEMMA ViewsType ==
    ASSUME TypeOK, NEW v \in Views PROVE v \in ReadView
  BY SnapshotType DEF TypeOK, Views

LEMMA EndedHold ==
    ASSUME NEW r \in HoldRow, NEW s \in HoldStatus
    PROVE  /\ Ended(r, s) \in HoldRow
           /\ Ended(r, s).unit = r.unit /\ Ended(r, s).type = r.type
           /\ Ended(r, s).status = s /\ Ended(r, s).key = FALSE
           /\ Ended(r, s).customer = r.customer
  BY DEF Ended, HoldRow

LEMMA EndedBooking ==
    ASSUME NEW r \in BookingRow, NEW s \in BookingStatus
    PROVE  /\ Ended(r, s) \in BookingRow
           /\ Ended(r, s).unit = r.unit
           /\ Ended(r, s).status = s /\ Ended(r, s).key = FALSE
  BY DEF Ended, BookingRow

LEMMA HoldsExpiringType ==
    ASSUME TypeOK, NEW H \in SUBSET Hold
    PROVE  /\ HoldsExpiring(H) \in [Hold -> HoldRow]
           /\ UnitsExpiring(H) \in [Unit -> UnitStatus]
  <1>1. "EXPIRED" \in HoldStatus
    BY DEF HoldStatus
  <1> QED BY <1>1, EndedHold DEF TypeOK, HoldsExpiring, UnitsExpiring, UnitStatus

LEMMA OverdueType ==
    ASSUME NEW u PROVE OverdueOn(u) \in SUBSET Hold
  BY DEF OverdueOn

LEMMA ApproverListType ==
    ASSUME NEW actor, NEW l \in ApproverLists(actor)
    PROVE  [i \in DOMAIN l |-> [approver |-> l[i], status |-> "PENDING"]] \in Seq(ApprovalRow)
  <1>1. PICK n \in 1 .. MaxApprovers : l \in [1 .. n -> User \ {actor}]
    BY DEF ApproverLists
  <1>2. n \in Nat
    BY MaxApproversAssumption
  <1>3. [i \in 1 .. n |-> [approver |-> l[i], status |-> "PENDING"]] \in [1 .. n -> ApprovalRow]
    BY <1>1 DEF ApprovalRow, ApprovalStatus
  <1> QED BY <1>1, <1>2, <1>3

LEMMA HoldStatuses ==
    /\ "PENDING_APPROVAL" \in HoldStatus /\ "ACTIVE" \in HoldStatus /\ "REJECTED" \in HoldStatus
    /\ "RELEASED" \in HoldStatus /\ "EXPIRED" \in HoldStatus /\ "CONVERTED" \in HoldStatus
  BY DEF HoldStatus, Reserving

LEMMA BookingStatuses ==
    /\ "APPROVAL" \in BookingStatus /\ "CONFIRMED" \in BookingStatus
    /\ "REJECTED" \in BookingStatus /\ "CANCELLED" \in BookingStatus
  BY DEF BookingStatus, Open, Final

LEMMA NewStatusHold ==
    ASSUME NEW r \in HoldRow, NEW s \in HoldStatus
    PROVE  /\ [r EXCEPT !.status = s] \in HoldRow
           /\ [r EXCEPT !.status = s].unit = r.unit /\ [r EXCEPT !.status = s].type = r.type
           /\ [r EXCEPT !.status = s].key = r.key /\ [r EXCEPT !.status = s].status = s
  BY DEF HoldRow

LEMMA NewStatusBooking ==
    ASSUME NEW r \in BookingRow, NEW s \in BookingStatus
    PROVE  /\ [r EXCEPT !.status = s] \in BookingRow
           /\ [r EXCEPT !.status = s].unit = r.unit
           /\ [r EXCEPT !.status = s].key = r.key /\ [r EXCEPT !.status = s].status = s
  BY DEF BookingRow

(* Whatever view a handler reads, a booking it shows is where it shows it. *)
LEMMA ViewsFaithful ==
    ASSUME TypeInv, NEW v \in Views, NEW b \in Booking, v.booking[b].status # "NONE"
    PROVE  /\ booking[b].status # "NONE"
           /\ v.booking[b].unit = booking[b].unit
           /\ booking[b].unit \in Unit
  BY DEF TypeInv, Views, Faithful, Snapshot, Placed

-----------------------------------------------------------------------------
(* Type correctness.                                                       *)

LEMMA TypeInit == Init => TypeInv
  <1> SUFFICES ASSUME Init PROVE TypeInv
    OBVIOUS
  <1>1. /\ unit \in [Unit -> UnitStatus]
        /\ hold \in [Hold -> HoldRow]
        /\ booking \in [Booking -> BookingRow]
        /\ approval \in [Booking -> Seq(ApprovalRow)]
        /\ trespassed \in SUBSET Unit
    BY DEF Init, UnitStatus, HoldRow, NoHold, HoldStatus, BookingRow, NoBooking, BookingStatus
  <1>2. Snapshot \in ReadView
    BY <1>1 DEF Snapshot, ReadView, HoldRow
  <1>3. Placed
    BY DEF Init, Placed, NoHold, NoBooking
  <1>4. \A s \in Session : Faithful(view[s])
    BY DEF Init, Faithful, Snapshot, NoBooking
  <1> QED BY <1>1, <1>2, <1>3, <1>4 DEF Init, TypeInv, TypeOK

(* What a step has to show when it changes only holds and units ...        *)
LEMMA HoldsChange ==
    ASSUME TypeInv,
           hold' \in [Hold -> HoldRow], unit' \in [Unit -> UnitStatus],
           UNCHANGED <<booking, approval, view, trespassed>>,
           \A h \in Hold : hold'[h].status # "NONE" =>
              hold'[h].unit \in Unit /\ hold'[h].type \in HoldType
    PROVE  TypeInv'
  BY DEF TypeInv, TypeOK, Placed, Faithful

(* ... and when it changes one booking and its unit.                       *)
LEMMA BookingChange ==
    ASSUME TypeInv, NEW b \in Booking, NEW u \in Unit, NEW r \in BookingRow,
           r.status # "NONE", r.unit \in Unit,
           booking[b].status = "NONE" \/ r.unit = booking[b].unit,
           booking' = [booking EXCEPT ![b] = r],
           hold' \in [Hold -> HoldRow],
           \A h \in Hold : hold'[h].status # "NONE" =>
              hold'[h].unit \in Unit /\ hold'[h].type \in HoldType,
           unit' \in [Unit -> UnitStatus],
           approval' \in [Booking -> Seq(ApprovalRow)],
           trespassed' \in SUBSET Unit, view' = view
    PROVE  TypeInv'
  BY DEF TypeInv, TypeOK, Placed, Faithful

LEMMA Expiring ==
    ASSUME TypeInv, NEW H \in SUBSET Hold, \A g \in H : hold[g].status # "NONE"
    PROVE  /\ HoldsExpiring(H) \in [Hold -> HoldRow]
           /\ UnitsExpiring(H) \in [Unit -> UnitStatus]
           /\ \A h \in Hold : HoldsExpiring(H)[h].status # "NONE" =>
                 HoldsExpiring(H)[h].unit \in Unit /\ HoldsExpiring(H)[h].type \in HoldType
  <1>1. \A h \in Hold : hold[h] \in HoldRow
    BY DEF TypeInv, TypeOK
  <1>2. ASSUME NEW h \in Hold, HoldsExpiring(H)[h].status # "NONE"
        PROVE  HoldsExpiring(H)[h].unit \in Unit /\ HoldsExpiring(H)[h].type \in HoldType
    <2>0. /\ Ended(hold[h], "EXPIRED").unit = hold[h].unit
          /\ Ended(hold[h], "EXPIRED").type = hold[h].type
      BY <1>1, EndedHold, HoldStatuses
    <2>1. CASE h \in H
      BY <2>0, <2>1 DEF HoldsExpiring, TypeInv, Placed
    <2>2. CASE h \notin H
      BY <1>2, <2>2 DEF HoldsExpiring, TypeInv, Placed
    <2> QED BY <2>1, <2>2
  <1> QED BY <1>2, HoldsExpiringType DEF TypeInv

LEMMA OverdueOnRows ==
    ASSUME NEW u
    PROVE  OverdueOn(u) \in SUBSET Hold /\ (\A g \in OverdueOn(u) : hold[g].status # "NONE")
  BY DEF OverdueOn, Reserving

LEMMA TypeStep == TypeInv /\ [Next]_vars => TypeInv'
  <1> SUFFICES ASSUME TypeInv, [Next]_vars PROVE TypeInv'
    OBVIOUS
  <1>0. /\ TypeOK
        /\ \A h \in Hold : hold[h] \in HoldRow
        /\ \A b \in Booking : booking[b] \in BookingRow
        /\ \A h \in Hold : hold[h].status # "NONE" =>
              hold[h].unit \in Unit /\ hold[h].type \in HoldType
    BY DEF TypeInv, TypeOK, Placed
  <1>a. /\ "AVAILABLE" \in UnitStatus /\ "BOOKING_INITIATED" \in UnitStatus
        /\ "BOOKED" \in UnitStatus /\ "CANCELLED_RELEASED" \in UnitStatus
        /\ HoldType \subseteq UnitStatus
    BY DEF UnitStatus
  <1>e. \A h \in Hold : \A s \in {"REJECTED", "RELEASED", "CONVERTED"} :
          /\ Ended(hold[h], s) \in HoldRow
          /\ Ended(hold[h], s).unit = hold[h].unit /\ Ended(hold[h], s).type = hold[h].type
    <2> TAKE h \in Hold
    <2> TAKE s \in {"REJECTED", "RELEASED", "CONVERTED"}
    <2>1. hold[h] \in HoldRow /\ s \in HoldStatus
      BY <1>0, HoldStatuses
    <2> QED BY <2>1, EndedHold
  <1>f. \A b \in Booking : \A s \in {"REJECTED", "CANCELLED"} :
          /\ Ended(booking[b], s) \in BookingRow
          /\ Ended(booking[b], s).unit = booking[b].unit /\ Ended(booking[b], s).status = s
    <2> TAKE b \in Booking
    <2> TAKE s \in {"REJECTED", "CANCELLED"}
    <2>1. booking[b] \in BookingRow /\ s \in BookingStatus
      BY <1>0, BookingStatuses
    <2> QED BY <2>1, EndedBooking
  <1>g. \A b \in Booking : \A s \in BookingStatus :
          /\ [booking[b] EXCEPT !.status = s] \in BookingRow
          /\ [booking[b] EXCEPT !.status = s].unit = booking[b].unit
          /\ [booking[b] EXCEPT !.status = s].status = s
    BY <1>0, NewStatusBooking
  <1>1. ASSUME NEW s \in Session, Begin(s) PROVE TypeInv'
    BY <1>1, SnapshotType DEF TypeInv, TypeOK, Placed, Faithful, Begin, rows, Snapshot
  <1>2. CASE UnitStep
    <2>1. unit' \in [Unit -> UnitStatus] /\ UNCHANGED <<hold, booking, approval, view, trespassed>>
      BY <1>0, <1>2 DEF UnitStep, CreateUnit, DeleteUnit, TransitionUnit, TypeOK, UnitStatus
    <2> QED BY <2>1, <1>0, HoldsChange DEF TypeOK
  <1>3. ASSUME NEW h \in Hold, NEW u \in Unit, NEW c \in Customer, NEW holder \in User,
               NEW type \in HoldType, CreateHold(h, u, c, holder, type)
        PROVE  TypeInv'
    <2> DEFINE row == [unit |-> u, customer |-> c, holder |-> holder, type |-> type,
                       status |-> "PENDING_APPROVAL", key |-> TRUE, due |-> FALSE]
               rest == HoldsExpiring(OverdueOn(u))
    <2>1. row \in HoldRow /\ row.unit \in Unit /\ row.type \in HoldType
      BY HoldStatuses DEF HoldRow
    <2>2. /\ rest \in [Hold -> HoldRow]
          /\ \A g \in Hold : rest[g].status # "NONE" =>
                rest[g].unit \in Unit /\ rest[g].type \in HoldType
      BY Expiring, OverdueOnRows
    <2>3. hold' = [rest EXCEPT ![h] = row] /\ unit' = [unit EXCEPT ![u] = type]
          /\ UNCHANGED <<booking, approval, view, trespassed>>
      BY <1>3 DEF CreateHold
    <2>4. unit' \in [Unit -> UnitStatus]
      BY <1>0, <1>a, <2>3 DEF TypeOK
    <2> HIDE DEF row, rest
    <2>5. hold' \in [Hold -> HoldRow] /\ \A g \in Hold : hold'[g].status # "NONE" =>
             hold'[g].unit \in Unit /\ hold'[g].type \in HoldType
      BY <2>1, <2>2, <2>3
    <2> QED BY <2>3, <2>4, <2>5, HoldsChange
  <1>4. ASSUME NEW u, ExpireAndRefuse(u) PROVE TypeInv'
    BY <1>4, Expiring, OverdueOnRows, HoldsChange DEF ExpireAndRefuse
  <1>5. ASSUME NEW v \in Views, NEW h \in Hold, NEW actor \in User, DecideHold(v, h, actor)
        PROVE  TypeInv'
    <2>1. DecidableHold(v, h, actor) => hold[h].unit \in Unit /\ hold[h].type \in HoldType
      BY <1>0 DEF DecidableHold, ValidOn, Reserving
    <2>2. CASE ApproveHold(v, h, actor)
      BY <1>0, <2>1, <2>2, NewStatusHold, HoldStatuses, HoldsChange DEF TypeOK, ApproveHold
    <2>3. CASE RejectHold(v, h, actor)
      BY <1>0, <1>a, <2>1, <2>3, <1>e, HoldsChange DEF TypeOK, RejectHold
    <2> QED BY <1>4, <1>5, <2>2, <2>3 DEF DecideHold
  <1>6. ASSUME NEW u \in Unit, ReleaseHold(u) PROVE TypeInv'
    <2> SUFFICES ASSUME ~ExpireAndRefuse(u) PROVE TypeInv'
      BY <1>4
    <2>1. ASSUME NEW h \in Hold
          PROVE  /\ hold'[h] \in HoldRow
                 /\ hold'[h].status # "NONE" => hold'[h].unit \in Unit /\ hold'[h].type \in HoldType
      BY <1>0, <1>6, <1>e DEF ReleaseHold, ValidOn, Reserving
    <2>2. unit' \in [Unit -> UnitStatus] /\ UNCHANGED <<booking, approval, view, trespassed>>
      BY <1>0, <1>a, <1>6 DEF ReleaseHold, TypeOK
    <2>3. hold' \in [Hold -> HoldRow]
      BY <1>6, <2>1 DEF ReleaseHold
    <2> QED BY <2>1, <2>2, <2>3, HoldsChange
  <1>7. ASSUME NEW h \in Hold, FallDue(h) PROVE TypeInv'
    <2>1. [hold[h] EXCEPT !.due = TRUE] \in HoldRow
          /\ [hold[h] EXCEPT !.due = TRUE].unit = hold[h].unit
          /\ [hold[h] EXCEPT !.due = TRUE].type = hold[h].type
          /\ [hold[h] EXCEPT !.due = TRUE].status = hold[h].status
      BY <1>0 DEF HoldRow
    <2> QED BY <1>0, <1>7, <2>1, HoldsChange DEF FallDue, TypeOK
  <1>8. CASE ExpireDueHolds
    <2>1. PICK H \in SUBSET UNION {OverdueOn(u) : u \in Unit} :
             hold' = HoldsExpiring(H) /\ unit' = UnitsExpiring(H)
      BY <1>8 DEF ExpireDueHolds
    <2>2. H \in SUBSET Hold /\ (\A g \in H : hold[g].status # "NONE")
      BY OverdueOnRows
    <2> QED BY <1>8, <2>1, <2>2, Expiring, HoldsChange DEF ExpireDueHolds
  <1>b. \A h \in Hold : hold[h].status # "NONE" =>
              hold[h].unit \in Unit /\ hold[h].type \in HoldType
    BY <1>0
  <1>9. ASSUME NEW v \in Views, NEW b \in Booking, NEW u \in Unit, NEW c \in Customer,
               InitiateBooking(v, b, u, c)
        PROVE  TypeInv'
    <2> DEFINE rest == HoldsExpiring(OverdueOn(u))
               row == NewBooking(u, c, FALSE, "DRAFT")
    <2>1. /\ rest \in [Hold -> HoldRow]
          /\ \A g \in Hold : rest[g].status # "NONE" =>
                rest[g].unit \in Unit /\ rest[g].type \in HoldType
      BY Expiring, OverdueOnRows
    <2>2. row \in BookingRow /\ row.status # "NONE" /\ row.unit \in Unit
      BY DEF NewBooking, BookingRow, BookingStatus, Open
    <2>3. /\ booking[b].status = "NONE" /\ booking' = [booking EXCEPT ![b] = row]
          /\ unit' = [unit EXCEPT ![u] = "BOOKING_INITIATED"]
          /\ hold' = [h \in Hold |-> IF h \in ValidOn(u) THEN Ended(hold[h], "CONVERTED")
                                                         ELSE rest[h]]
          /\ UNCHANGED <<approval, view, trespassed>>
      BY <1>9 DEF InitiateBooking
    <2> HIDE DEF rest, row
    <2>4. ASSUME NEW h \in Hold
          PROVE  /\ hold'[h] \in HoldRow
                 /\ hold'[h].status # "NONE" => hold'[h].unit \in Unit /\ hold'[h].type \in HoldType
      BY <1>0, <2>1, <2>3, <1>e DEF ValidOn, Reserving
    <2>5. hold' \in [Hold -> HoldRow]
      BY <2>3, <2>4
    <2>6. unit' \in [Unit -> UnitStatus] /\ approval' \in [Booking -> Seq(ApprovalRow)]
          /\ trespassed' \in SUBSET Unit
      BY <1>0, <1>a, <2>3 DEF TypeOK
    <2> QED BY <2>2, <2>3, <2>4, <2>5, <2>6, BookingChange
  <1>10. ASSUME NEW v \in Views, NEW b \in Booking, NEW h \in Hold, CreateBooking(v, b, h)
         PROVE  TypeInv'
    <2> DEFINE u == hold[h].unit
               row == NewBooking(u, hold[h].customer, TRUE, "PAYMENT_PENDING")
    <2>1. u \in Unit
      BY <1>0, <1>10 DEF CreateBooking
    <2>2. row \in BookingRow /\ row.status # "NONE" /\ row.unit \in Unit
      BY <1>0, <2>1 DEF NewBooking, BookingRow, HoldRow, BookingStatus, Open
    <2>3. /\ booking[b].status = "NONE" /\ booking' = [booking EXCEPT ![b] = row]
          /\ hold' = [hold EXCEPT ![h] = Ended(hold[h], "CONVERTED")]
          /\ unit' = [unit EXCEPT ![u] = "BOOKING_INITIATED"]
          /\ UNCHANGED <<approval, view, trespassed>>
          /\ hold[h].status # "NONE"
      BY <1>10, <1>0 DEF CreateBooking, TypeOK
    <2> HIDE DEF row, u
    <2>4. hold' \in [Hold -> HoldRow] /\ \A g \in Hold : hold'[g].status # "NONE" =>
                hold'[g].unit \in Unit /\ hold'[g].type \in HoldType
      BY <1>0, <2>3, <1>e DEF TypeOK
    <2>5. unit' \in [Unit -> UnitStatus] /\ approval' \in [Booking -> Seq(ApprovalRow)]
          /\ trespassed' \in SUBSET Unit
      BY <1>0, <1>a, <2>1, <2>3 DEF TypeOK
    <2> QED BY <2>2, <2>3, <2>4, <2>5, BookingChange
  <1>11. ASSUME NEW b \in Booking, AdvanceBooking(b) PROVE TypeInv'
    <2>1. PICK s \in NextStatus[booking[b].status] :
             booking' = [booking EXCEPT ![b].status = s]
      BY <1>11 DEF AdvanceBooking
    <2>2. s \in BookingStatus /\ s # "NONE" /\ booking[b].status # "NONE"
      BY <1>0, <2>1 DEF NextStatus, BookingStatus, Open, BookingRow
    <2> QED BY <1>0, <1>11, <2>1, <2>2, <1>g, BookingChange
            DEF AdvanceBooking, TypeOK, TypeInv, Placed
  <1>12. ASSUME NEW b \in Booking, TransitionBooking(b) PROVE TypeInv'
    <2>1. booking[b].status # "NONE" /\ booking[b].unit \in Unit
      BY <1>12 DEF TransitionBooking, TypeInv, Placed
    <2> QED BY <1>0, <1>a, <1>b, <1>12, <2>1, <1>f, BookingChange
            DEF TransitionBooking, Trespass, TypeOK
  <1>13. ASSUME NEW b \in Booking, NEW actor \in User, RequestApproval(b, actor) PROVE TypeInv'
    <2>1. approval' \in [Booking -> Seq(ApprovalRow)]
      BY <1>0, <1>13, ApproverListType DEF RequestApproval, TypeOK
    <2>2. booking[b].status # "NONE" /\ booking[b].unit \in Unit
      BY <1>13 DEF RequestApproval, TypeInv, Placed
    <2> QED BY <1>0, <1>b, <1>13, <2>1, <2>2, <1>g, BookingStatuses, BookingChange
            DEF RequestApproval, TypeOK
  <1>14. ASSUME NEW v \in Views, NEW b \in Booking, NEW i \in DOMAIN approval[b],
                DecideApproval(v, b, i)
         PROVE  TypeInv'
    <2>1. ASSUME NEW s \in ApprovalStatus
          PROVE  [approval[b] EXCEPT ![i].status = s] \in Seq(ApprovalRow)
      <3>1. approval[b] \in Seq(ApprovalRow)
        BY <1>0 DEF TypeOK
      <3>2. approval[b][i] \in ApprovalRow
        BY <3>1
      <3>3. [approval[b][i] EXCEPT !.status = s] \in ApprovalRow
        BY <3>2 DEF ApprovalRow
      <3> QED BY <3>1, <3>3
    <2>2. "APPROVED" \in ApprovalStatus /\ "REJECTED" \in ApprovalStatus
      BY DEF ApprovalStatus
    <2>3. CASE ApproveStep(v, b, i)
      BY <1>0, <2>1, <2>2, <2>3 DEF ApproveStep, TypeInv, TypeOK, Placed, Faithful
    <2> SUFFICES ASSUME RejectBooking(v, b, i) \/ ConfirmBooking(v, b, i) PROVE TypeInv'
      BY <1>14, <2>3 DEF DecideApproval
    <2>4. booking[b].status # "NONE" /\ v.booking[b].unit = booking[b].unit
          /\ booking[b].unit \in Unit
      BY ViewsFaithful DEF RejectBooking, ConfirmBooking, Decidable
    <2>5. CASE RejectBooking(v, b, i)
      BY <1>0, <1>a, <1>b, <2>1, <2>2, <2>4, <2>5, <1>f, CancelPendingType, BookingChange
         DEF RejectBooking, Trespass, TypeOK
    <2>6. CASE ConfirmBooking(v, b, i)
      <3> DEFINE r == [booking[b] EXCEPT !.status = "CONFIRMED"]
      <3>1. r \in BookingRow /\ r.unit = booking[b].unit /\ r.status # "NONE"
        BY <1>g, BookingStatuses
      <3>2. booking' = [booking EXCEPT ![b] = r] /\ UNCHANGED <<hold, view>>
        BY <2>6 DEF ConfirmBooking
      <3>3. /\ approval' \in [Booking -> Seq(ApprovalRow)]
            /\ unit' \in [Unit -> UnitStatus]
            /\ trespassed' \in SUBSET Unit
        BY <1>0, <1>a, <2>1, <2>2, <2>4, <2>6 DEF ConfirmBooking, Trespass, TypeOK
      <3> HIDE DEF r
      <3> QED BY <1>0, <1>b, <2>4, <3>1, <3>2, <3>3, BookingChange DEF TypeOK
    <2> QED BY <2>5, <2>6
  <1>15. ASSUME NEW v \in Views, NEW b \in Booking, CancelBooking(v, b) PROVE TypeInv'
    <2>1. booking[b].status # "NONE" /\ v.booking[b].unit = booking[b].unit
          /\ booking[b].unit \in Unit
      BY <1>15, ViewsFaithful DEF CancelBooking, Open
    <2> QED BY <1>0, <1>a, <1>b, <1>15, <2>1, <1>f, CancelPendingType, BookingChange
            DEF CancelBooking, Trespass, TypeOK
  <1>16. CASE UNCHANGED vars
    BY <1>16 DEF TypeInv, TypeOK, Placed, Faithful, vars
  <1>17. CASE HoldStep
    BY <1>17, <1>3, <1>5, <1>6, <1>7, <1>8 DEF HoldStep
  <1>18. CASE BookingStep
    BY <1>18, <1>9, <1>10, <1>11, <1>12, <1>13, <1>14, <1>15 DEF BookingStep
  <1> QED BY <1>1, <1>2, <1>16, <1>17, <1>18 DEF Next

(* Every variable keeps its type, for every value of the constants.        *)
THEOREM TypeCorrect == Spec => []TypeOK
  <1>1. Spec => []TypeInv
    BY TypeInit, TypeStep, PTL DEF Spec
  <1>2. TypeInv => TypeOK
    BY DEF TypeInv
  <1> QED BY <1>1, <1>2, PTL

-----------------------------------------------------------------------------
(* Claims.  UnitAgrees, stated of any tables (units, holds, bookings), so  *)
(* that the lemmas below serve before and after a step.                    *)

Idle == {"NONE", "AVAILABLE", "CANCELLED_RELEASED"}
Sold == {"BOOKED", "SOLD"}

KeyedIn(table, x, u) == table[x].key /\ table[x].unit = u

AgreesIn(units, holds, bookings, u) ==
    /\ units[u] \in HoldType <=> \E h \in Hold : KeyedIn(holds, h, u) /\ holds[h].type = units[u]
    /\ \A h \in Hold : KeyedIn(holds, h, u) =>
          units[u] \in HoldType /\ \A b \in Booking : ~KeyedIn(bookings, b, u)
    /\ units[u] = "BOOKING_INITIATED" <=>
          \E b \in Booking : KeyedIn(bookings, b, u) /\ bookings[b].status \in Open
    /\ units[u] \in Sold <=>
          \E b \in Booking : KeyedIn(bookings, b, u) /\ bookings[b].status = "CONFIRMED"

LEMMA Agrees ==
    ASSUME NEW u
    PROVE  /\ UnitAgrees(u) <=> AgreesIn(unit, hold, booking, u)
           /\ UnitAgrees(u)' <=> AgreesIn(unit', hold', booking', u)
  BY DEF UnitAgrees, AgreesIn, HoldsKeyedTo, BookingsKeyedTo, KeyedIn, Sold

Unclaimed(holds, bookings, u) ==
    /\ \A h \in Hold : ~KeyedIn(holds, h, u)
    /\ \A b \in Booking : ~KeyedIn(bookings, b, u)

Live(bookings) ==
    \A b \in Booking : bookings[b].key =>
        bookings[b].status \in Open \/ bookings[b].status = "CONFIRMED"

LEMMA StatusKinds ==
    /\ \A x \in Idle : x \notin HoldType /\ x # "BOOKING_INITIATED" /\ x \notin Sold
    /\ \A x \in Sold : x \notin HoldType /\ x # "BOOKING_INITIATED"
    /\ "BOOKING_INITIATED" \notin HoldType
    /\ "CONFIRMED" \notin Open
    /\ UnitStatus = Idle \cup Sold \cup HoldType \cup {"BOOKING_INITIATED"}
  BY DEF Idle, Sold, HoldType, Open, UnitStatus

(* An idle unit is one nobody claims.                                      *)
LEMMA IdleAgrees ==
    ASSUME NEW units, NEW holds, NEW bookings, NEW u, Live(bookings), units[u] \in Idle
    PROVE  AgreesIn(units, holds, bookings, u) <=> Unclaimed(holds, bookings, u)
  BY StatusKinds DEF AgreesIn, Unclaimed, Live, KeyedIn

(* A unit one hold has.                                                    *)
LEMMA HeldAgrees ==
    ASSUME NEW units, NEW holds, NEW bookings, NEW u, NEW h \in Hold,
           KeyedIn(holds, h, u), holds[h].type = units[u], units[u] \in HoldType,
           \A b \in Booking : ~KeyedIn(bookings, b, u)
    PROVE  AgreesIn(units, holds, bookings, u)
  BY StatusKinds DEF AgreesIn

(* A unit one booking has.                                                 *)
LEMMA BookedAgrees ==
    ASSUME NEW units, NEW holds, NEW bookings, NEW u, NEW b \in Booking,
           KeyedIn(bookings, b, u),
           \A a \in Booking : KeyedIn(bookings, a, u) => a = b,
           \A h \in Hold : ~KeyedIn(holds, h, u),
           \/ units[u] = "BOOKING_INITIATED" /\ bookings[b].status \in Open
           \/ units[u] \in Sold /\ bookings[b].status = "CONFIRMED"
    PROVE  AgreesIn(units, holds, bookings, u)
  BY StatusKinds DEF AgreesIn

(* A unit a step leaves to its claimant still agrees with it.              *)
LEMMA Frame ==
    ASSUME NEW u, UnitAgrees(u), unit'[u] = unit[u],
           \A h \in Hold : KeyedIn(hold', h, u) <=> KeyedIn(hold, h, u),
           \A h \in Hold : KeyedIn(hold, h, u) => hold'[h].type = hold[h].type,
           \A b \in Booking : KeyedIn(booking', b, u) <=> KeyedIn(booking, b, u),
           \A b \in Booking : KeyedIn(booking, b, u) =>
              /\ booking'[b].status \in Open <=> booking[b].status \in Open
              /\ booking'[b].status = "CONFIRMED" <=> booking[b].status = "CONFIRMED"
    PROVE  UnitAgrees(u)'
  <1>1. AgreesIn(unit, hold, booking, u)
    BY Agrees
  <1>2. AgreesIn(unit', hold', booking', u)
    BY <1>1 DEF AgreesIn
  <1> QED BY <1>2, Agrees

-----------------------------------------------------------------------------
(* What a step does to the claims, in the terms the actions share.         *)

HoldKeys == (\A h \in Hold : hold[h].key <=> hold[h].status \in Reserving)
            /\ (\A g, h \in Hold :
                  hold[g].key /\ hold[h].key /\ hold[g].unit = hold[h].unit => g = h)

BookingKeys == Live(booking)
               /\ (\A b \in Booking : booking[b].status \in Open => booking[b].key)
               /\ (\A a, b \in Booking :
                     booking[a].key /\ booking[b].key /\ booking[a].unit = booking[b].unit
                        => a = b)

LEMMA Keys == (KeysAgree <=> HoldKeys /\ BookingKeys) /\ (KeysAgree' <=> HoldKeys' /\ BookingKeys')
  BY DEF KeysAgree, HoldKeys, BookingKeys, Live

(* The step ends the holds H and leaves the claims of the others alone.    *)
HoldsEnd(H) ==
    /\ \A h \in H : hold[h].status \in Reserving /\ ~hold'[h].key
                     /\ hold'[h].status \notin Reserving
    /\ \A h \in Hold \ H :
          /\ hold'[h].key = hold[h].key /\ hold'[h].unit = hold[h].unit
          /\ hold'[h].type = hold[h].type
          /\ hold'[h].status \in Reserving <=> hold[h].status \in Reserving

(* Exactly the holds of u that HoldsEnd(H) leaves are keyed to u after it. *)
LEMMA HoldsEndKeys ==
    ASSUME HoldKeys, NEW H \in SUBSET Hold, HoldsEnd(H)
    PROVE  /\ HoldKeys'
           /\ \A h \in Hold, u \in Unit :
                 KeyedIn(hold', h, u) <=> KeyedIn(hold, h, u) /\ h \notin H
           /\ \A h \in H : hold[h].key
  BY DEF HoldKeys, HoldsEnd, KeyedIn

LEMMA EndingHolds ==
    ASSUME UnitInv, NEW H \in SUBSET Hold, HoldsEnd(H),
           booking' = booking, trespassed' = trespassed,
           \A u \in Unit \ trespassed : unit[u] \in HoldType /\ (\E h \in H : hold[h].unit = u)
                                        => unit'[u] = "AVAILABLE",
           \A u \in Unit : (\A h \in H : hold[h].unit # u) => unit'[u] = unit[u]
    PROVE  KeysAgree' /\ ClaimsAgree'
  <1>1. HoldKeys /\ BookingKeys
    BY Keys DEF UnitInv
  <1>2. KeysAgree'
    BY <1>1, HoldsEndKeys, Keys DEF BookingKeys, Live
  <1>3. ASSUME NEW u \in Unit, u \notin trespassed' PROVE UnitAgrees(u)'
    <2>0. UnitAgrees(u) /\ AgreesIn(unit, hold, booking, u)
      BY <1>3, Agrees DEF UnitInv, ClaimsAgree
    <2>1. CASE \A h \in H : hold[h].unit # u
      <3>1. \A h \in Hold : KeyedIn(hold, h, u) => h \notin H /\ hold'[h].type = hold[h].type
        BY <2>1 DEF KeyedIn, HoldsEnd
      <3>2. \A h \in Hold : KeyedIn(hold', h, u) <=> KeyedIn(hold, h, u)
        BY <1>1, <3>1, HoldsEndKeys
      <3> QED BY <2>0, <2>1, <3>1, <3>2, Frame
    <2>2. ASSUME NEW g \in H, hold[g].unit = u PROVE UnitAgrees(u)'
      <3>1. KeyedIn(hold, g, u)
        BY <1>1, <2>2, HoldsEndKeys DEF KeyedIn
      <3>2. \A h \in Hold : ~KeyedIn(hold', h, u)
        BY <1>1, <3>1, HoldsEndKeys DEF HoldKeys, KeyedIn
      <3>3. unit[u] \in HoldType /\ \A b \in Booking : ~KeyedIn(booking, b, u)
        BY <2>0, <3>1 DEF AgreesIn
      <3>4. unit'[u] \in Idle
        BY <1>3, <2>2, <3>3 DEF Idle
      <3>5. Unclaimed(hold', booking', u) /\ Live(booking')
        BY <1>1, <3>2, <3>3 DEF Unclaimed, BookingKeys
      <3> QED BY <3>4, <3>5, IdleAgrees, Agrees
    <2> QED BY <2>1, <2>2
  <1> QED BY <1>2, <1>3 DEF ClaimsAgree

(* A booking row r takes a unit whose holds the step ends, all of them.    *)
LEMMA TakingUnit ==
    ASSUME UnitInv, NEW H \in SUBSET Hold, HoldsEnd(H), NEW b \in Booking, NEW u \in Unit,
           NEW r, r.key, r.unit = u, r.status \in Open,
           \A h \in H : hold[h].unit = u,
           \A h \in Hold : KeyedIn(hold, h, u) => h \in H,
           \A a \in Booking : ~KeyedIn(booking, a, u),
           booking[b].status = "NONE",
           booking' = [booking EXCEPT ![b] = r],
           unit' = [unit EXCEPT ![u] = "BOOKING_INITIATED"],
           trespassed' = trespassed
    PROVE  KeysAgree' /\ ClaimsAgree'
  <1>1. HoldKeys /\ BookingKeys /\ unit \in [Unit -> UnitStatus]
        /\ booking \in [Booking -> BookingRow]
    BY Keys DEF UnitInv, TypeInv, TypeOK
  <1>2. ~booking[b].key
    BY <1>1 DEF BookingKeys, Live, Open
  <1>3. \A a \in Booking : booking'[a] = IF a = b THEN r ELSE booking[a]
    BY <1>1
  <1>4. \A w \in Unit, a \in Booking :
           KeyedIn(booking', a, w) <=> (a = b /\ w = u) \/ KeyedIn(booking, a, w)
    BY <1>2, <1>3 DEF KeyedIn
  <1>5. BookingKeys'
    BY <1>1, <1>3 DEF BookingKeys, Live, KeyedIn
  <1>6. KeysAgree'
    BY <1>1, <1>5, HoldsEndKeys, Keys
  <1>7. UnitAgrees(u)'
    <2>1. \A h \in Hold : ~KeyedIn(hold', h, u)
      BY <1>1, HoldsEndKeys
    <2>2. unit'[u] = "BOOKING_INITIATED" /\ booking'[b].status \in Open /\ KeyedIn(booking', b, u)
      BY <1>1, <1>3, <1>4
    <2>3. \A a \in Booking : KeyedIn(booking', a, u) => a = b
      BY <1>4
    <2> QED BY <2>1, <2>2, <2>3, BookedAgrees, Agrees
  <1>8. ASSUME NEW w \in Unit, w \notin trespassed', w # u PROVE UnitAgrees(w)'
    <2>1. UnitAgrees(w) /\ unit'[w] = unit[w]
      BY <1>1, <1>8 DEF UnitInv, ClaimsAgree
    <2>2. \A h \in Hold : KeyedIn(hold, h, w) => h \notin H /\ hold'[h].type = hold[h].type
      BY <1>8 DEF KeyedIn, HoldsEnd
    <2>3. \A h \in Hold : KeyedIn(hold', h, w) <=> KeyedIn(hold, h, w)
      BY <1>1, <2>2, HoldsEndKeys
    <2>4. \A a \in Booking : KeyedIn(booking', a, w) <=> KeyedIn(booking, a, w)
      BY <1>4, <1>8
    <2>5. \A a \in Booking : KeyedIn(booking, a, w) => booking'[a] = booking[a]
      BY <1>2, <1>3 DEF KeyedIn
    <2> QED BY <2>1, <2>2, <2>3, <2>4, <2>5, Frame
  <1> QED BY <1>6, <1>7, <1>8 DEF ClaimsAgree

(* A booking ends and its unit is released; whoever else had the unit by   *)
(* then is trespassed upon.                                                *)
LEMMA LeavingUnit ==
    ASSUME UnitInv, NEW b \in Booking, NEW r, ~r.key, r.status \in {"REJECTED", "CANCELLED"},
           NEW u \in Unit,
           booking' = [booking EXCEPT ![b] = r],
           booking[b].unit = u,
           unit' = [unit EXCEPT ![u] = "CANCELLED_RELEASED"],
           trespassed' = Trespass(b, u), hold' = hold
    PROVE  KeysAgree' /\ ClaimsAgree'
  <1>1. HoldKeys /\ BookingKeys /\ unit \in [Unit -> UnitStatus]
        /\ booking \in [Booking -> BookingRow]
    BY Keys DEF UnitInv, TypeInv, TypeOK
  <1>2. \A a \in Booking : booking'[a] = IF a = b THEN r ELSE booking[a]
    BY <1>1
  <1>3. \A w \in Unit, a \in Booking : KeyedIn(booking', a, w) <=> a # b /\ KeyedIn(booking, a, w)
    BY <1>2 DEF KeyedIn
  <1>4. BookingKeys'
    BY <1>1, <1>2 DEF BookingKeys, Live, Open
  <1>5. HoldKeys'
    BY <1>1 DEF HoldKeys
  <1>6. ASSUME u \notin trespassed' PROVE UnitAgrees(u)'
    <2>1. u \notin trespassed /\ (booking[b].key \/ ~Claimed(u))
      BY <1>6 DEF Trespass
    <2>2. UnitAgrees(u) /\ AgreesIn(unit, hold, booking, u)
      BY <2>1, Agrees DEF UnitInv, ClaimsAgree
    <2>3. Unclaimed(hold', booking', u)
      <3>1. CASE booking[b].key
        <4>1. KeyedIn(booking, b, u)
          BY <3>1 DEF KeyedIn
        <4>2. \A h \in Hold : ~KeyedIn(hold, h, u)
          BY <2>2, <4>1 DEF AgreesIn
        <4>3. \A a \in Booking : KeyedIn(booking, a, u) => a = b
          BY <1>1, <4>1 DEF BookingKeys, KeyedIn
        <4> QED BY <1>3, <4>2, <4>3 DEF Unclaimed
      <3>2. CASE ~Claimed(u)
        BY <3>2, <1>3 DEF Unclaimed, Claimed, KeyedIn, HoldsKeyedTo, BookingsKeyedTo
      <3> QED BY <2>1, <3>1, <3>2
    <2>4. unit'[u] \in Idle /\ Live(booking')
      BY <1>1, <1>4 DEF Idle, BookingKeys
    <2> QED BY <2>3, <2>4, IdleAgrees, Agrees
  <1>7. ASSUME NEW w \in Unit, w \notin trespassed', w # u PROVE UnitAgrees(w)'
    <2>1. w \notin trespassed
      BY <1>7 DEF Trespass
    <2>2. UnitAgrees(w) /\ unit'[w] = unit[w]
      BY <1>1, <1>7, <2>1 DEF UnitInv, ClaimsAgree
    <2>3. \A a \in Booking : KeyedIn(booking, a, w) => a # b
      BY <1>7 DEF KeyedIn
    <2>4. \A a \in Booking : KeyedIn(booking', a, w) <=> KeyedIn(booking, a, w)
      BY <1>3, <2>3
    <2>5. \A a \in Booking : KeyedIn(booking, a, w) => booking'[a] = booking[a]
      BY <1>2, <2>3
    <2>6. \A h \in Hold : KeyedIn(hold', h, w) <=> KeyedIn(hold, h, w)
      BY DEF KeyedIn
    <2> QED BY <2>2, <2>4, <2>5, <2>6, Frame
  <1> QED BY <1>4, <1>5, <1>6, <1>7, Keys DEF ClaimsAgree

(* A booking moves on among the statuses before a decision.                *)
LEMMA MovingOn ==
    ASSUME UnitInv, NEW b \in Booking, NEW s \in Open, booking[b].status \in Open,
           booking' = [booking EXCEPT ![b].status = s],
           UNCHANGED <<unit, hold, trespassed>>
    PROVE  KeysAgree' /\ ClaimsAgree'
  <1>1. HoldKeys /\ BookingKeys /\ booking \in [Booking -> BookingRow] /\ "CONFIRMED" \notin Open
    BY Keys, StatusKinds DEF UnitInv, TypeInv, TypeOK
  <1>2. \A a \in Booking : /\ booking'[a].key = booking[a].key
                           /\ booking'[a].unit = booking[a].unit
                           /\ booking'[a].status = IF a = b THEN s ELSE booking[a].status
    BY <1>1 DEF BookingRow
  <1>3. BookingKeys' /\ HoldKeys'
    BY <1>1, <1>2 DEF BookingKeys, Live, HoldKeys
  <1>4. ASSUME NEW u \in Unit, u \notin trespassed' PROVE UnitAgrees(u)'
    BY <1>1, <1>2, <1>4, Frame DEF KeyedIn, UnitInv, ClaimsAgree
  <1> QED BY <1>3, <1>4, Keys DEF ClaimsAgree

-----------------------------------------------------------------------------
(* Every step keeps the keys and the claims in agreement.                  *)

(* Marking overdue holds expired, whichever handler does it.               *)
LEMMA ExpiringEnds ==
    ASSUME UnitInv, NEW H \in SUBSET Hold, \A h \in H : hold[h].status \in Reserving,
           hold' = HoldsExpiring(H)
    PROVE  HoldsEnd(H)
  <1>1. \A h \in Hold : hold[h] \in HoldRow
    BY DEF UnitInv, TypeInv, TypeOK
  <1>2. \A h \in H : ~hold'[h].key /\ hold'[h].status = "EXPIRED"
    BY <1>1, EndedHold, HoldStatuses DEF HoldsExpiring
  <1>3. \A h \in Hold \ H : hold'[h] = hold[h]
    BY DEF HoldsExpiring
  <1> QED BY <1>2, <1>3 DEF HoldsEnd, Reserving

LEMMA ExpiringKeeps ==
    ASSUME UnitInv, NEW H \in SUBSET Hold, \A h \in H : hold[h].status \in Reserving,
           hold' = HoldsExpiring(H), unit' = UnitsExpiring(H),
           booking' = booking, trespassed' = trespassed
    PROVE  KeysAgree' /\ ClaimsAgree'
  BY ExpiringEnds, EndingHolds DEF UnitsExpiring

LEMMA Overdue ==
    ASSUME NEW u
    PROVE  /\ OverdueOn(u) \in SUBSET Hold
           /\ \A h \in OverdueOn(u) : hold[h].status \in Reserving /\ hold[h].unit = u
           /\ \A h \in Hold : hold[h].status \in Reserving /\ hold[h].unit = u
                 => h \in OverdueOn(u) \cup ValidOn(u)
           /\ OverdueOn(u) \cap ValidOn(u) = {}
  BY DEF OverdueOn, ValidOn

LEMMA UnitStepKeeps == ASSUME UnitInv, UnitStep PROVE KeysAgree' /\ ClaimsAgree'
  <1>1. UNCHANGED <<hold, booking, trespassed>> /\ HoldKeys /\ BookingKeys
        /\ unit \in [Unit -> UnitStatus]
    BY Keys DEF UnitStep, CreateUnit, DeleteUnit, TransitionUnit, UnitInv, TypeInv, TypeOK
  <1>2. KeysAgree'
    BY <1>1, Keys DEF HoldKeys, BookingKeys, Live
  <1>3. ASSUME NEW u \in Unit, u \notin trespassed' PROVE UnitAgrees(u)'
    <2>0. UnitAgrees(u) /\ AgreesIn(unit, hold, booking, u)
      BY <1>1, <1>3, Agrees DEF UnitInv, ClaimsAgree
    <2>1. CASE unit'[u] = unit[u]
      BY <1>1, <2>0, <2>1, Frame DEF KeyedIn
    <2>2. CASE unit[u] \in Idle /\ unit'[u] \in Idle
      <3>1. Unclaimed(hold', booking', u) /\ Live(booking')
        BY <1>1, <2>0, <2>2, IdleAgrees DEF BookingKeys
      <3> QED BY <2>2, <3>1, IdleAgrees, Agrees
    <2>3. CASE unit[u] = "BOOKED" /\ unit'[u] = "SOLD"
      <3>1. AgreesIn(unit', hold', booking', u)
        BY <1>1, <2>0, <2>3, StatusKinds DEF AgreesIn, Sold, KeyedIn
      <3> QED BY <3>1, Agrees
    <2> QED BY <1>1, <2>1, <2>2, <2>3
            DEF UnitStep, CreateUnit, DeleteUnit, TransitionUnit, Idle
  <1> QED BY <1>2, <1>3 DEF ClaimsAgree

LEMMA CreateHoldKeeps ==
    ASSUME UnitInv, NEW h \in Hold, NEW u \in Unit, NEW c \in Customer, NEW holder \in User,
           NEW type \in HoldType, CreateHold(h, u, c, holder, type)
    PROVE  KeysAgree' /\ ClaimsAgree'
  <1> DEFINE row == [unit |-> u, customer |-> c, holder |-> holder, type |-> type,
                     status |-> "PENDING_APPROVAL", key |-> TRUE, due |-> FALSE]
             H == OverdueOn(u)
             rest == HoldsExpiring(H)
  <1>0. HoldKeys /\ BookingKeys /\ unit \in [Unit -> UnitStatus] /\ hold \in [Hold -> HoldRow]
    BY Keys DEF UnitInv, TypeInv, TypeOK
  <1>1. /\ hold' = [rest EXCEPT ![h] = row] /\ unit' = [unit EXCEPT ![u] = type]
        /\ UNCHANGED <<booking, trespassed>>
        /\ hold[h].status = "NONE" /\ ValidOn(u) = {} /\ UnitsExpiring(H)[u] = "AVAILABLE"
    BY DEF CreateHold
  <1>2. /\ H \in SUBSET Hold /\ h \notin H
        /\ \A g \in H : hold[g].status \in Reserving /\ hold[g].unit = u
        /\ \A g \in Hold : hold[g].status \in Reserving /\ hold[g].unit = u => g \in H
    BY <1>1, Overdue DEF Reserving
  <1>3. /\ \A g \in H : ~rest[g].key /\ rest[g].status = "EXPIRED"
        /\ \A g \in Hold \ H : rest[g] = hold[g]
        /\ DOMAIN rest = Hold
    BY <1>0, <1>2, EndedHold, HoldStatuses DEF HoldsExpiring
  <1>4. /\ row.unit = u /\ row.key /\ row.status \in Reserving /\ row.type = type
    BY DEF Reserving
  <1> HIDE DEF row, H, rest
  <1>5. \A g \in Hold : hold'[g] = IF g = h THEN row ELSE rest[g]
    BY <1>1, <1>3
  <1>6. \A g \in Hold, w \in Unit : KeyedIn(hold', g, w) <=>
           (g = h /\ w = u) \/ (g # h /\ w # u /\ KeyedIn(hold, g, w))
    <2> TAKE g \in Hold, w \in Unit
    <2>1. hold[g].key <=> hold[g].status \in Reserving
      BY <1>0 DEF HoldKeys
    <2>2. CASE g = h
      BY <1>4, <1>5, <2>2 DEF KeyedIn
    <2>3. CASE g \in H
      BY <1>2, <1>3, <1>5, <2>3 DEF KeyedIn
    <2>4. CASE g \notin H /\ g # h
      BY <1>2, <1>3, <1>5, <2>1, <2>4 DEF KeyedIn
    <2> QED BY <2>2, <2>3, <2>4
  <1>7. HoldKeys'
    <2>1. \A g \in Hold : hold'[g].key <=> hold'[g].status \in Reserving
      BY <1>0, <1>3, <1>4, <1>5 DEF HoldKeys, Reserving
    <2>2. \A g \in Hold : hold'[g].key => hold'[g].unit \in Unit
      BY <1>0, <1>3, <1>4, <1>5 DEF HoldKeys, UnitInv, TypeInv, Placed, Reserving
    <2>3. ASSUME NEW f \in Hold, NEW g \in Hold,
                 hold'[f].key, hold'[g].key, hold'[f].unit = hold'[g].unit
          PROVE  f = g
      <3>1. PICK w \in Unit : KeyedIn(hold', f, w) /\ KeyedIn(hold', g, w)
        BY <2>2, <2>3 DEF KeyedIn
      <3> QED BY <1>0, <1>6, <3>1 DEF HoldKeys, KeyedIn
    <2> QED BY <2>1, <2>3 DEF HoldKeys
  <1>8. KeysAgree'
    BY <1>0, <1>1, <1>7, Keys DEF BookingKeys, Live
  <1>9. ASSUME u \notin trespassed' PROVE UnitAgrees(u)'
    <2>1. AgreesIn(unit, hold, booking, u)
      BY <1>1, <1>9, Agrees DEF UnitInv, ClaimsAgree
    <2>2. \A b \in Booking : ~KeyedIn(booking, b, u)
      <3>1. CASE \E g \in H : hold[g].unit = u
        BY <1>0, <1>2, <2>1, <3>1 DEF AgreesIn, HoldKeys, KeyedIn
      <3>2. CASE unit[u] = "AVAILABLE"
        BY <1>0, <2>1, <3>2, IdleAgrees DEF Idle, BookingKeys, Unclaimed
      <3> QED BY <1>1, <3>1, <3>2 DEF UnitsExpiring, H
    <2>3. KeyedIn(hold', h, u) /\ hold'[h].type = unit'[u] /\ unit'[u] \in HoldType
      <3>1. unit'[u] = type
        BY <1>0, <1>1
      <3>2. hold'[h].type = type
        BY <1>4, <1>5
      <3> QED BY <1>6, <3>1, <3>2
    <2>4. \A b \in Booking : ~KeyedIn(booking', b, u)
      BY <1>1, <2>2
    <2> QED BY <2>3, <2>4, HeldAgrees, Agrees
  <1>10. ASSUME NEW w \in Unit, w \notin trespassed', w # u PROVE UnitAgrees(w)'
    <2>1. UnitAgrees(w) /\ unit'[w] = unit[w]
      BY <1>0, <1>1, <1>10 DEF UnitInv, ClaimsAgree
    <2>2. \A g \in Hold : KeyedIn(hold, g, w) => g # h /\ g \notin H
      BY <1>0, <1>1, <1>2, <1>10 DEF KeyedIn, HoldKeys, Reserving
    <2>3. \A g \in Hold : KeyedIn(hold, g, w) => hold'[g].type = hold[g].type
      BY <1>3, <1>5, <2>2
    <2>4. \A g \in Hold : KeyedIn(hold', g, w) <=> KeyedIn(hold, g, w)
      BY <1>6, <1>10, <2>2
    <2> QED BY <1>1, <2>1, <2>3, <2>4, Frame DEF KeyedIn
  <1> QED BY <1>8, <1>9, <1>10 DEF ClaimsAgree

LEMMA HoldStepKeeps == ASSUME UnitInv, HoldStep PROVE KeysAgree' /\ ClaimsAgree'
  <1>0. /\ HoldKeys /\ BookingKeys /\ unit \in [Unit -> UnitStatus]
        /\ hold \in [Hold -> HoldRow] /\ (\A h \in Hold : hold[h] \in HoldRow)
    BY Keys DEF UnitInv, TypeInv, TypeOK
  <1>1. ASSUME NEW u, ExpireAndRefuse(u) PROVE KeysAgree' /\ ClaimsAgree'
    <2>1. /\ OverdueOn(u) \in SUBSET Hold /\ (\A h \in OverdueOn(u) : hold[h].status \in Reserving)
          /\ hold' = HoldsExpiring(OverdueOn(u)) /\ unit' = UnitsExpiring(OverdueOn(u))
          /\ booking' = booking /\ trespassed' = trespassed
      BY <1>1, Overdue DEF ExpireAndRefuse
    <2> QED BY <2>1, ExpiringKeeps
  <1>2. CASE ExpireDueHolds
    <2>1. PICK H \in SUBSET UNION {OverdueOn(u) : u \in Unit} :
             hold' = HoldsExpiring(H) /\ unit' = UnitsExpiring(H)
      BY <1>2 DEF ExpireDueHolds
    <2>2. H \in SUBSET Hold /\ (\A g \in H : hold[g].status \in Reserving)
      BY Overdue
    <2>3. booking' = booking /\ trespassed' = trespassed
      BY <1>2 DEF ExpireDueHolds
    <2> QED BY <2>1, <2>2, <2>3, ExpiringKeeps
  <1>3. ASSUME NEW h \in Hold, FallDue(h) PROVE KeysAgree' /\ ClaimsAgree'
    <2>1. HoldsEnd({})
      BY <1>0, <1>3 DEF FallDue, HoldsEnd, HoldRow
    <2> QED BY <1>3, <2>1, EndingHolds DEF FallDue
  <1>4. ASSUME NEW v \in Views, NEW h \in Hold, NEW actor \in User, ApproveHold(v, h, actor)
        PROVE  KeysAgree' /\ ClaimsAgree'
    <2>1. hold[h].status \in Reserving
      BY <1>4 DEF ApproveHold, DecidableHold, ValidOn
    <2>2. \A g \in Hold : /\ hold'[g].key = hold[g].key /\ hold'[g].unit = hold[g].unit
                          /\ hold'[g].type = hold[g].type
                          /\ hold'[g].status = IF g = h THEN "ACTIVE" ELSE hold[g].status
      BY <1>0, <1>4 DEF ApproveHold, HoldRow
    <2>3. HoldsEnd({})
      BY <2>1, <2>2 DEF HoldsEnd, Reserving
    <2> QED BY <1>4, <2>3, EndingHolds DEF ApproveHold
  <1>5. ASSUME NEW v \in Views, NEW h \in Hold, NEW actor \in User, RejectHold(v, h, actor)
        PROVE  KeysAgree' /\ ClaimsAgree'
    <2>1. hold[h].status \in Reserving
      BY <1>5 DEF RejectHold, DecidableHold, ValidOn
    <2>2. /\ hold' = [hold EXCEPT ![h] = Ended(hold[h], "REJECTED")]
          /\ unit' = [unit EXCEPT ![hold[h].unit] = "AVAILABLE"]
          /\ booking' = booking /\ trespassed' = trespassed
      BY <1>5 DEF RejectHold
    <2>3. ~Ended(hold[h], "REJECTED").key /\ Ended(hold[h], "REJECTED").status = "REJECTED"
      BY <1>0, EndedHold, HoldStatuses
    <2>4. HoldsEnd({h})
      BY <1>0, <2>1, <2>2, <2>3 DEF HoldsEnd, Reserving
    <2> QED BY <1>0, <2>2, <2>4, EndingHolds
  <1>6. ASSUME NEW u \in Unit, ReleaseHold(u), ~ExpireAndRefuse(u) PROVE KeysAgree' /\ ClaimsAgree'
    <2> DEFINE H == ValidOn(u)
    <2>1. /\ hold' = [h \in Hold |-> IF h \in H THEN Ended(hold[h], "RELEASED") ELSE hold[h]]
          /\ unit' = [unit EXCEPT ![u] = "AVAILABLE"]
          /\ booking' = booking /\ trespassed' = trespassed /\ H # {}
      BY <1>6 DEF ReleaseHold
    <2>2. H \in SUBSET Hold /\ (\A h \in H : hold[h].status \in Reserving /\ hold[h].unit = u)
      BY DEF ValidOn
    <2> HIDE DEF H
    <2>3. \A h \in H : ~hold'[h].key /\ hold'[h].status = "RELEASED"
      BY <1>0, <2>1, <2>2, EndedHold, HoldStatuses
    <2>4. HoldsEnd(H)
      BY <1>0, <2>1, <2>2, <2>3 DEF HoldsEnd, Reserving
    <2> QED BY <1>0, <2>1, <2>2, <2>4, EndingHolds
  <1> QED BY <1>1, <1>2, <1>3, <1>4, <1>5, <1>6, CreateHoldKeeps DEF HoldStep, DecideHold

(* The two handlers that open a booking.                                   *)
LEMMA InitiateBookingKeeps ==
    ASSUME UnitInv, NEW v \in Views, NEW b \in Booking, NEW u \in Unit, NEW c \in Customer,
           InitiateBooking(v, b, u, c)
    PROVE  KeysAgree' /\ ClaimsAgree'
  <1>0. /\ HoldKeys /\ (\A h \in Hold : hold[h] \in HoldRow)
        /\ hold \in [Hold -> HoldRow]
    BY Keys DEF UnitInv, TypeInv, TypeOK
  <1> DEFINE V == ValidOn(u)
             O == OverdueOn(u)
             r == NewBooking(u, c, FALSE, "DRAFT")
  <1>1. /\ V \cup O \in SUBSET Hold
        /\ \A h \in V \cup O : hold[h].status \in Reserving /\ hold[h].unit = u
        /\ \A h \in Hold : hold[h].status \in Reserving /\ hold[h].unit = u => h \in V \cup O
    BY Overdue DEF ValidOn
  <1>2. hold' = [h \in Hold |-> IF h \in V THEN Ended(hold[h], "CONVERTED")
                                ELSE IF h \in O THEN Ended(hold[h], "EXPIRED") ELSE hold[h]]
    BY DEF InitiateBooking, HoldsExpiring
  <1>3. /\ booking[b].status = "NONE" /\ BookingsKeyedTo(u) = {}
        /\ booking' = [booking EXCEPT ![b] = r]
        /\ unit' = [unit EXCEPT ![u] = "BOOKING_INITIATED"] /\ trespassed' = trespassed
    BY DEF InitiateBooking, Unbooked
  <1>4. r.key /\ r.unit = u /\ r.status \in Open
    BY DEF NewBooking, Open
  <1> HIDE DEF V, O, r
  <1>5. \A h \in V \cup O : ~hold'[h].key /\ hold'[h].status \in {"CONVERTED", "EXPIRED"}
    BY <1>0, <1>1, <1>2, EndedHold, HoldStatuses
  <1>6. HoldsEnd(V \cup O)
    BY <1>1, <1>2, <1>5 DEF HoldsEnd, Reserving
  <1>7. \A h \in Hold : KeyedIn(hold, h, u) => h \in V \cup O
    BY <1>0, <1>1 DEF HoldKeys, KeyedIn
  <1>8. \A a \in Booking : ~KeyedIn(booking, a, u)
    BY <1>3 DEF BookingsKeyedTo, KeyedIn
  <1> QED BY <1>1, <1>3, <1>4, <1>6, <1>7, <1>8, TakingUnit

LEMMA CreateBookingKeeps ==
    ASSUME UnitInv, NEW v \in Views, NEW b \in Booking, NEW h \in Hold, CreateBooking(v, b, h)
    PROVE  KeysAgree' /\ ClaimsAgree'
  <1>0. /\ HoldKeys /\ (\A g \in Hold : hold[g] \in HoldRow)
        /\ hold \in [Hold -> HoldRow]
    BY Keys DEF UnitInv, TypeInv, TypeOK
  <1> DEFINE r == NewBooking(hold[h].unit, hold[h].customer, TRUE, "PAYMENT_PENDING")
  <1>1. /\ booking[b].status = "NONE" /\ BookingsKeyedTo(hold[h].unit) = {}
        /\ booking' = [booking EXCEPT ![b] = r]
        /\ unit' = [unit EXCEPT ![hold[h].unit] = "BOOKING_INITIATED"]
        /\ trespassed' = trespassed
        /\ hold' = [hold EXCEPT ![h] = Ended(hold[h], "CONVERTED")]
        /\ hold[h].status = "ACTIVE"
    BY DEF CreateBooking, Unbooked
  <1>2. r.key /\ r.unit = hold[h].unit /\ r.status \in Open
    BY DEF NewBooking, Open
  <1>3. hold[h].unit \in Unit
    BY <1>1 DEF UnitInv, TypeInv, Placed
  <1> HIDE DEF r
  <1>4. ~hold'[h].key /\ hold'[h].status = "CONVERTED"
    BY <1>0, <1>1, EndedHold, HoldStatuses
  <1>5. HoldsEnd({h})
    BY <1>0, <1>1, <1>4 DEF HoldsEnd, Reserving
  <1>6. \A g \in Hold : KeyedIn(hold, g, hold[h].unit) => g \in {h}
    BY <1>0, <1>1 DEF HoldKeys, KeyedIn, Reserving
  <1>7. \A a \in Booking : ~KeyedIn(booking, a, hold[h].unit)
    BY <1>1 DEF BookingsKeyedTo, KeyedIn
  <1>8. PICK u \in Unit : u = hold[h].unit
    BY <1>3
  <1> QED BY <1>1, <1>2, <1>5, <1>6, <1>7, <1>8, TakingUnit

(* Confirming a sale: the approver may see a booking that has lost the    *)
(* unit, and then it is trespassed upon or it was nobody's to confirm.     *)
LEMMA ConfirmKeeps ==
    ASSUME UnitInv, NEW v \in Views, NEW b \in Booking, NEW i \in DOMAIN approval[b],
           ConfirmBooking(v, b, i)
    PROVE  KeysAgree' /\ ClaimsAgree'
  <1>0. /\ HoldKeys /\ BookingKeys /\ unit \in [Unit -> UnitStatus]
        /\ booking \in [Booking -> BookingRow] /\ "CONFIRMED" \notin Open
        /\ "CONFIRMED" \in BookingStatus
    BY Keys, StatusKinds, BookingStatuses DEF UnitInv, TypeInv, TypeOK
  <1>1. PICK u \in Unit : u = v.booking[b].unit /\ u = booking[b].unit
    BY ViewsFaithful DEF UnitInv, ConfirmBooking, Decidable
  <1>2. /\ booking' = [booking EXCEPT ![b].status = "CONFIRMED"]
        /\ unit' = [unit EXCEPT ![u] = "BOOKED"] /\ unit[u] = "BOOKING_INITIATED"
        /\ trespassed' = Trespass(b, u) /\ hold' = hold
    BY <1>1 DEF ConfirmBooking
  <1>3. \A a \in Booking :
           /\ booking'[a].key = booking[a].key /\ booking'[a].unit = booking[a].unit
           /\ booking'[a].status = IF a = b THEN "CONFIRMED" ELSE booking[a].status
    BY <1>0, <1>2 DEF BookingRow
  <1>4. KeysAgree'
    <2>1. BookingKeys'
      BY <1>0, <1>3 DEF BookingKeys, Live
    <2>2. HoldKeys'
      BY <1>0, <1>2 DEF HoldKeys
    <2> QED BY <2>1, <2>2, Keys
  <1>5. \A w \in Unit, a \in Booking : KeyedIn(booking', a, w) <=> KeyedIn(booking, a, w)
    BY <1>3 DEF KeyedIn
  <1>6. ASSUME u \notin trespassed' PROVE UnitAgrees(u)'
    <2>1. u \notin trespassed /\ (booking[b].key \/ ~Claimed(u))
      BY <1>2, <1>6 DEF Trespass
    <2>2. AgreesIn(unit, hold, booking, u)
      BY <2>1, Agrees DEF UnitInv, ClaimsAgree
    <2>3. PICK a \in Booking : KeyedIn(booking, a, u)
      BY <1>2, <2>2 DEF AgreesIn
    <2>4. Claimed(u)
      BY <2>3 DEF Claimed, BookingsKeyedTo, KeyedIn
    <2>5. KeyedIn(booking, b, u)
      BY <1>1, <2>1, <2>4 DEF KeyedIn
    <2>6. \A c \in Booking : KeyedIn(booking', c, u) => c = b
      BY <1>0, <1>5, <2>5 DEF BookingKeys, KeyedIn
    <2>7. \A h \in Hold : ~KeyedIn(hold', h, u)
      BY <1>2, <2>2, <2>5 DEF AgreesIn
    <2>8. unit'[u] \in Sold /\ booking'[b].status = "CONFIRMED" /\ KeyedIn(booking', b, u)
      BY <1>0, <1>2, <1>3, <1>5, <2>5 DEF Sold
    <2> QED BY <2>6, <2>7, <2>8, BookedAgrees, Agrees
  <1>7. ASSUME NEW w \in Unit, w \notin trespassed', w # u PROVE UnitAgrees(w)'
    <2>1. UnitAgrees(w) /\ unit'[w] = unit[w]
      BY <1>0, <1>2, <1>7 DEF UnitInv, ClaimsAgree, Trespass
    <2>2. \A a \in Booking : KeyedIn(booking, a, w) => booking'[a].status = booking[a].status
      BY <1>1, <1>3, <1>7 DEF KeyedIn
    <2>3. \A h \in Hold : /\ KeyedIn(hold', h, w) <=> KeyedIn(hold, h, w)
                          /\ hold'[h].type = hold[h].type
      BY <1>2
    <2> QED BY <1>5, <2>1, <2>2, <2>3, Frame
  <1> QED BY <1>4, <1>6, <1>7 DEF ClaimsAgree

LEMMA BookingStepKeeps == ASSUME UnitInv, BookingStep PROVE KeysAgree' /\ ClaimsAgree'
  <1>0. \A b \in Booking : booking[b] \in BookingRow
    BY DEF UnitInv, TypeInv, TypeOK
  <1>1. \A b \in Booking : \A s \in {"REJECTED", "CANCELLED"} :
           ~Ended(booking[b], s).key /\ Ended(booking[b], s).status = s
    <2> TAKE b \in Booking, s \in {"REJECTED", "CANCELLED"}
    <2>1. booking[b] \in BookingRow /\ s \in BookingStatus
      BY <1>0, BookingStatuses
    <2> QED BY <2>1, EndedBooking
  <1>2. ASSUME NEW b \in Booking, AdvanceBooking(b) PROVE KeysAgree' /\ ClaimsAgree'
    <2>1. PICK s \in NextStatus[booking[b].status] : booking' = [booking EXCEPT ![b].status = s]
      BY <1>2 DEF AdvanceBooking
    <2>2. booking[b].status \in Open /\ s \in Open
      BY <1>0, <2>1 DEF NextStatus, Open, BookingRow
    <2> QED BY <1>2, <2>1, <2>2, MovingOn DEF AdvanceBooking
  <1>3. ASSUME NEW b \in Booking, NEW actor \in User, RequestApproval(b, actor)
        PROVE  KeysAgree' /\ ClaimsAgree'
    <2>1. "APPROVAL" \in Open /\ booking[b].status \in Open
      BY <1>3 DEF RequestApproval, Open
    <2>2. booking' = [booking EXCEPT ![b].status = "APPROVAL"] /\ UNCHANGED <<unit, hold, trespassed>>
      BY <1>3 DEF RequestApproval
    <2> QED BY <2>1, <2>2, MovingOn
  <1>4. ASSUME NEW b \in Booking, TransitionBooking(b) PROVE KeysAgree' /\ ClaimsAgree'
    <2>1. PICK u \in Unit : u = booking[b].unit
      BY <1>4 DEF TransitionBooking, UnitInv, TypeInv, Placed
    <2> QED BY <1>1, <1>4, <2>1, LeavingUnit DEF TransitionBooking
  <1>5. ASSUME NEW v \in Views, NEW b \in Booking, CancelBooking(v, b)
        PROVE  KeysAgree' /\ ClaimsAgree'
    <2>1. PICK u \in Unit : u = booking[b].unit /\ u = v.booking[b].unit
      BY <1>5, ViewsFaithful DEF CancelBooking, Open, UnitInv
    <2> QED BY <1>1, <1>5, <2>1, LeavingUnit DEF CancelBooking
  <1>6. ASSUME NEW v \in Views, NEW b \in Booking, NEW i \in DOMAIN approval[b],
               DecideApproval(v, b, i)
        PROVE  KeysAgree' /\ ClaimsAgree'
    <2>1. CASE RejectBooking(v, b, i)
      <3>1. PICK u \in Unit : u = booking[b].unit /\ u = v.booking[b].unit
        BY <2>1, ViewsFaithful DEF RejectBooking, Decidable, UnitInv
      <3> QED BY <1>1, <2>1, <3>1, LeavingUnit DEF RejectBooking
    <2>2. CASE ApproveStep(v, b, i)
      <3>1. UNCHANGED <<unit, hold, booking, trespassed>>
        BY <2>2 DEF ApproveStep
      <3> QED BY <3>1 DEF UnitInv, KeysAgree, ClaimsAgree, UnitAgrees,
                          HoldsKeyedTo, BookingsKeyedTo
    <2> QED BY <1>6, <2>1, <2>2, ConfirmKeeps DEF DecideApproval
  <1> QED BY <1>2, <1>3, <1>4, <1>5, <1>6, InitiateBookingKeeps, CreateBookingKeeps
          DEF BookingStep

LEMMA UnitInvStep == UnitInv /\ [Next]_vars => UnitInv'
  <1> SUFFICES ASSUME UnitInv, [Next]_vars PROVE UnitInv'
    OBVIOUS
  <1>1. TypeInv'
    BY TypeStep DEF UnitInv
  <1>2. CASE UNCHANGED <<unit, hold, booking, trespassed>>
    BY <1>1, <1>2 DEF UnitInv, KeysAgree, ClaimsAgree, UnitAgrees, HoldsKeyedTo, BookingsKeyedTo
  <1>3. ASSUME NEW s \in Session, Begin(s) PROVE UnitInv'
    BY <1>2, <1>3 DEF Begin, rows
  <1> QED BY <1>1, <1>2, <1>3, UnitStepKeeps, HoldStepKeeps, BookingStepKeeps
          DEF Next, vars, UnitInv

LEMMA UnitInvInit == Init => UnitInv
  <1> SUFFICES ASSUME Init PROVE UnitInv
    OBVIOUS
  <1>1. /\ \A h \in Hold : hold[h].status = "NONE" /\ ~hold[h].key
        /\ \A b \in Booking : booking[b].status = "NONE" /\ ~booking[b].key
        /\ \A u \in Unit : unit[u] = "NONE"
    BY DEF Init, NoHold, NoBooking
  <1>2. KeysAgree
    BY <1>1 DEF KeysAgree, Open, Reserving
  <1>3. ClaimsAgree
    BY <1>1 DEF ClaimsAgree, UnitAgrees, HoldsKeyedTo, BookingsKeyedTo, HoldType
  <1> QED BY <1>2, <1>3, TypeInit DEF UnitInv

(* A unit and its one claimant agree in every reachable state: for any    *)
(* number of units, holds, bookings, users and concurrent sessions.        *)
THEOREM ClaimsCorrect == Spec => []ClaimsAgree
  <1>1. Spec => []UnitInv
    BY UnitInvInit, UnitInvStep, PTL DEF Spec
  <1>2. UnitInv => ClaimsAgree
    BY DEF UnitInv
  <1> QED BY <1>1, <1>2, PTL

(* The keys the unique indexes are built on agree with the statuses, and   *)
(* are held by one row each.                                               *)
THEOREM KeysCorrect == Spec => []KeysAgree
  <1>1. Spec => []UnitInv
    BY UnitInvInit, UnitInvStep, PTL DEF Spec
  <1>2. UnitInv => KeysAgree
    BY DEF UnitInv
  <1> QED BY <1>1, <1>2, PTL

(***************************************************************************)
(* UnitInventory implements UnitClaims.                                    *)
(*                                                                         *)
(* The refinement mapping is read row by row: a hold or a booking is       *)
(* Followed when it has the key of a unit nobody trespassed on, and the    *)
(* mapped claim of a unit is who is followed to it.  The "...Map" lemmas   *)
(* say which step of UnitClaims a change of followed rows is; one lemma    *)
(* per handler then says how it changes them.                              *)
(***************************************************************************)
Follows(b) == booking[b].key /\ Kept(booking[b].unit)

StageMap == [u \in Unit |-> Stage(u)]
ClaimMap == [u \in Unit |-> Claim(u)]
ApprovedSet == {h \in Hold : Followed(h) /\ hold[h].status = "ACTIVE"}
OverdueSet == {h \in Hold : Followed(h) /\ hold[h].due}
SpentSet == {h \in Hold : hold[h].status # "NONE"}
            \cup {b \in Booking : booking[b].status # "NONE"}

(* A step as UnitClaims sees it.                                           *)
Allowed == [Claims!Next]_(Claims!vars)

LEMMA ClaimIs ==
    ASSUME NEW u \in Unit
    PROVE  /\ Claim(u) = {h \in Hold : Followed(h) /\ hold[h].unit = u}
                         \cup {b \in Booking : Follows(b) /\ booking[b].unit = u}
           /\ Claim(u)' = {h \in Hold : Followed(h)' /\ hold'[h].unit = u}
                          \cup {b \in Booking : Follows(b)' /\ booking'[b].unit = u}
  <1>1. Claim(u) = {h \in Hold : Followed(h) /\ hold[h].unit = u}
                   \cup {b \in Booking : Follows(b) /\ booking[b].unit = u}
    BY DEF Claim, Followed, Follows, HoldsKeyedTo, BookingsKeyedTo, Kept
  <1>2. Claim(u)' = {h \in Hold : Followed(h)' /\ hold'[h].unit = u}
                    \cup {b \in Booking : Follows(b)' /\ booking'[b].unit = u}
    BY DEF Claim, Followed, Follows, HoldsKeyedTo, BookingsKeyedTo, Kept
  <1> QED BY <1>1, <1>2

LEMMA ClaimStays ==
    ASSUME NEW w \in Unit,
           \A h \in Hold : Followed(h)' /\ hold'[h].unit = w <=> Followed(h) /\ hold[h].unit = w,
           \A b \in Booking :
              Follows(b)' /\ booking'[b].unit = w <=> Follows(b) /\ booking[b].unit = w
    PROVE  Claim(w)' = Claim(w)
  <1>1. {h \in Hold : Followed(h)' /\ hold'[h].unit = w}
        = {h \in Hold : Followed(h) /\ hold[h].unit = w}
    OBVIOUS
  <1>2. {b \in Booking : Follows(b)' /\ booking'[b].unit = w}
        = {b \in Booking : Follows(b) /\ booking[b].unit = w}
    OBVIOUS
  <1> QED BY <1>1, <1>2, ClaimIs

(* What the inventory's own invariant says of a kept unit, as mapped.      *)
LEMMA Standing ==
    ASSUME UnitInv, NEW u \in Unit, Kept(u)
    PROVE  /\ \A h \in Hold : KeyedIn(hold, h, u) =>
                 /\ unit[u] \in HoldType /\ Stage(u) = "held" /\ Claim(u) = {h}
                 /\ \A b \in Booking : ~KeyedIn(booking, b, u)
           /\ \A b \in Booking : KeyedIn(booking, b, u) =>
                 /\ Stage(u) \in {"booking", "sold"} /\ Claim(u) = {b}
                 /\ \A h \in Hold : ~KeyedIn(hold, h, u)
           /\ Unclaimed(hold, booking, u) =>
                 Claim(u) = {} /\ Stage(u) \in {"unlisted", "open", "withheld"}
           /\ unit[u] \in HoldType => Stage(u) = "held" /\ \E h \in Hold : KeyedIn(hold, h, u)
           /\ unit[u] \in Idle => Unclaimed(hold, booking, u)
           /\ unit[u] = "BOOKING_INITIATED" => \E b \in Booking : KeyedIn(booking, b, u)
  <1>0. /\ HoldKeys /\ BookingKeys /\ AgreesIn(unit, hold, booking, u) /\ unit[u] \in UnitStatus
        /\ u \notin trespassed
    BY Keys, Agrees DEF UnitInv, ClaimsAgree, TypeInv, TypeOK, Kept
  <1>1. Claim(u) = {h \in Hold : KeyedIn(hold, h, u)} \cup {b \in Booking : KeyedIn(booking, b, u)}
    BY DEF Claim, KeyedIn, HoldsKeyedTo, BookingsKeyedTo
  <1>2. ASSUME NEW h \in Hold, KeyedIn(hold, h, u)
        PROVE  /\ unit[u] \in HoldType /\ Stage(u) = "held" /\ Claim(u) = {h}
               /\ \A b \in Booking : ~KeyedIn(booking, b, u)
    <2>1. unit[u] \in HoldType /\ (\A b \in Booking : ~KeyedIn(booking, b, u))
      BY <1>0, <1>2 DEF AgreesIn
    <2>2. \A g \in Hold : KeyedIn(hold, g, u) => g = h
      BY <1>0, <1>2 DEF HoldKeys, KeyedIn
    <2>3. Claim(u) = {h}
      BY <1>1, <1>2, <2>1, <2>2
    <2>4. Stage(u) = "held"
      BY <2>1 DEF Stage, HoldType
    <2> QED BY <2>1, <2>3, <2>4
  <1>3. ASSUME NEW b \in Booking, KeyedIn(booking, b, u)
        PROVE  /\ Stage(u) \in {"booking", "sold"} /\ Claim(u) = {b}
               /\ \A h \in Hold : ~KeyedIn(hold, h, u)
    <2>1. \A h \in Hold : ~KeyedIn(hold, h, u)
      BY <1>0, <1>3 DEF AgreesIn
    <2>2. \A a \in Booking : KeyedIn(booking, a, u) => a = b
      BY <1>0, <1>3 DEF BookingKeys, KeyedIn
    <2>3. Claim(u) = {b}
      BY <1>1, <1>3, <2>1, <2>2
    <2>4. booking[b].status \in Open \/ booking[b].status = "CONFIRMED"
      BY <1>0, <1>3 DEF BookingKeys, Live, KeyedIn
    <2>5. unit[u] = "BOOKING_INITIATED" \/ unit[u] \in Sold
      BY <1>0, <1>3, <2>4 DEF AgreesIn
    <2>6. Stage(u) \in {"booking", "sold"}
      BY <1>0, <2>5 DEF Stage, Sold, HoldType
    <2> QED BY <2>1, <2>3, <2>6
  <1>4. unit[u] \in HoldType => Stage(u) = "held" /\ \E h \in Hold : KeyedIn(hold, h, u)
    BY <1>0, <1>2 DEF AgreesIn
  <1>5. unit[u] = "BOOKING_INITIATED" => \E b \in Booking : KeyedIn(booking, b, u)
    BY <1>0 DEF AgreesIn
  <1>6. unit[u] \in Idle => Unclaimed(hold, booking, u)
    BY <1>0, IdleAgrees DEF BookingKeys
  <1>7. ASSUME Unclaimed(hold, booking, u)
        PROVE  Claim(u) = {} /\ Stage(u) \in {"unlisted", "open", "withheld"}
    <2>1. Claim(u) = {}
      BY <1>1, <1>7 DEF Unclaimed
    <2>2. unit[u] \in Idle
      BY <1>0, <1>7, StatusKinds DEF AgreesIn, Unclaimed
    <2>3. Stage(u) \in {"unlisted", "open", "withheld"}
      BY <1>0, <2>2 DEF Stage, Idle, Kept, HoldType
    <2> QED BY <2>1, <2>3
  <1> QED BY <1>2, <1>3, <1>4, <1>5, <1>6, <1>7

-----------------------------------------------------------------------------
(* Which step of UnitClaims a change of followed rows is.                  *)

(* A followed row that stays followed stays on its unit.                   *)
RowsStay ==
    /\ \A h \in Hold : Followed(h) /\ Followed(h)' =>
          /\ hold'[h].unit = hold[h].unit /\ hold'[h].due = hold[h].due
          /\ hold'[h].status = "ACTIVE" <=> hold[h].status = "ACTIVE"
    /\ \A b \in Booking : Follows(b) /\ Follows(b)' => booking'[b].unit = booking[b].unit

(* The units in U lose whom they follow, the others keep them.             *)
Dropped(U) ==
    /\ \A h \in Hold : Followed(h)' <=> Followed(h) /\ hold[h].unit \notin U
    /\ \A b \in Booking : Follows(b)' <=> Follows(b) /\ booking[b].unit \notin U
    /\ RowsStay

SpentStays ==
    /\ \A h \in Hold : hold'[h].status = "NONE" <=> hold[h].status = "NONE"
    /\ \A b \in Booking : booking'[b].status = "NONE" <=> booking[b].status = "NONE"

StagesBut(U, s) == \A u \in Unit : Stage(u)' = IF u \in U THEN s ELSE Stage(u)

LEMMA DroppedMap ==
    ASSUME NEW U \in SUBSET Unit, Dropped(U)
    PROVE  /\ ClaimMap' = [u \in Unit |-> IF u \in U THEN {} ELSE ClaimMap[u]]
           /\ ApprovedSet' = ApprovedSet \ UNION {ClaimMap[u] : u \in U}
           /\ OverdueSet' = OverdueSet \ UNION {ClaimMap[u] : u \in U}
  <1>1. ASSUME NEW u \in Unit PROVE Claim(u)' = IF u \in U THEN {} ELSE Claim(u)
    <2>1. CASE u \in U
      BY <2>1, ClaimIs DEF Dropped, RowsStay
    <2>2. CASE u \notin U
      <3>1. \A h \in Hold : Followed(h)' /\ hold'[h].unit = u <=> Followed(h) /\ hold[h].unit = u
        BY <2>2 DEF Dropped, RowsStay
      <3>2. \A b \in Booking :
               Follows(b)' /\ booking'[b].unit = u <=> Follows(b) /\ booking[b].unit = u
        BY <2>2 DEF Dropped, RowsStay
      <3>3. Claim(u)' = Claim(u)
        BY <3>1, <3>2, ClaimStays
      <3> QED BY <2>2, <3>3
    <2> QED BY <2>1, <2>2
  <1>2. ASSUME NEW h \in Hold, Followed(h)
        PROVE  hold[h].unit \in U <=> h \in UNION {ClaimMap[u] : u \in U}
    <2>1. \A u \in U : h \in Claim(u) <=> hold[h].unit = u
      BY <1>2, ClaimIs, IdentitiesAssumption
    <2>2. \A u \in U : ClaimMap[u] = Claim(u)
      BY DEF ClaimMap
    <2> QED BY <2>1, <2>2
  <1>3. ApprovedSet' = ApprovedSet \ UNION {ClaimMap[u] : u \in U}
    BY <1>2 DEF ApprovedSet, Dropped, RowsStay
  <1>4. OverdueSet' = OverdueSet \ UNION {ClaimMap[u] : u \in U}
    BY <1>2 DEF OverdueSet, Dropped, RowsStay
  <1> QED BY <1>1, <1>3, <1>4 DEF ClaimMap

LEMMA SpentMap == ASSUME SpentStays PROVE SpentSet' = SpentSet
  BY DEF SpentStays, SpentSet

LEMMA FreeMap ==
    ASSUME NEW U \in SUBSET Unit, NEW s, Dropped(U), StagesBut(U, s), SpentStays
    PROVE  Claims!Free(U, s)
  <1>1. StageMap' = [u \in Unit |-> IF u \in U THEN s ELSE StageMap[u]]
    BY DEF StagesBut, StageMap
  <1> QED BY <1>1, DroppedMap, SpentMap
          DEF Claims!Free, StageMap, ClaimMap, ApprovedSet, OverdueSet, SpentSet

LEMMA SameMap ==
    ASSUME Dropped({}) PROVE UNCHANGED <<ClaimMap, ApprovedSet, OverdueSet>>
  <1>1. {} \in SUBSET Unit
    OBVIOUS
  <1>2. /\ ClaimMap' = [u \in Unit |-> IF u \in {} THEN {} ELSE ClaimMap[u]]
        /\ ApprovedSet' = ApprovedSet \ UNION {ClaimMap[u] : u \in {}}
        /\ OverdueSet' = OverdueSet \ UNION {ClaimMap[u] : u \in {}}
    BY <1>1, DroppedMap
  <1>3. ClaimMap' = ClaimMap
    BY <1>2 DEF ClaimMap
  <1>4. UNION {ClaimMap[u] : u \in {}} = {}
    OBVIOUS
  <1> QED BY <1>2, <1>3, <1>4

SameStages == \A u \in Unit : Stage(u)' = Stage(u)

LEMMA StutterMap ==
    ASSUME Dropped({}), SameStages, SpentStays PROVE Allowed
  <1>1. StageMap' = StageMap
    BY DEF SameStages, StageMap
  <1> QED BY <1>1, SameMap, SpentMap
          DEF Allowed, Claims!vars, StageMap, ClaimMap, ApprovedSet, OverdueSet, SpentSet

LEMMA OfferMap ==
    ASSUME NEW u \in Unit, NEW s \in {"unlisted", "open", "withheld"},
           Stage(u) \in {"unlisted", "open", "withheld"},
           Dropped({}), StagesBut({u}, s), SpentStays
    PROVE  Claims!Offer(u)
  <1>1. StageMap' = [StageMap EXCEPT ![u] = s] /\ StageMap[u] = Stage(u)
    BY DEF StagesBut, StageMap
  <1> QED BY <1>1, SameMap, SpentMap
          DEF Claims!Offer, StageMap, ClaimMap, ApprovedSet, OverdueSet, SpentSet

(* The claim of u passes to a hold, or to a booking, inserted by the step. *)
LEMMA TakeHoldMap ==
    ASSUME NEW u \in Unit, NEW h \in Hold, NEW s, StagesBut({u}, s), RowsStay,
           hold[h].status = "NONE", ~Followed(h), Followed(h)',
           hold'[h].unit = u, ~hold'[h].due, hold'[h].status \notin {"NONE", "ACTIVE"},
           \A g \in Hold \ {h} : Followed(g)' <=> Followed(g) /\ hold[g].unit # u,
           \A b \in Booking : Follows(b)' <=> Follows(b) /\ booking[b].unit # u,
           \A g \in Hold \ {h} : hold'[g].status = "NONE" <=> hold[g].status = "NONE",
           \A b \in Booking : booking'[b].status = "NONE" <=> booking[b].status = "NONE"
    PROVE  Claims!Take(u, h, s)
  <1>1. StageMap' = [StageMap EXCEPT ![u] = s]
    BY DEF StagesBut, StageMap
  <1>2. ASSUME NEW w \in Unit PROVE Claim(w)' = IF w = u THEN {h} ELSE Claim(w)
    <2>1. CASE w = u
      <3>1. \A g \in Hold : Followed(g)' /\ hold'[g].unit = u <=> g = h
        BY DEF RowsStay
      <3>2. \A b \in Booking : ~(Follows(b)' /\ booking'[b].unit = u)
        BY DEF RowsStay
      <3>3. Claim(u)' = {h}
        BY <3>1, <3>2, ClaimIs
      <3> QED BY <2>1, <3>3
    <2>2. CASE w # u
      <3>1. \A g \in Hold : Followed(g)' /\ hold'[g].unit = w <=> Followed(g) /\ hold[g].unit = w
        BY <2>2 DEF RowsStay
      <3>2. \A b \in Booking :
               Follows(b)' /\ booking'[b].unit = w <=> Follows(b) /\ booking[b].unit = w
        BY <2>2 DEF RowsStay
      <3>3. Claim(w)' = Claim(w)
        BY <3>1, <3>2, ClaimStays
      <3> QED BY <2>2, <3>3
    <2> QED BY <2>1, <2>2
  <1>3. ClaimMap' = [ClaimMap EXCEPT ![u] = {h}] /\ ClaimMap[u] = Claim(u)
    BY <1>2 DEF ClaimMap
  <1>4. \A g \in Hold : Followed(g) => (g \in Claim(u) <=> hold[g].unit = u)
    BY ClaimIs, IdentitiesAssumption
  <1>5. ApprovedSet' = ApprovedSet \ ClaimMap[u]
    BY <1>3, <1>4 DEF ApprovedSet, RowsStay
  <1>6. OverdueSet' = OverdueSet \ ClaimMap[u]
    BY <1>3, <1>4 DEF OverdueSet, RowsStay
  <1>7. SpentSet' = SpentSet \cup {h} /\ h \notin SpentSet
    BY IdentitiesAssumption DEF SpentSet
  <1> QED BY <1>1, <1>3, <1>5, <1>6, <1>7
          DEF Claims!Take, StageMap, ClaimMap, ApprovedSet, OverdueSet, SpentSet

LEMMA TakeBookingMap ==
    ASSUME NEW u \in Unit, NEW b \in Booking, NEW s, StagesBut({u}, s), RowsStay,
           booking[b].status = "NONE", ~Follows(b), Follows(b)',
           booking'[b].unit = u, booking'[b].status # "NONE",
           \A h \in Hold : Followed(h)' <=> Followed(h) /\ hold[h].unit # u,
           \A a \in Booking \ {b} : Follows(a)' <=> Follows(a) /\ booking[a].unit # u,
           \A h \in Hold : hold'[h].status = "NONE" <=> hold[h].status = "NONE",
           \A a \in Booking \ {b} : booking'[a].status = "NONE" <=> booking[a].status = "NONE"
    PROVE  Claims!Take(u, b, s)
  <1>1. StageMap' = [StageMap EXCEPT ![u] = s]
    BY DEF StagesBut, StageMap
  <1>2. ASSUME NEW w \in Unit PROVE Claim(w)' = IF w = u THEN {b} ELSE Claim(w)
    <2>1. CASE w = u
      <3>1. \A h \in Hold : ~(Followed(h)' /\ hold'[h].unit = u)
        BY DEF RowsStay
      <3>2. \A a \in Booking : Follows(a)' /\ booking'[a].unit = u <=> a = b
        BY DEF RowsStay
      <3>3. Claim(u)' = {b}
        BY <3>1, <3>2, ClaimIs
      <3> QED BY <2>1, <3>3
    <2>2. CASE w # u
      <3>1. \A g \in Hold : Followed(g)' /\ hold'[g].unit = w <=> Followed(g) /\ hold[g].unit = w
        BY <2>2 DEF RowsStay
      <3>2. \A a \in Booking :
               Follows(a)' /\ booking'[a].unit = w <=> Follows(a) /\ booking[a].unit = w
        BY <2>2 DEF RowsStay
      <3>3. Claim(w)' = Claim(w)
        BY <3>1, <3>2, ClaimStays
      <3> QED BY <2>2, <3>3
    <2> QED BY <2>1, <2>2
  <1>3. ClaimMap' = [ClaimMap EXCEPT ![u] = {b}] /\ ClaimMap[u] = Claim(u)
    BY <1>2 DEF ClaimMap
  <1>4. \A g \in Hold : Followed(g) => (g \in Claim(u) <=> hold[g].unit = u)
    BY ClaimIs, IdentitiesAssumption
  <1>5. ApprovedSet' = ApprovedSet \ ClaimMap[u]
    BY <1>3, <1>4 DEF ApprovedSet, RowsStay
  <1>6. OverdueSet' = OverdueSet \ ClaimMap[u]
    BY <1>3, <1>4 DEF OverdueSet, RowsStay
  <1>7. SpentSet' = SpentSet \cup {b} /\ b \notin SpentSet
    BY IdentitiesAssumption DEF SpentSet
  <1> QED BY <1>1, <1>3, <1>5, <1>6, <1>7
          DEF Claims!Take, StageMap, ClaimMap, ApprovedSet, OverdueSet, SpentSet

(* On a contested unit only the new row's being spent is seen.             *)
LEMMA ContestedMap ==
    ASSUME NEW u \in Unit, NEW x \in Hold \cup Booking, Stage(u) = "contested",
           Dropped({}), SameStages,
           x \notin SpentSet, SpentSet' = SpentSet \cup {x}
    PROVE  Claims!TakeContested(u, x)
  <1>1. StageMap[u] = Stage(u) /\ StageMap' = StageMap
    BY DEF SameStages, StageMap
  <1> QED BY <1>1, SameMap
          DEF Claims!TakeContested, StageMap, ClaimMap, ApprovedSet, OverdueSet, SpentSet

-----------------------------------------------------------------------------
(* Handlers that end holds and touch no booking.                           *)

LEMMA EndingFrees ==
    ASSUME UnitInv, NEW H \in SUBSET Hold, HoldsEnd(H),
           \A h \in Hold \ H : hold'[h] = hold[h], \A h \in H : hold'[h].status # "NONE",
           booking' = booking, trespassed' = trespassed,
           NEW U \in SUBSET Unit,
           \A u \in Unit : u \in U <=> Kept(u) /\ \E h \in H : hold[h].unit = u,
           \A u \in U : unit'[u] = "AVAILABLE",
           \A u \in Unit \ U : Kept(u) => unit'[u] = unit[u]
    PROVE  /\ Claims!Free(U, "open")
           /\ \A u \in U : Stage(u) = "held" /\ \E h \in H : KeyedIn(hold, h, u) /\ Claim(u) = {h}
           /\ U = {} => Allowed
  <1>0. HoldKeys /\ BookingKeys
    BY Keys DEF UnitInv
  <1>1. \A h \in H : hold[h].key /\ hold[h].unit \in Unit /\ hold[h].status # "NONE"
    BY <1>0 DEF HoldsEnd, HoldKeys, Reserving, UnitInv, TypeInv, Placed
  <1>2. ASSUME NEW u \in U
        PROVE  /\ Stage(u) = "held" /\ \E h \in H : KeyedIn(hold, h, u) /\ Claim(u) = {h}
               /\ \A b \in Booking : ~KeyedIn(booking, b, u)
               /\ \A h \in Hold : KeyedIn(hold, h, u) => h \in H
    <2>1. PICK h \in H : hold[h].unit = u
      OBVIOUS
    <2>2. u \in Unit /\ Kept(u) /\ KeyedIn(hold, h, u)
      BY <1>1, <2>1 DEF KeyedIn
    <2>3. Stage(u) = "held" /\ Claim(u) = {h} /\ (\A b \in Booking : ~KeyedIn(booking, b, u))
      BY <2>2, Standing
    <2>4. \A g \in Hold : KeyedIn(hold, g, u) => g = h
      BY <1>0, <2>2 DEF HoldKeys, KeyedIn
    <2> QED BY <2>2, <2>3, <2>4
  <1>3. ASSUME NEW h \in Hold PROVE Followed(h)' <=> Followed(h) /\ hold[h].unit \notin U
    <2>1. CASE h \in H
      BY <1>1, <2>1 DEF Followed, Kept, HoldsEnd
    <2>2. CASE h \notin H
      BY <1>2, <2>2 DEF Followed, Kept, KeyedIn
    <2> QED BY <2>1, <2>2
  <1>4. ASSUME NEW b \in Booking PROVE Follows(b)' <=> Follows(b) /\ booking[b].unit \notin U
    BY <1>2 DEF Follows, Kept, KeyedIn
  <1>5. RowsStay
    BY DEF RowsStay, Followed, HoldsEnd
  <1>6. Dropped(U)
    BY <1>3, <1>4, <1>5 DEF Dropped
  <1>7. ASSUME NEW u \in Unit PROVE Stage(u)' = IF u \in U THEN "open" ELSE Stage(u)
    <2>1. Kept(u)' = Kept(u) /\ (u \in U => Kept(u))
      BY DEF Kept
    <2>2. CASE u \in U
      <3>1. Kept(u)' /\ unit'[u] = "AVAILABLE"
        BY <2>1, <2>2
      <3>2. Stage(u)' = "open"
        BY <3>1 DEF Stage, HoldType
      <3> QED BY <2>2, <3>2
    <2>3. CASE u \notin U /\ Kept(u)
      <3>1. unit'[u] = unit[u]
        BY <2>3
      <3> QED BY <2>1, <2>3, <3>1 DEF Stage
    <2>4. CASE u \notin U /\ ~Kept(u)
      BY <2>1, <2>4 DEF Stage
    <2> QED BY <2>2, <2>3, <2>4
  <1>8. StagesBut(U, "open")
    BY <1>7 DEF StagesBut
  <1>9. SpentStays
    BY <1>1 DEF SpentStays
  <1>10. U = {} => Allowed
    BY <1>6, <1>7, <1>9, StutterMap DEF SameStages
  <1> QED BY <1>2, <1>6, <1>9, <1>10, <1>8, FreeMap

LEMMA LapseAllowed ==
    ASSUME NEW U \in SUBSET Unit, Claims!Lapse(U) PROVE Allowed
  <1>1. \E W \in SUBSET Unit : Claims!Lapse(W)
    OBVIOUS
  <1>2. Claims!Next
    BY <1>1 DEF Claims!Next
  <1> QED BY <1>2 DEF Allowed

LEMMA ExpiringAllowed ==
    ASSUME UnitInv, NEW H \in SUBSET Hold,
           \A h \in H : hold[h].status \in Reserving /\ hold[h].due,
           hold' = HoldsExpiring(H), unit' = UnitsExpiring(H),
           booking' = booking, trespassed' = trespassed
    PROVE  Allowed
  <1>0. PICK U \in SUBSET Unit : U = {u \in Unit : Kept(u) /\ \E h \in H : hold[h].unit = u}
    OBVIOUS
  <1>1. HoldsEnd(H) /\ (\A h \in Hold \ H : hold'[h] = hold[h])
    BY ExpiringEnds DEF HoldsExpiring
  <1>2. \A h \in H : hold'[h].status # "NONE"
    <2>1. \A h \in H : hold[h] \in HoldRow
      BY DEF UnitInv, TypeInv, TypeOK
    <2> QED BY <2>1, EndedHold, HoldStatuses DEF HoldsExpiring
  <1>3. ASSUME NEW u \in U PROVE unit[u] \in HoldType
    <2>1. PICK h \in H : hold[h].unit = u /\ Kept(u)
      BY <1>0
    <2>2. KeyedIn(hold, h, u) /\ u \in Unit
      BY <1>0, <2>1, Keys DEF UnitInv, HoldKeys, KeyedIn
    <2> QED BY <2>1, <2>2, Standing
  <1>4. /\ \A u \in U : unit'[u] = "AVAILABLE"
        /\ \A u \in Unit \ U : Kept(u) => unit'[u] = unit[u]
    BY <1>0, <1>3 DEF UnitsExpiring
  <1>5. \A u \in Unit : u \in U <=> Kept(u) /\ \E h \in H : hold[h].unit = u
    BY <1>0
  <1>6. /\ Claims!Free(U, "open")
        /\ \A u \in U : Stage(u) = "held" /\ \E h \in H : KeyedIn(hold, h, u) /\ Claim(u) = {h}
    BY <1>1, <1>2, <1>4, <1>5, EndingFrees
  <1>7. \A u \in U : Claim(u) \subseteq OverdueSet
    BY <1>5, <1>6 DEF OverdueSet, Followed, KeyedIn
  <1>8. Claims!Lapse(U)
    BY <1>5, <1>6, <1>7 DEF Claims!Lapse, OverdueSet
  <1> QED BY <1>8, LapseAllowed

LEMMA EndingAllowed ==
    ASSUME UnitInv, NEW u \in Unit, NEW H \in SUBSET Hold, H # {}, HoldsEnd(H),
           \A h \in Hold \ H : hold'[h] = hold[h],
           \A h \in H : hold'[h].status # "NONE" /\ hold[h].unit = u,
           unit' = [unit EXCEPT ![u] = "AVAILABLE"], booking' = booking, trespassed' = trespassed
    PROVE  Allowed
  <1> DEFINE U == IF Kept(u) THEN {u} ELSE {}
  <1>1. U \in SUBSET Unit /\ (\A w \in Unit : w \in U <=> Kept(w) /\ \E h \in H : hold[h].unit = w)
    OBVIOUS
  <1>2. /\ \A w \in U : unit'[w] = "AVAILABLE"
        /\ \A w \in Unit \ U : Kept(w) => unit'[w] = unit[w]
    BY DEF UnitInv, TypeInv, TypeOK
  <1>3. U = {} \/ U = {u}
    OBVIOUS
  <1>a. (\A h \in H : hold'[h].status # "NONE") /\ (\A h \in H : hold[h].unit = u)
    OBVIOUS
  <1> HIDE DEF U
  <1>4. /\ Claims!Free(U, "open") /\ (U = {} => Allowed)
        /\ \A w \in U : Stage(w) = "held"
    BY <1>1, <1>2, <1>a, EndingFrees
  <1>5. CASE U = {u}
    <2>1. Claims!EndHold(u)
      BY <1>4, <1>5 DEF Claims!EndHold
    <2> QED BY <2>1 DEF Allowed, Claims!Next
  <1> QED BY <1>3, <1>4, <1>5

-----------------------------------------------------------------------------
(* The steps of units and holds.                                           *)

LEMMA UnitStepAllowed == ASSUME UnitInv, UnitStep PROVE Allowed
  <1>0. UNCHANGED <<hold, booking, trespassed>> /\ unit \in [Unit -> UnitStatus]
    BY DEF UnitStep, CreateUnit, DeleteUnit, TransitionUnit, UnitInv, TypeInv, TypeOK
  <1>1. Dropped({}) /\ SpentStays
    BY <1>0 DEF Dropped, RowsStay, Followed, Follows, Kept, SpentStays
  <1>2. PICK u \in Unit : CreateUnit(u) \/ DeleteUnit(u) \/ TransitionUnit(u)
    BY DEF UnitStep
  <1>3. /\ \A w \in Unit : w # u => unit'[w] = unit[w]
        /\ \/ unit[u] \in Idle /\ unit'[u] \in Idle
           \/ unit[u] = "BOOKED" /\ unit'[u] = "SOLD"
    BY <1>0, <1>2 DEF CreateUnit, DeleteUnit, TransitionUnit, Idle
  <1>4. CASE ~Kept(u) \/ (unit[u] = "BOOKED" /\ unit'[u] = "SOLD")
    <2>1. SameStages
      BY <1>0, <1>3, <1>4 DEF SameStages, Stage, Kept, HoldType
    <2> QED BY <1>1, <2>1, StutterMap
  <1>5. CASE Kept(u) /\ unit[u] \in Idle /\ unit'[u] \in Idle
    <2>1. /\ Stage(u) \in {"unlisted", "open", "withheld"}
          /\ Stage(u)' \in {"unlisted", "open", "withheld"}
      BY <1>0, <1>5 DEF Stage, Kept, Idle, HoldType
    <2>2. StagesBut({u}, Stage(u)')
      BY <1>0, <1>3 DEF StagesBut, Stage, Kept
    <2>3. PICK s \in {"unlisted", "open", "withheld"} : s = Stage(u)'
      BY <2>1
    <2>4. StagesBut({u}, s)
      BY <2>2, <2>3 DEF StagesBut
    <2>5. Claims!Offer(u)
      BY <1>1, <2>1, <2>4, OfferMap
    <2> QED BY <2>5 DEF Allowed, Claims!Next
  <1> QED BY <1>3, <1>4, <1>5

LEMMA HoldRows ==
    ASSUME UnitInv
    PROVE  /\ HoldKeys /\ BookingKeys /\ unit \in [Unit -> UnitStatus]
           /\ hold \in [Hold -> HoldRow] /\ (\A h \in Hold : hold[h] \in HoldRow)
           /\ booking \in [Booking -> BookingRow]
           /\ \A h \in Hold : hold[h].status # "NONE" => hold[h].unit \in Unit
  BY Keys DEF UnitInv, TypeInv, TypeOK, Placed

LEMMA TakeableMap ==
    ASSUME NEW u \in Unit
    PROVE  Claims!Takeable(u)
              <=> Stage(u) = "open" \/ (Stage(u) = "held" /\ Claim(u) \subseteq OverdueSet)
  BY DEF Claims!Takeable, OverdueSet

(* A new hold on an open unit, or on one whose hold is overdue.            *)
LEMMA CreateHoldAllowed ==
    ASSUME UnitInv, NEW h \in Hold, NEW u \in Unit, NEW c \in Customer, NEW holder \in User,
           NEW type \in HoldType, CreateHold(h, u, c, holder, type)
    PROVE  Allowed
  <1> DEFINE row == [unit |-> u, customer |-> c, holder |-> holder, type |-> type,
                     status |-> "PENDING_APPROVAL", key |-> TRUE, due |-> FALSE]
             H == OverdueOn(u)
             rest == HoldsExpiring(H)
  <1>0. /\ hold' = [rest EXCEPT ![h] = row] /\ unit' = [unit EXCEPT ![u] = type]
        /\ booking' = booking /\ trespassed' = trespassed
        /\ hold[h].status = "NONE" /\ ValidOn(u) = {} /\ UnitsExpiring(H)[u] = "AVAILABLE"
    BY DEF CreateHold
  <1>1. /\ H \in SUBSET Hold /\ h \notin H
        /\ \A g \in H : hold[g].status \in Reserving /\ hold[g].unit = u /\ hold[g].due
        /\ \A g \in Hold : KeyedIn(hold, g, u) => g \in H
    BY <1>0, HoldRows, Overdue DEF Reserving, OverdueOn, HoldKeys, KeyedIn
  <1>2. /\ \A g \in H : ~rest[g].key /\ rest[g].status = "EXPIRED"
        /\ \A g \in Hold \ H : rest[g] = hold[g]
        /\ DOMAIN rest = Hold
    <2>1. \A g \in H : hold[g] \in HoldRow
      BY <1>1, HoldRows
    <2>2. \A g \in H : ~Ended(hold[g], "EXPIRED").key /\ Ended(hold[g], "EXPIRED").status = "EXPIRED"
      BY <2>1, EndedHold, HoldStatuses
    <2> QED BY <1>1, <2>2 DEF HoldsExpiring
  <1>3. /\ row.unit = u /\ row.key /\ row.status = "PENDING_APPROVAL" /\ ~row.due
    OBVIOUS
  <1>4. UnitsExpiring(H)[u] = IF unit[u] \in HoldType /\ (\E g \in H : hold[g].unit = u)
                               THEN "AVAILABLE" ELSE unit[u]
    BY DEF UnitsExpiring
  <1> HIDE DEF row, H, rest
  <1>5. /\ hold'[h] = row /\ \A g \in H : ~hold'[g].key /\ hold'[g].status = "EXPIRED"
        /\ \A g \in Hold \ (H \cup {h}) : hold'[g] = hold[g]
    BY <1>0, <1>1, <1>2
  <1>6. ~hold[h].key
    BY <1>0, HoldRows DEF HoldKeys, Reserving
  <1>7. RowsStay
    BY <1>0, <1>5, <1>6 DEF RowsStay, Followed, Follows
  <1>8. CASE Kept(u)
    <2>1. \A b \in Booking : ~KeyedIn(booking, b, u)
      <3>1. CASE unit[u] = "AVAILABLE"
        BY <1>8, <3>1, Standing DEF Idle, Unclaimed
      <3>2. CASE unit[u] \in HoldType
        BY <1>8, <3>2, Standing
      <3> QED BY <1>0, <1>4, <3>1, <3>2
    <2>2. Claims!Takeable(u)
      <3>1. CASE unit[u] = "AVAILABLE"
        <4>1. Stage(u) = "open"
          BY <1>8, <3>1 DEF Stage, HoldType
        <4> QED BY <4>1, TakeableMap
      <3>2. CASE unit[u] \in HoldType
        <4>1. PICK g \in Hold : KeyedIn(hold, g, u) /\ Stage(u) = "held" /\ Claim(u) = {g}
          BY <1>8, <3>2, Standing
        <4>2. Followed(g) /\ hold[g].due
          BY <1>1, <1>8, <4>1 DEF Followed, KeyedIn
        <4> QED BY <4>1, <4>2, TakeableMap DEF OverdueSet
      <3> QED BY <1>0, <1>4, <3>1, <3>2
    <2>3. \A g \in Hold \ {h} : Followed(g)' <=> Followed(g) /\ hold[g].unit # u
      <3> TAKE g \in Hold \ {h}
      <3>1. CASE g \in H
        BY <1>1, <1>5, <3>1 DEF Followed
      <3>2. CASE g \notin H
        BY <1>0, <1>1, <1>5, <3>2 DEF Followed, Kept, KeyedIn
      <3> QED BY <3>1, <3>2
    <2>4. \A b \in Booking : Follows(b)' <=> Follows(b) /\ booking[b].unit # u
      BY <1>0, <2>1 DEF Follows, Kept, KeyedIn
    <2>5. /\ Followed(h)' /\ ~Followed(h) /\ hold'[h].unit = u /\ ~hold'[h].due
          /\ hold'[h].status \notin {"NONE", "ACTIVE"}
      BY <1>0, <1>3, <1>5, <1>6, <1>8 DEF Followed, Kept
    <2>6. \A w \in Unit : Stage(w)' = IF w \in {u} THEN "held" ELSE Stage(w)
      BY <1>0, <1>8, HoldRows DEF Stage, Kept, HoldType
    <2>7. \A g \in Hold \ {h} : hold'[g].status = "NONE" <=> hold[g].status = "NONE"
      BY <1>1, <1>5 DEF Reserving
    <2>8. \A b \in Booking : booking'[b].status = "NONE" <=> booking[b].status = "NONE"
      BY <1>0
    <2>9. Claims!Take(u, h, "held")
      BY <1>0, <1>7, <2>3, <2>4, <2>5, <2>6, <2>7, <2>8, TakeHoldMap DEF StagesBut
    <2>10. Claims!Reserve(u, h)
      BY <2>2, <2>9 DEF Claims!Reserve
    <2> QED BY <2>10 DEF Allowed, Claims!Next
  <1>9. CASE ~Kept(u)
    <2>1. \A g \in Hold : Followed(g)' <=> Followed(g)
      <3> TAKE g \in Hold
      <3>1. CASE g = h
        BY <1>0, <1>3, <1>5, <1>6, <1>9, <3>1 DEF Followed, Kept
      <3>2. CASE g \in H
        BY <1>1, <1>5, <1>9, <3>2 DEF Followed
      <3>3. CASE g \notin H /\ g # h
        BY <1>0, <1>5, <3>3 DEF Followed, Kept
      <3> QED BY <3>1, <3>2, <3>3
    <2>2. Dropped({})
      BY <1>0, <1>7, <2>1 DEF Dropped, Follows, Kept
    <2>3. SameStages
      BY <1>0, <1>9, HoldRows DEF SameStages, Stage, Kept
    <2>4. SpentSet' = SpentSet \cup {h} /\ h \notin SpentSet
      BY <1>0, <1>1, <1>3, <1>5, IdentitiesAssumption DEF SpentSet, Reserving
    <2>5. Stage(u) = "contested"
      BY <1>9 DEF Stage
    <2>6. Claims!TakeContested(u, h)
      BY <2>2, <2>3, <2>4, <2>5, ContestedMap
    <2> QED BY <2>6 DEF Allowed, Claims!Next, Claims!Claimant
  <1> QED BY <1>8, <1>9

(* A hold that changes but keeps its unit's key: approved or fallen due.   *)
LEMMA HoldChanges ==
    ASSUME UnitInv, NEW h \in Hold, NEW r \in HoldRow, hold' = [hold EXCEPT ![h] = r],
           r.key = hold[h].key, r.unit = hold[h].unit, r.status # "NONE", hold[h].status # "NONE",
           UNCHANGED <<unit, booking, trespassed>>
    PROVE  /\ UNCHANGED <<StageMap, ClaimMap, SpentSet>>
           /\ ~Followed(h) => Allowed
           /\ \A g \in Hold : Followed(g)' <=> Followed(g)
  <1>0. \A g \in Hold : hold'[g] = IF g = h THEN r ELSE hold[g]
    BY HoldRows
  <1>1. /\ \A g \in Hold : Followed(g)' <=> Followed(g)
        /\ \A b \in Booking : Follows(b)' <=> Follows(b)
    BY <1>0 DEF Followed, Follows, Kept
  <1>2. SameStages
    BY DEF SameStages, Stage, Kept
  <1>3. SpentStays
    BY <1>0 DEF SpentStays
  <1>4. \A w \in Unit : Claim(w)' = Claim(w)
    BY <1>0, <1>1, ClaimStays
  <1>5. UNCHANGED <<StageMap, ClaimMap, SpentSet>>
    BY <1>2, <1>3, <1>4, SpentMap DEF SameStages, StageMap, ClaimMap
  <1>6. ASSUME ~Followed(h) PROVE Allowed
    <2>1. Dropped({})
      BY <1>0, <1>1, <1>6 DEF Dropped, RowsStay
    <2> QED BY <1>2, <1>3, <2>1, StutterMap
  <1> QED BY <1>1, <1>5, <1>6

LEMMA FollowedHold ==
    ASSUME UnitInv, NEW h \in Hold, Followed(h)
    PROVE  \E u \in Unit : Stage(u) = "held" /\ Claim(u) = {h} /\ u = hold[h].unit
  <1>1. hold[h].unit \in Unit /\ Kept(hold[h].unit) /\ KeyedIn(hold, h, hold[h].unit)
    BY HoldRows DEF Followed, KeyedIn, HoldKeys, Reserving
  <1> QED BY <1>1, Standing

LEMMA ApproveHoldAllowed ==
    ASSUME UnitInv, NEW v \in Views, NEW h \in Hold, NEW actor \in User,
           ApproveHold(v, h, actor)
    PROVE  Allowed
  <1> DEFINE r == [hold[h] EXCEPT !.status = "ACTIVE"]
  <1>1. /\ hold' = [hold EXCEPT ![h] = r] /\ UNCHANGED <<unit, booking, trespassed>>
        /\ hold[h].status \in Reserving /\ ~hold[h].due
    BY DEF ApproveHold, DecidableHold, ValidOn
  <1>2. /\ r \in HoldRow /\ r.key = hold[h].key /\ r.unit = hold[h].unit /\ r.status = "ACTIVE"
        /\ r.due = hold[h].due
    BY HoldRows, HoldStatuses DEF HoldRow
  <1> HIDE DEF r
  <1>3. /\ UNCHANGED <<StageMap, ClaimMap, SpentSet>> /\ (~Followed(h) => Allowed)
        /\ \A g \in Hold : Followed(g)' <=> Followed(g)
    BY <1>1, <1>2, HoldChanges DEF Reserving
  <1>4. CASE Followed(h)
    <2>0. \A g \in Hold : hold'[g] = IF g = h THEN r ELSE hold[g]
      BY <1>1, HoldRows
    <2>1. ApprovedSet' = ApprovedSet \cup {h}
      BY <1>2, <1>3, <1>4, <2>0 DEF ApprovedSet
    <2>2. OverdueSet' = OverdueSet /\ h \notin OverdueSet
      BY <1>1, <1>2, <1>3, <2>0 DEF OverdueSet
    <2>3. \E u \in Unit : StageMap[u] = "held" /\ ClaimMap[u] = {h}
      BY <1>4, FollowedHold DEF StageMap, ClaimMap
    <2>4. Claims!Approve(h)
      BY <1>3, <2>1, <2>2, <2>3
         DEF Claims!Approve, StageMap, ClaimMap, ApprovedSet, OverdueSet, SpentSet
    <2> QED BY <2>4 DEF Allowed, Claims!Next
  <1> QED BY <1>3, <1>4

LEMMA FallDueAllowed ==
    ASSUME UnitInv, NEW h \in Hold, FallDue(h) PROVE Allowed
  <1> DEFINE r == [hold[h] EXCEPT !.due = TRUE]
  <1>1. /\ hold' = [hold EXCEPT ![h] = r] /\ UNCHANGED <<unit, booking, trespassed>>
        /\ hold[h].status \in Reserving
    BY DEF FallDue
  <1>2. /\ r \in HoldRow /\ r.key = hold[h].key /\ r.unit = hold[h].unit
        /\ r.status = hold[h].status /\ r.due
    BY HoldRows DEF HoldRow
  <1> HIDE DEF r
  <1>3. /\ UNCHANGED <<StageMap, ClaimMap, SpentSet>> /\ (~Followed(h) => Allowed)
        /\ \A g \in Hold : Followed(g)' <=> Followed(g)
    BY <1>1, <1>2, HoldChanges DEF Reserving
  <1>4. CASE Followed(h)
    <2>0. \A g \in Hold : hold'[g] = IF g = h THEN r ELSE hold[g]
      BY <1>1, HoldRows
    <2>1. OverdueSet' = OverdueSet \cup {h}
      BY <1>2, <1>3, <1>4, <2>0 DEF OverdueSet
    <2>2. ApprovedSet' = ApprovedSet
      BY <1>1, <1>2, <1>3, <2>0 DEF ApprovedSet
    <2>3. \E u \in Unit : StageMap[u] = "held" /\ ClaimMap[u] = {h}
      BY <1>4, FollowedHold DEF StageMap, ClaimMap
    <2>4. Claims!FallDue(h)
      BY <1>3, <2>1, <2>2, <2>3
         DEF Claims!FallDue, StageMap, ClaimMap, ApprovedSet, OverdueSet, SpentSet
    <2> QED BY <2>4 DEF Allowed, Claims!Next
  <1> QED BY <1>3, <1>4

LEMMA HoldStepAllowed == ASSUME UnitInv, HoldStep PROVE Allowed
  <1>1. ASSUME NEW u, ExpireAndRefuse(u) PROVE Allowed
    <2>1. \A h \in OverdueOn(u) : hold[h].status \in Reserving /\ hold[h].due
      BY DEF OverdueOn
    <2> QED BY <1>1, <2>1, OverdueType, ExpiringAllowed DEF ExpireAndRefuse
  <1>2. CASE ExpireDueHolds
    <2>1. PICK H \in SUBSET UNION {OverdueOn(u) : u \in Unit} :
             hold' = HoldsExpiring(H) /\ unit' = UnitsExpiring(H)
      BY <1>2 DEF ExpireDueHolds
    <2>2. H \in SUBSET Hold /\ (\A h \in H : hold[h].status \in Reserving /\ hold[h].due)
      BY <2>1 DEF OverdueOn
    <2>3. booking' = booking /\ trespassed' = trespassed
      BY <1>2 DEF ExpireDueHolds
    <2> QED BY <2>1, <2>2, <2>3, ExpiringAllowed
  <1>3. ASSUME NEW v \in Views, NEW h \in Hold, NEW actor \in User, RejectHold(v, h, actor)
        PROVE  Allowed
    <2>1. hold[h].status \in Reserving /\ hold[h] \in HoldRow /\ hold \in [Hold -> HoldRow]
      BY <1>3, HoldRows DEF RejectHold, DecidableHold, ValidOn
    <2>2. /\ hold' = [hold EXCEPT ![h] = Ended(hold[h], "REJECTED")]
          /\ unit' = [unit EXCEPT ![hold[h].unit] = "AVAILABLE"]
          /\ booking' = booking /\ trespassed' = trespassed
      BY <1>3 DEF RejectHold
    <2>3. ~Ended(hold[h], "REJECTED").key /\ Ended(hold[h], "REJECTED").status = "REJECTED"
      BY <2>1, EndedHold, HoldStatuses
    <2>4. HoldsEnd({h}) /\ (\A g \in Hold \ {h} : hold'[g] = hold[g])
          /\ hold'[h].status = "REJECTED"
      BY <2>1, <2>2, <2>3 DEF HoldsEnd, Reserving
    <2>5. PICK u \in Unit : u = hold[h].unit
      BY <2>1, HoldRows DEF Reserving
    <2> QED BY <2>2, <2>4, <2>5, EndingAllowed
  <1>4. ASSUME NEW u \in Unit, ReleaseHold(u), ~ExpireAndRefuse(u) PROVE Allowed
    <2>1. /\ hold' = [h \in Hold |-> IF h \in ValidOn(u) THEN Ended(hold[h], "RELEASED")
                                                         ELSE hold[h]]
          /\ unit' = [unit EXCEPT ![u] = "AVAILABLE"]
          /\ booking' = booking /\ trespassed' = trespassed /\ ValidOn(u) # {}
      BY <1>4 DEF ReleaseHold
    <2>2. PICK H \in SUBSET Hold : H = ValidOn(u)
      BY DEF ValidOn
    <2>3. \A h \in H : hold[h].status \in Reserving /\ hold[h].unit = u
      BY <2>2 DEF ValidOn
    <2>4. \A h \in H : ~hold'[h].key /\ hold'[h].status = "RELEASED"
      <3>1. \A h \in H : hold[h] \in HoldRow
        BY HoldRows
      <3>2. \A h \in H : ~Ended(hold[h], "RELEASED").key
                         /\ Ended(hold[h], "RELEASED").status = "RELEASED"
        BY <3>1, EndedHold, HoldStatuses
      <3> QED BY <2>1, <2>2, <3>2
    <2>5. \A h \in Hold \ H : hold'[h] = hold[h]
      BY <2>1, <2>2
    <2>6. HoldsEnd(H)
      BY <2>3, <2>4, <2>5 DEF HoldsEnd, Reserving
    <2>7. H # {} /\ (\A h \in H : hold'[h].status # "NONE" /\ hold[h].unit = u)
      BY <2>1, <2>2, <2>3, <2>4
    <2> QED BY <2>1, <2>5, <2>6, <2>7, EndingAllowed
  <1> QED BY <1>1, <1>2, <1>3, <1>4, CreateHoldAllowed, ApproveHoldAllowed, FallDueAllowed
          DEF HoldStep, DecideHold

-----------------------------------------------------------------------------
(* The two handlers that open a booking.                                   *)

LEMMA TakingAllowed ==
    ASSUME UnitInv, NEW H \in SUBSET Hold, HoldsEnd(H), NEW b \in Booking, NEW u \in Unit,
           NEW r, r.key, r.unit = u, r.status # "NONE",
           \A h \in H : hold[h].unit = u,
           \A h \in H : hold'[h].status # "NONE",
           \A h \in Hold \ H : hold'[h] = hold[h],
           \A h \in Hold : KeyedIn(hold, h, u) => h \in H,
           \A a \in Booking : ~KeyedIn(booking, a, u),
           booking[b].status = "NONE",
           booking' = [booking EXCEPT ![b] = r],
           unit' = [unit EXCEPT ![u] = "BOOKING_INITIATED"],
           trespassed' = trespassed,
           Kept(u) => Claims!Takeable(u) \/ (Stage(u) = "held" /\ Claim(u) \subseteq ApprovedSet)
    PROVE  Allowed
  <1>0. /\ \A a \in Booking : booking'[a] = IF a = b THEN r ELSE booking[a]
        /\ ~booking[b].key
    BY HoldRows DEF BookingKeys, Live, Open
  <1>1. RowsStay
    BY <1>0 DEF RowsStay, Followed, Follows, HoldsEnd
  <1>2. \A h \in Hold : hold'[h].status = "NONE" <=> hold[h].status = "NONE"
    BY DEF HoldsEnd, Reserving
  <1>3. \A a \in Booking \ {b} : booking'[a].status = "NONE" <=> booking[a].status = "NONE"
    BY <1>0
  <1>4. CASE Kept(u)
    <2>1. \A h \in Hold : Followed(h)' <=> Followed(h) /\ hold[h].unit # u
      <3> TAKE h \in Hold
      <3>1. CASE h \in H
        BY <3>1 DEF Followed, HoldsEnd
      <3>2. CASE h \notin H
        BY <3>2 DEF Followed, Kept, KeyedIn
      <3> QED BY <3>1, <3>2
    <2>2. \A a \in Booking \ {b} : Follows(a)' <=> Follows(a) /\ booking[a].unit # u
      BY <1>0 DEF Follows, Kept, KeyedIn
    <2>3. Follows(b)' /\ ~Follows(b) /\ booking'[b].unit = u /\ booking'[b].status # "NONE"
      BY <1>0, <1>4 DEF Follows, Kept
    <2>4. StagesBut({u}, "booking")
      BY <1>4, HoldRows DEF StagesBut, Stage, Kept, HoldType
    <2>5. Claims!Take(u, b, "booking")
      BY <1>1, <1>2, <1>3, <2>1, <2>2, <2>3, <2>4, TakeBookingMap
    <2>6. Claims!Book(u, b)
      BY <1>4, <2>5 DEF Claims!Book, ApprovedSet
    <2> QED BY <2>6 DEF Allowed, Claims!Next
  <1>5. CASE ~Kept(u)
    <2>1. \A h \in Hold : Followed(h)' <=> Followed(h)
      <3> TAKE h \in Hold
      <3>1. CASE h \in H
        BY <1>5, <3>1 DEF Followed, HoldsEnd
      <3>2. CASE h \notin H
        BY <3>2 DEF Followed, Kept
      <3> QED BY <3>1, <3>2
    <2>2. \A a \in Booking : Follows(a)' <=> Follows(a)
      BY <1>0, <1>5 DEF Follows, Kept
    <2>3. Dropped({})
      BY <1>1, <2>1, <2>2 DEF Dropped
    <2>4. SameStages
      BY <1>5, HoldRows DEF SameStages, Stage, Kept
    <2>5. SpentSet' = SpentSet \cup {b} /\ b \notin SpentSet
      BY <1>0, <1>2, <1>3, IdentitiesAssumption DEF SpentSet
    <2>6. Stage(u) = "contested"
      BY <1>5 DEF Stage
    <2>7. Claims!TakeContested(u, b)
      BY <2>3, <2>4, <2>5, <2>6, ContestedMap
    <2> QED BY <2>7 DEF Allowed, Claims!Next, Claims!Claimant
  <1> QED BY <1>4, <1>5

LEMMA InitiateBookingAllowed ==
    ASSUME UnitInv, NEW v \in Views, NEW b \in Booking, NEW u \in Unit, NEW c \in Customer,
           InitiateBooking(v, b, u, c)
    PROVE  Allowed
  <1>0. PICK V \in SUBSET Hold : V = ValidOn(u)
    BY DEF ValidOn
  <1>1. PICK O \in SUBSET Hold : O = OverdueOn(u)
    BY DEF OverdueOn
  <1>2. PICK H \in SUBSET Hold : H = V \cup O
    OBVIOUS
  <1> DEFINE r == NewBooking(u, c, FALSE, "DRAFT")
  <1>3. /\ \A h \in H : hold[h].status \in Reserving /\ hold[h].unit = u
        /\ \A h \in Hold : KeyedIn(hold, h, u) => h \in H
    BY <1>0, <1>1, <1>2, Overdue, HoldRows DEF ValidOn, HoldKeys, KeyedIn
  <1>4. hold' = [h \in Hold |-> IF h \in V THEN Ended(hold[h], "CONVERTED")
                                ELSE IF h \in O THEN Ended(hold[h], "EXPIRED") ELSE hold[h]]
    BY <1>0, <1>1 DEF InitiateBooking, HoldsExpiring
  <1>5. /\ booking[b].status = "NONE" /\ booking' = [booking EXCEPT ![b] = r]
        /\ unit' = [unit EXCEPT ![u] = "BOOKING_INITIATED"] /\ trespassed' = trespassed
        /\ \A a \in Booking : ~KeyedIn(booking, a, u)
    BY DEF InitiateBooking, Unbooked, BookingsKeyedTo, KeyedIn
  <1>6. r.key /\ r.unit = u /\ r.status # "NONE"
    BY DEF NewBooking
  <1> HIDE DEF r
  <1>7. \A h \in H : ~hold'[h].key /\ hold'[h].status \in {"CONVERTED", "EXPIRED"}
    <2>1. \A h \in H : hold[h] \in HoldRow
      BY HoldRows
    <2>2. \A h \in H : \A s \in {"CONVERTED", "EXPIRED"} :
             ~Ended(hold[h], s).key /\ Ended(hold[h], s).status = s
      <3> TAKE h \in H
      <3> TAKE s \in {"CONVERTED", "EXPIRED"}
      <3>1. hold[h] \in HoldRow /\ s \in HoldStatus
        BY <2>1, HoldStatuses
      <3> QED BY <3>1, EndedHold
    <2> QED BY <1>2, <1>4, <2>2
  <1>8. \A h \in Hold \ H : hold'[h] = hold[h]
    BY <1>2, <1>4
  <1>9. HoldsEnd(H) /\ (\A h \in H : hold'[h].status # "NONE")
    BY <1>3, <1>7, <1>8 DEF HoldsEnd, Reserving
  <1>10. ASSUME Kept(u)
         PROVE  Claims!Takeable(u) \/ (Stage(u) = "held" /\ Claim(u) \subseteq ApprovedSet)
    <2>1. unit[u] = "AVAILABLE" \/ unit[u] \in HoldType
      BY DEF InitiateBooking, UnitsExpiring
    <2>2. CASE unit[u] = "AVAILABLE"
      <3>1. Stage(u) = "open"
        BY <1>10, <2>2 DEF Stage, HoldType
      <3> QED BY <3>1, TakeableMap
    <2>3. CASE unit[u] \in HoldType
      <3>1. PICK g \in Hold : KeyedIn(hold, g, u) /\ Stage(u) = "held" /\ Claim(u) = {g}
        BY <1>10, <2>3, Standing
      <3>2. Followed(g) /\ g \in V \cup O
        BY <1>2, <1>3, <1>10, <3>1 DEF Followed, KeyedIn
      <3>3. CASE g \in O
        <4>1. hold[g].due
          BY <1>1, <3>3 DEF OverdueOn
        <4> QED BY <3>1, <3>2, <4>1, TakeableMap DEF OverdueSet
      <3>4. CASE g \in V
        <4>1. hold[g].status = "ACTIVE"
          BY <1>0, <3>4 DEF InitiateBooking
        <4> QED BY <3>1, <3>2, <4>1 DEF ApprovedSet
      <3> QED BY <3>2, <3>3, <3>4
    <2> QED BY <2>1, <2>2, <2>3
  <1>11. \A h \in H : hold[h].unit = u
    BY <1>3
  <1> QED BY <1>3, <1>5, <1>6, <1>8, <1>9, <1>10, <1>11, TakingAllowed

LEMMA CreateBookingAllowed ==
    ASSUME UnitInv, NEW v \in Views, NEW b \in Booking, NEW h \in Hold, CreateBooking(v, b, h)
    PROVE  Allowed
  <1> DEFINE r == NewBooking(hold[h].unit, hold[h].customer, TRUE, "PAYMENT_PENDING")
  <1>1. /\ booking[b].status = "NONE"
        /\ booking' = [booking EXCEPT ![b] = r]
        /\ unit' = [unit EXCEPT ![hold[h].unit] = "BOOKING_INITIATED"]
        /\ trespassed' = trespassed
        /\ hold' = [hold EXCEPT ![h] = Ended(hold[h], "CONVERTED")]
        /\ hold[h].status = "ACTIVE"
        /\ \A a \in Booking : ~KeyedIn(booking, a, hold[h].unit)
    BY DEF CreateBooking, Unbooked, BookingsKeyedTo, KeyedIn
  <1>2. r.key /\ r.unit = hold[h].unit /\ r.status # "NONE"
    BY DEF NewBooking
  <1>3. PICK u \in Unit : u = hold[h].unit
    BY <1>1, HoldRows
  <1> HIDE DEF r
  <1>4. hold[h] \in HoldRow /\ hold \in [Hold -> HoldRow] /\ HoldKeys
    BY HoldRows
  <1>5. ~hold'[h].key /\ hold'[h].status = "CONVERTED" /\ (\A g \in Hold \ {h} : hold'[g] = hold[g])
    <2>1. ~Ended(hold[h], "CONVERTED").key /\ Ended(hold[h], "CONVERTED").status = "CONVERTED"
      BY <1>4, EndedHold, HoldStatuses
    <2> QED BY <1>1, <1>4, <2>1
  <1>6. HoldsEnd({h})
    BY <1>1, <1>5 DEF HoldsEnd, Reserving
  <1>7. KeyedIn(hold, h, u) /\ \A g \in Hold : KeyedIn(hold, g, u) => g \in {h}
    BY <1>1, <1>3, <1>4 DEF HoldKeys, KeyedIn, Reserving
  <1>8. Kept(u) => Stage(u) = "held" /\ Claim(u) \subseteq ApprovedSet
    BY <1>1, <1>3, <1>7, Standing DEF ApprovedSet, Followed, KeyedIn
  <1> QED BY <1>1, <1>2, <1>3, <1>5, <1>6, <1>7, <1>8, TakingAllowed

-----------------------------------------------------------------------------
(* The handlers that decide on a booking, end it or move it on.            *)

(* Only booking b changes, and stays on its unit.                          *)
Rewritten(b, r) ==
    /\ booking' = [booking EXCEPT ![b] = r] /\ hold' = hold
    /\ r.unit = booking[b].unit /\ (r.key => booking[b].key)
    /\ r.status # "NONE" /\ booking[b].status # "NONE"

LEMMA BookingRewritten ==
    ASSUME UnitInv, NEW b \in Booking, NEW r, Rewritten(b, r)
    PROVE  /\ \A a \in Booking : booking'[a] = IF a = b THEN r ELSE booking[a]
           /\ RowsStay /\ SpentStays
  <1>1. \A a \in Booking : booking'[a] = IF a = b THEN r ELSE booking[a]
    BY HoldRows DEF Rewritten
  <1> QED BY <1>1 DEF Rewritten, RowsStay, SpentStays

LEMMA BookingStays ==
    ASSUME UnitInv, NEW b \in Booking, NEW r, Rewritten(b, r), trespassed' = trespassed,
           Follows(b) => r.key
    PROVE  Dropped({}) /\ SpentStays
  <1>1. \A h \in Hold : Followed(h)' <=> Followed(h)
    BY DEF Rewritten, Followed, Kept
  <1>2. ASSUME NEW a \in Booking PROVE Follows(a)' <=> Follows(a)
    <2>1. booking'[a] = IF a = b THEN r ELSE booking[a]
      BY BookingRewritten
    <2> QED BY <2>1 DEF Rewritten, Follows, Kept
  <1> QED BY <1>1, <1>2, BookingRewritten DEF Dropped

(* The booking that has unit u gives it up ...                             *)
LEMMA BookingLeaves ==
    ASSUME UnitInv, NEW b \in Booking, NEW r, Rewritten(b, r), trespassed' = trespassed,
           NEW u, Kept(u), KeyedIn(booking, b, u), ~r.key,
           \A h \in Hold : ~KeyedIn(hold, h, u),
           \A a \in Booking : KeyedIn(booking, a, u) => a = b
    PROVE  Dropped({u}) /\ SpentStays
  <1>1. \A h \in Hold : Followed(h)' <=> Followed(h) /\ hold[h].unit # u
    BY DEF Rewritten, Followed, Kept, KeyedIn
  <1>2. ASSUME NEW a \in Booking PROVE Follows(a)' <=> Follows(a) /\ booking[a].unit # u
    <2>1. booking'[a] = IF a = b THEN r ELSE booking[a]
      BY BookingRewritten
    <2> QED BY <2>1 DEF Rewritten, Follows, Kept, KeyedIn
  <1> QED BY <1>1, <1>2, BookingRewritten DEF Dropped

(* ... and one that had lost it disturbs who has it.                       *)
LEMMA BookingDisturbs ==
    ASSUME UnitInv, NEW b \in Booking, NEW r, Rewritten(b, r), ~booking[b].key, NEW u,
           trespassed' = trespassed \cup {u}
    PROVE  Dropped({u}) /\ SpentStays
  <1>1. /\ \A h \in Hold : Followed(h)' <=> Followed(h) /\ hold[h].unit # u
        /\ \A a \in Booking : Follows(a)' <=> Follows(a) /\ booking[a].unit # u
    BY BookingRewritten DEF Rewritten, Followed, Follows, Kept
  <1> QED BY <1>1, BookingRewritten DEF Dropped

(* A booking writes s over its unit's status: the unit was its own, nobody's *)
(* or somebody else's.                                                     *)
LEMMA TrespassCases ==
    ASSUME UnitInv, NEW b \in Booking, NEW u \in Unit, u = booking[b].unit,
           trespassed' = Trespass(b, u)
    PROVE  \/ ~Kept(u) /\ trespassed' = trespassed
           \/ Kept(u) /\ KeyedIn(booking, b, u) /\ trespassed' = trespassed
           \/ Kept(u) /\ ~booking[b].key /\ Unclaimed(hold, booking, u) /\ trespassed' = trespassed
           \/ /\ Kept(u) /\ ~booking[b].key /\ ~Unclaimed(hold, booking, u)
              /\ trespassed' = trespassed \cup {u}
  <1>1. Claimed(u) <=> ~Unclaimed(hold, booking, u)
    BY DEF Claimed, Unclaimed, HoldsKeyedTo, BookingsKeyedTo, KeyedIn
  <1> QED BY <1>1 DEF Trespass, Kept, KeyedIn

LEMMA ContestAllowed ==
    ASSUME UnitInv, NEW b \in Booking, NEW u \in Unit, NEW r,
           booking' = [booking EXCEPT ![b] = r], booking[b].unit = u, ~booking[b].key,
           r.unit = u, r.status # "NONE", booking[b].status # "NONE", ~r.key,
           hold' = hold, \A w \in Unit : w # u => unit'[w] = unit[w],
           Kept(u), ~Unclaimed(hold, booking, u), trespassed' = trespassed \cup {u}
    PROVE  Allowed
  <1>1. \A w \in Unit : Kept(w)' <=> Kept(w) /\ w # u
    BY DEF Kept
  <1>2. Dropped({u}) /\ SpentStays
    BY BookingDisturbs DEF Rewritten
  <1>3. StagesBut({u}, "contested")
    BY <1>1 DEF StagesBut, Stage
  <1>4. Claims!Free({u}, "contested")
    BY <1>2, <1>3, FreeMap
  <1>5. Stage(u) \in {"held", "booking", "sold"}
    BY Standing DEF Unclaimed
  <1>6. Claims!Contest(u)
    BY <1>4, <1>5 DEF Claims!Contest
  <1> QED BY <1>6 DEF Allowed, Claims!Next

LEMMA LeavingAllowed ==
    ASSUME UnitInv, NEW b \in Booking, NEW r, ~r.key, r.status \in {"REJECTED", "CANCELLED"},
           booking[b].status # "NONE", NEW u \in Unit, r.unit = u, booking[b].unit = u,
           booking' = [booking EXCEPT ![b] = r],
           unit' = [unit EXCEPT ![u] = "CANCELLED_RELEASED"],
           trespassed' = Trespass(b, u), hold' = hold
    PROVE  Allowed
  <1>0. /\ unit'[u] = "CANCELLED_RELEASED" /\ (\A w \in Unit : w # u => unit'[w] = unit[w])
        /\ BookingKeys /\ r.status # "NONE" /\ Rewritten(b, r)
    BY HoldRows DEF Rewritten
  <1>1. CASE ~Kept(u) /\ trespassed' = trespassed
    <2>1. \A w \in Unit : Kept(w)' <=> Kept(w)
      BY <1>1 DEF Kept
    <2>2. Dropped({}) /\ SpentStays
      BY <1>0, <1>1, BookingStays DEF Follows
    <2>3. SameStages
      BY <1>0, <1>1, <2>1 DEF SameStages, Stage
    <2> QED BY <2>2, <2>3, StutterMap
  <1>2. CASE Kept(u) /\ KeyedIn(booking, b, u) /\ trespassed' = trespassed
    <2>1. \A w \in Unit : Kept(w)' <=> Kept(w)
      BY <1>2 DEF Kept
    <2>2. /\ Stage(u) \in {"booking", "sold"} /\ (\A h \in Hold : ~KeyedIn(hold, h, u))
          /\ \A a \in Booking : KeyedIn(booking, a, u) => a = b
      BY <1>0, <1>2, Standing DEF BookingKeys, KeyedIn
    <2>3. Dropped({u}) /\ SpentStays
      BY <1>0, <1>2, <2>2, BookingLeaves
    <2>4. StagesBut({u}, "withheld")
      BY <1>0, <1>2, <2>1 DEF StagesBut, Stage, HoldType
    <2>5. Claims!Free({u}, "withheld")
      BY <2>3, <2>4, FreeMap
    <2>6. Claims!EndBooking(u)
      BY <2>2, <2>5 DEF Claims!EndBooking
    <2> QED BY <2>6 DEF Allowed, Claims!Next
  <1>3. CASE Kept(u) /\ ~booking[b].key /\ Unclaimed(hold, booking, u) /\ trespassed' = trespassed
    <2>1. \A w \in Unit : Kept(w)' <=> Kept(w)
      BY <1>3 DEF Kept
    <2>2. Dropped({}) /\ SpentStays
      BY <1>0, <1>3, BookingStays DEF Follows
    <2>3. StagesBut({u}, "withheld")
      BY <1>0, <1>3, <2>1 DEF StagesBut, Stage, HoldType
    <2>4. Claims!Offer(u)
      BY <1>3, <2>2, <2>3, Standing, OfferMap
    <2> QED BY <2>4 DEF Allowed, Claims!Next
  <1>4. CASE /\ Kept(u) /\ ~booking[b].key /\ ~Unclaimed(hold, booking, u)
             /\ trespassed' = trespassed \cup {u}
    BY <1>0, <1>4, ContestAllowed
  <1> QED BY <1>1, <1>2, <1>3, <1>4, TrespassCases

(* A step of a booking that changes its status and nothing of its unit's.  *)
LEMMA MovingAllowed ==
    ASSUME UnitInv, NEW b \in Booking, NEW s, s # "NONE", booking[b].status # "NONE",
           booking' = [booking EXCEPT ![b].status = s], hold' = hold,
           trespassed' = trespassed, SameStages
    PROVE  Allowed
  <1> DEFINE r == [booking[b] EXCEPT !.status = s]
  <1>1. r.unit = booking[b].unit /\ r.key = booking[b].key /\ r.status = s
        /\ booking' = [booking EXCEPT ![b] = r]
    BY HoldRows DEF BookingRow
  <1> HIDE DEF r
  <1>2. Rewritten(b, r) /\ (Follows(b) => r.key)
    BY <1>1 DEF Rewritten, Follows
  <1>3. Dropped({}) /\ SpentStays
    BY <1>2, BookingStays
  <1> QED BY <1>3, StutterMap

LEMMA ConfirmAllowed ==
    ASSUME UnitInv, NEW v \in Views, NEW b \in Booking, NEW i \in DOMAIN approval[b],
           ConfirmBooking(v, b, i)
    PROVE  Allowed
  <1> DEFINE r == [booking[b] EXCEPT !.status = "CONFIRMED"]
  <1>1. PICK u \in Unit : u = v.booking[b].unit /\ u = booking[b].unit /\ booking[b].status # "NONE"
    BY ViewsFaithful DEF UnitInv, ConfirmBooking, Decidable
  <1>2. /\ booking' = [booking EXCEPT ![b] = r] /\ booking' = [booking EXCEPT ![b].status = "CONFIRMED"]
        /\ unit' = [unit EXCEPT ![u] = "BOOKED"] /\ unit[u] = "BOOKING_INITIATED"
        /\ trespassed' = Trespass(b, u) /\ hold' = hold
    BY <1>1 DEF ConfirmBooking
  <1>3. r.unit = u /\ r.key = booking[b].key /\ r.status = "CONFIRMED"
    BY <1>1, HoldRows DEF BookingRow
  <1> HIDE DEF r
  <1>4. unit'[u] = "BOOKED" /\ (\A w \in Unit : w # u => unit'[w] = unit[w])
    BY <1>2, HoldRows
  <1>5. CASE ~Kept(u) /\ trespassed' = trespassed
    <2>1. SameStages
      BY <1>4, <1>5 DEF SameStages, Stage, Kept
    <2> QED BY <1>1, <1>2, <1>5, <2>1, MovingAllowed
  <1>6. CASE Kept(u) /\ KeyedIn(booking, b, u) /\ trespassed' = trespassed
    <2>1. \A w \in Unit : Kept(w)' <=> Kept(w)
      BY <1>6 DEF Kept
    <2>2. Dropped({}) /\ SpentStays
      BY <1>1, <1>2, <1>3, <1>6, BookingStays DEF Rewritten, Follows
    <2>3. StagesBut({u}, "sold") /\ Stage(u) = "booking"
      BY <1>2, <1>4, <1>6, <2>1 DEF StagesBut, Stage, HoldType
    <2>4. StageMap' = [StageMap EXCEPT ![u] = "sold"] /\ StageMap[u] = "booking"
      BY <2>3 DEF StagesBut, StageMap
    <2>5. Claims!Sell(u)
      BY <2>2, <2>4, SameMap, SpentMap
         DEF Claims!Sell, StageMap, ClaimMap, ApprovedSet, OverdueSet, SpentSet
    <2> QED BY <2>5 DEF Allowed, Claims!Next
  <1>7. CASE Kept(u) /\ ~booking[b].key /\ Unclaimed(hold, booking, u)
    BY <1>2, <1>7, Standing DEF Unclaimed
  <1>8. CASE /\ Kept(u) /\ ~booking[b].key /\ ~Unclaimed(hold, booking, u)
             /\ trespassed' = trespassed \cup {u}
    BY <1>1, <1>2, <1>3, <1>4, <1>8, ContestAllowed
  <1> QED BY <1>1, <1>2, <1>5, <1>6, <1>7, <1>8, TrespassCases

LEMMA NothingAllowed ==
    ASSUME UNCHANGED <<unit, hold, booking, trespassed>> PROVE Allowed
  <1>1. Dropped({}) /\ SpentStays
    BY DEF Dropped, RowsStay, Followed, Follows, Kept, SpentStays
  <1>2. SameStages
    BY DEF SameStages, Stage, Kept
  <1> QED BY <1>1, <1>2, StutterMap

LEMMA BookingStepAllowed == ASSUME UnitInv, BookingStep PROVE Allowed
  <1>0. \A b \in Booking : booking[b] \in BookingRow
    BY HoldRows
  <1>1. \A b \in Booking : \A s \in {"REJECTED", "CANCELLED"} :
           /\ ~Ended(booking[b], s).key /\ Ended(booking[b], s).status = s
           /\ Ended(booking[b], s).unit = booking[b].unit
    <2> TAKE b \in Booking
    <2> TAKE s \in {"REJECTED", "CANCELLED"}
    <2>1. booking[b] \in BookingRow /\ s \in BookingStatus
      BY <1>0, BookingStatuses
    <2> QED BY <2>1, EndedBooking
  <1>2. ASSUME NEW b \in Booking, AdvanceBooking(b) PROVE Allowed
    <2>1. PICK s \in NextStatus[booking[b].status] : booking' = [booking EXCEPT ![b].status = s]
      BY <1>2 DEF AdvanceBooking
    <2>2. booking[b].status # "NONE" /\ s # "NONE"
      BY <1>0, <2>1 DEF NextStatus, BookingRow
    <2>3. SameStages
      BY <1>2 DEF AdvanceBooking, SameStages, Stage, Kept
    <2> QED BY <1>2, <2>1, <2>2, <2>3, MovingAllowed DEF AdvanceBooking
  <1>3. ASSUME NEW b \in Booking, NEW actor \in User, RequestApproval(b, actor) PROVE Allowed
    <2>1. booking' = [booking EXCEPT ![b].status = "APPROVAL"] /\ UNCHANGED <<unit, hold, trespassed>>
          /\ booking[b].status # "NONE"
      BY <1>3 DEF RequestApproval
    <2>2. SameStages
      BY <2>1 DEF SameStages, Stage, Kept
    <2> QED BY <2>1, <2>2, MovingAllowed
  <1>4. ASSUME NEW b \in Booking, TransitionBooking(b) PROVE Allowed
    <2>1. PICK u \in Unit : u = booking[b].unit
      BY <1>4 DEF TransitionBooking, UnitInv, TypeInv, Placed
    <2> QED BY <1>1, <1>4, <2>1, LeavingAllowed DEF TransitionBooking
  <1>5. ASSUME NEW v \in Views, NEW b \in Booking, CancelBooking(v, b) PROVE Allowed
    <2>1. PICK u \in Unit : u = booking[b].unit /\ u = v.booking[b].unit /\ booking[b].status # "NONE"
      BY <1>5, ViewsFaithful DEF CancelBooking, Open, UnitInv
    <2> QED BY <1>1, <1>5, <2>1, LeavingAllowed DEF CancelBooking
  <1>6. ASSUME NEW v \in Views, NEW b \in Booking, NEW i \in DOMAIN approval[b],
               DecideApproval(v, b, i)
        PROVE  Allowed
    <2>1. CASE RejectBooking(v, b, i)
      <3>1. PICK u \in Unit :
               u = booking[b].unit /\ u = v.booking[b].unit /\ booking[b].status # "NONE"
        BY <2>1, ViewsFaithful DEF RejectBooking, Decidable, UnitInv
      <3> QED BY <1>1, <2>1, <3>1, LeavingAllowed DEF RejectBooking
    <2>2. CASE ApproveStep(v, b, i)
      BY <2>2, NothingAllowed DEF ApproveStep
    <2> QED BY <1>6, <2>1, <2>2, ConfirmAllowed DEF DecideApproval
  <1> QED BY <1>2, <1>3, <1>4, <1>5, <1>6, InitiateBookingAllowed, CreateBookingAllowed
          DEF BookingStep

-----------------------------------------------------------------------------
LEMMA PromiseInit == Init => Claims!Init
  <1> SUFFICES ASSUME Init PROVE Claims!Init
    OBVIOUS
  <1>1. /\ \A h \in Hold : hold[h].status = "NONE" /\ ~hold[h].key /\ ~Followed(h)
        /\ \A b \in Booking : booking[b].status = "NONE" /\ ~booking[b].key
        /\ \A u \in Unit : unit[u] = "NONE" /\ Kept(u)
    BY DEF Init, NoHold, NoBooking, Followed, Kept
  <1>2. \A u \in Unit : Stage(u) = "unlisted"
    BY <1>1 DEF Stage, HoldType
  <1>3. \A u \in Unit : Claim(u) = {}
    BY <1>1 DEF Claim, HoldsKeyedTo, BookingsKeyedTo
  <1> QED BY <1>1, <1>2, <1>3 DEF Claims!Init

LEMMA PromiseStep == UnitInv /\ [Next]_vars => Allowed
  <1> SUFFICES ASSUME UnitInv, [Next]_vars PROVE Allowed
    OBVIOUS
  <1>1. CASE \E s \in Session : Begin(s)
    BY <1>1, NothingAllowed DEF Begin, rows
  <1>2. CASE UNCHANGED vars
    BY <1>2, NothingAllowed DEF vars
  <1> QED BY <1>1, <1>2, UnitStepAllowed, HoldStepAllowed, BookingStepAllowed DEF Next

(* The handlers implement the promise of UnitClaims: whatever requests race *)
(* for a unit and however old their reads, a claim is taken only from      *)
(* nobody, from an overdue hold or by a booking from an approved one.      *)
THEOREM PromiseCorrect == Spec => PromiseKept
  <1>1. Spec => []UnitInv
    BY UnitInvInit, UnitInvStep, PTL DEF Spec
  <1>2. UnitInv /\ [Next]_vars => [Claims!Next]_(Claims!vars)
    BY PromiseStep DEF Allowed
  <1> QED BY <1>1, <1>2, PromiseInit, PTL DEF Spec, PromiseKept, Claims!Spec

(***************************************************************************)
(* Approvals.  No booking is confirmed before every approver it was sent   *)
(* to approved, whatever the sessions' read views show: an old view may    *)
(* show a step as undecided that is decided by now, but never the other    *)
(* way round.                                                              *)
(***************************************************************************)
Approving(steps) ==
    /\ DOMAIN steps # {}
    /\ \A i \in DOMAIN steps : steps[i].status \in {"PENDING", "APPROVED"}

AllApproved(steps) ==
    /\ DOMAIN steps # {}
    /\ \A i \in DOMAIN steps : steps[i].status = "APPROVED"

(* What a booking's status says of its approval steps.                     *)
Fits(status, steps) ==
    /\ status = "APPROVAL" => Approving(steps)
    /\ status = "CONFIRMED" => AllApproved(steps)

(* Steps are written once, and a decided step is never decided again.      *)
Onward(old, new) ==
    \/ DOMAIN old = {}
    \/ /\ DOMAIN old = DOMAIN new
       /\ \A i \in DOMAIN old : old[i].status # "PENDING" => new[i].status = old[i].status

Reliable(v) ==
    \A b \in Booking : /\ Fits(v.booking[b].status, v.approval[b])
                       /\ Onward(v.approval[b], approval[b])

ApprovalInv ==
    /\ TypeInv
    /\ \A b \in Booking : Fits(booking[b].status, approval[b])
    /\ \A s \in Session : Reliable(view[s])

-----------------------------------------------------------------------------
LEMMA OnwardSame ==
    ASSUME NEW old PROVE Onward(old, old)
  BY DEF Onward

LEMMA OnwardOn ==
    ASSUME NEW a, NEW b, NEW c, Onward(a, b), Onward(b, c) PROVE Onward(a, c)
  BY DEF Onward

LEMMA ViewsReliable ==
    ASSUME ApprovalInv, NEW v \in Views PROVE Reliable(v)
  <1>1. CASE v = Snapshot
    BY <1>1, OnwardSame DEF Snapshot, Reliable, ApprovalInv
  <1>2. CASE \E s \in Session : v = view[s]
    BY <1>2 DEF ApprovalInv
  <1> QED BY <1>1, <1>2 DEF Views

(* A step that rewrites one booking and its steps keeps the invariant when *)
(* the new row fits the new steps.                                         *)
LEMMA OneBooking ==
    ASSUME ApprovalInv, TypeInv', NEW b \in Booking, NEW r, NEW t,
           booking' = [booking EXCEPT ![b] = r],
           approval' = [approval EXCEPT ![b] = t],
           Fits(r.status, t), Onward(approval[b], t), view' = view
    PROVE  ApprovalInv'
  <1>1. /\ DOMAIN booking = Booking /\ DOMAIN approval = Booking
        /\ \A a \in Booking : Fits(booking[a].status, approval[a])
        /\ \A s \in Session : Reliable(view[s])
    BY DEF ApprovalInv, TypeInv, TypeOK
  <1>2. \A a \in Booking : Fits(booking'[a].status, approval'[a]) /\ Onward(approval[a], approval'[a])
    <2> TAKE a \in Booking
    <2>1. CASE a = b
      BY <1>1, <2>1
    <2>2. CASE a # b
      BY <1>1, <2>2, OnwardSame
    <2> QED BY <2>1, <2>2
  <1>3. ASSUME NEW s \in Session PROVE Reliable(view[s])'
    <2>1. \A a \in Booking : /\ Fits(view[s].booking[a].status, view[s].approval[a])
                             /\ Onward(view[s].approval[a], approval[a])
      BY <1>1 DEF Reliable
    <2> QED BY <1>2, <2>1, OnwardOn DEF Reliable
  <1> QED BY <1>2, <1>3 DEF ApprovalInv

LEMMA ApprovalsUnchanged ==
    ASSUME ApprovalInv, TypeInv', UNCHANGED <<approval, view>>, NEW b \in Booking, NEW r,
           booking' = [booking EXCEPT ![b] = r], Fits(r.status, approval[b])
    PROVE  ApprovalInv'
  <1>1. approval' = [approval EXCEPT ![b] = approval[b]]
    BY DEF ApprovalInv, TypeInv, TypeOK
  <1> QED BY <1>1, OneBooking, OnwardSame

LEMMA Otherwise ==
    ASSUME NEW steps, NEW status, status \notin {"APPROVAL", "CONFIRMED"}
    PROVE  Fits(status, steps)
  BY DEF Fits

LEMMA CancelPendingOnward ==
    ASSUME NEW steps PROVE Onward(steps, CancelPending(steps))
  BY DEF Onward, CancelPending

(* One step of a booking's approval is decided.                            *)
LEMMA StepDecided ==
    ASSUME NEW steps \in Seq(ApprovalRow), NEW i \in DOMAIN steps, steps[i].status = "PENDING",
           NEW s
    PROVE  LET t == [steps EXCEPT ![i].status = s]
           IN  /\ Onward(steps, t) /\ DOMAIN t = DOMAIN steps
               /\ t[i].status = s /\ \A j \in DOMAIN steps \ {i} : t[j] = steps[j]
  <1>1. \A j \in DOMAIN steps : steps[j] \in ApprovalRow
    OBVIOUS
  <1> QED BY <1>1 DEF Onward, ApprovalRow

LEMMA RequestApprovalKeeps ==
    ASSUME ApprovalInv, TypeInv', NEW b \in Booking, NEW actor \in User,
           RequestApproval(b, actor)
    PROVE  ApprovalInv'
  <1>1. PICK l \in ApproverLists(actor) :
           approval' = [approval EXCEPT ![b] =
              [i \in DOMAIN l |-> [approver |-> l[i], status |-> "PENDING"]]]
    BY DEF RequestApproval
  <1> DEFINE t == [i \in DOMAIN l |-> [approver |-> l[i], status |-> "PENDING"]]
             r == [booking[b] EXCEPT !.status = "APPROVAL"]
  <1>2. DOMAIN l # {}
    <2>1. PICK n \in 1 .. MaxApprovers : l \in [1 .. n -> User \ {actor}]
      BY DEF ApproverLists
    <2> QED BY <2>1, MaxApproversAssumption
  <1>3. r.status = "APPROVAL" /\ booking' = [booking EXCEPT ![b] = r]
        /\ approval[b] = << >> /\ view' = view
    <2>1. booking[b] \in BookingRow
      BY DEF ApprovalInv, TypeInv, TypeOK
    <2> QED BY <2>1 DEF RequestApproval, BookingRow
  <1>4. Fits("APPROVAL", t)
    BY <1>2 DEF Fits, Approving
  <1>5. Onward(approval[b], t)
    BY <1>3 DEF Onward
  <1>6. approval' = [approval EXCEPT ![b] = t]
    BY <1>1
  <1> HIDE DEF t, r
  <1> QED BY <1>3, <1>4, <1>5, <1>6, OneBooking

LEMMA ConfirmKeepsApprovals ==
    ASSUME ApprovalInv, TypeInv', NEW v \in Views, NEW b \in Booking,
           NEW i \in DOMAIN approval[b], ConfirmBooking(v, b, i)
    PROVE  ApprovalInv'
  <1> DEFINE t == [approval[b] EXCEPT ![i].status = "APPROVED"]
             r == [booking[b] EXCEPT !.status = "CONFIRMED"]
  <1>1. /\ approval[b] \in Seq(ApprovalRow) /\ booking[b] \in BookingRow
        /\ DOMAIN approval = Booking
    BY DEF ApprovalInv, TypeInv, TypeOK
  <1>2. /\ v.booking[b].status = "APPROVAL" /\ approval[b][i].status = "PENDING"
        /\ \A j \in DOMAIN v.approval[b] \ {i} : v.approval[b][j].status # "PENDING"
        /\ view' = view
    BY DEF ConfirmBooking, Decidable, Undecided
  <1>3. Approving(v.approval[b]) /\ Onward(v.approval[b], approval[b])
    BY <1>2, ViewsReliable DEF Reliable, Fits
  <1>4. \A j \in DOMAIN approval[b] \ {i} : approval[b][j].status = "APPROVED"
    BY <1>2, <1>3 DEF Approving, Onward
  <1>5. approval' = [approval EXCEPT ![b] = t] /\ booking' = [booking EXCEPT ![b] = r]
    BY <1>1 DEF ConfirmBooking
  <1>6. r.status = "CONFIRMED"
    BY <1>1 DEF BookingRow
  <1>7. /\ Onward(approval[b], t) /\ DOMAIN t = DOMAIN approval[b]
        /\ t[i].status = "APPROVED" /\ \A j \in DOMAIN approval[b] \ {i} : t[j] = approval[b][j]
    BY <1>1, <1>2, StepDecided
  <1> HIDE DEF t, r
  <1>8. AllApproved(t)
    BY <1>4, <1>7 DEF AllApproved
  <1>9. Fits(r.status, t)
    BY <1>6, <1>8 DEF Fits
  <1> QED BY <1>2, <1>5, <1>7, <1>9, OneBooking

LEMMA ApproveStepKeeps ==
    ASSUME ApprovalInv, TypeInv', NEW v \in Views, NEW b \in Booking,
           NEW i \in DOMAIN approval[b], ApproveStep(v, b, i)
    PROVE  ApprovalInv'
  <1> DEFINE t == [approval[b] EXCEPT ![i].status = "APPROVED"]
  <1>1. /\ approval[b] \in Seq(ApprovalRow) /\ DOMAIN approval = Booking
        /\ booking' = [booking EXCEPT ![b] = booking[b]] /\ view' = view
        /\ approval[b][i].status = "PENDING" /\ Fits(booking[b].status, approval[b])
    BY DEF ApprovalInv, TypeInv, TypeOK, ApproveStep, Decidable
  <1>2. approval' = [approval EXCEPT ![b] = t]
    BY <1>1 DEF ApproveStep
  <1>3. /\ Onward(approval[b], t) /\ DOMAIN t = DOMAIN approval[b]
        /\ t[i].status = "APPROVED" /\ \A j \in DOMAIN approval[b] \ {i} : t[j] = approval[b][j]
    BY <1>1, StepDecided
  <1> HIDE DEF t
  <1>4. Fits(booking[b].status, t)
    BY <1>1, <1>3 DEF Fits, Approving, AllApproved
  <1> QED BY <1>1, <1>2, <1>3, <1>4, OneBooking

(* A rejection or a cancellation ends the booking and its undecided steps. *)
LEMMA BookingEnds ==
    ASSUME ApprovalInv, TypeInv', NEW b \in Booking, NEW t, NEW s \in {"REJECTED", "CANCELLED"},
           booking' = [booking EXCEPT ![b] = Ended(booking[b], s)],
           approval' = [approval EXCEPT ![b] = t], Onward(approval[b], t), view' = view
    PROVE  ApprovalInv'
  <1>1. booking[b] \in BookingRow /\ s \in BookingStatus
    BY BookingStatuses DEF ApprovalInv, TypeInv, TypeOK
  <1>2. Ended(booking[b], s).status \notin {"APPROVAL", "CONFIRMED"}
    BY <1>1, EndedBooking
  <1> QED BY <1>2, Otherwise, OneBooking

LEMMA RejectKeepsApprovals ==
    ASSUME ApprovalInv, TypeInv', NEW v \in Views, NEW b \in Booking,
           NEW i \in DOMAIN approval[b], RejectBooking(v, b, i)
    PROVE  ApprovalInv'
  <1> DEFINE t == [approval[b] EXCEPT ![i].status = "REJECTED"]
  <1>1. approval[b] \in Seq(ApprovalRow) /\ approval[b][i].status = "PENDING"
    BY DEF ApprovalInv, TypeInv, TypeOK, RejectBooking, Decidable
  <1>2. Onward(approval[b], t)
    BY <1>1, StepDecided
  <1>3. Onward(approval[b], CancelPending(t))
    BY <1>2, CancelPendingOnward, OnwardOn
  <1>4. /\ approval' = [approval EXCEPT ![b] = CancelPending(t)]
        /\ booking' = [booking EXCEPT ![b] = Ended(booking[b], "REJECTED")] /\ view' = view
    BY DEF RejectBooking
  <1> HIDE DEF t
  <1> QED BY <1>3, <1>4, BookingEnds

LEMMA BookingStepKeepsApprovals ==
    ASSUME ApprovalInv, TypeInv', BookingStep PROVE ApprovalInv'
  <1>0. \A b \in Booking : booking[b] \in BookingRow
    BY DEF ApprovalInv, TypeInv, TypeOK
  <1>1. ASSUME NEW v \in Views, NEW b \in Booking, NEW u \in Unit, NEW c \in Customer,
               InitiateBooking(v, b, u, c)
        PROVE  ApprovalInv'
    <2>1. NewBooking(u, c, FALSE, "DRAFT").status = "DRAFT"
      BY DEF NewBooking
    <2> QED BY <1>1, <2>1, Otherwise, ApprovalsUnchanged DEF InitiateBooking
  <1>2. ASSUME NEW v \in Views, NEW b \in Booking, NEW h \in Hold, CreateBooking(v, b, h)
        PROVE  ApprovalInv'
    <2>1. NewBooking(hold[h].unit, hold[h].customer, TRUE, "PAYMENT_PENDING").status
              = "PAYMENT_PENDING"
      BY DEF NewBooking
    <2> QED BY <1>2, <2>1, Otherwise, ApprovalsUnchanged DEF CreateBooking
  <1>3. ASSUME NEW b \in Booking, AdvanceBooking(b) PROVE ApprovalInv'
    <2>1. PICK s \in NextStatus[booking[b].status] : booking' = [booking EXCEPT ![b].status = s]
      BY <1>3 DEF AdvanceBooking
    <2>2. s \notin {"APPROVAL", "CONFIRMED"}
      BY <1>0, <2>1 DEF NextStatus, BookingRow
    <2> DEFINE r == [booking[b] EXCEPT !.status = s]
    <2>3. r.status = s /\ booking' = [booking EXCEPT ![b] = r]
      BY <1>0, <2>1 DEF BookingRow
    <2> HIDE DEF r
    <2> QED BY <1>3, <2>2, <2>3, Otherwise, ApprovalsUnchanged DEF AdvanceBooking
  <1>4. ASSUME NEW b \in Booking, TransitionBooking(b) PROVE ApprovalInv'
    <2>1. Ended(booking[b], "CANCELLED").status = "CANCELLED"
      BY <1>0, EndedBooking, BookingStatuses
    <2> QED BY <1>4, <2>1, Otherwise, ApprovalsUnchanged DEF TransitionBooking
  <1>5. ASSUME NEW v \in Views, NEW b \in Booking, CancelBooking(v, b) PROVE ApprovalInv'
    BY <1>5, CancelPendingOnward, BookingEnds DEF CancelBooking
  <1>6. ASSUME NEW v \in Views, NEW b \in Booking, NEW i \in DOMAIN approval[b],
               DecideApproval(v, b, i)
        PROVE  ApprovalInv'
    BY <1>6, RejectKeepsApprovals, ApproveStepKeeps, ConfirmKeepsApprovals DEF DecideApproval
  <1> QED BY <1>1, <1>2, <1>3, <1>4, <1>5, <1>6, RequestApprovalKeeps DEF BookingStep

LEMMA ApprovalStep == ApprovalInv /\ [Next]_vars => ApprovalInv'
  <1> SUFFICES ASSUME ApprovalInv, [Next]_vars PROVE ApprovalInv'
    OBVIOUS
  <1>1. TypeInv'
    BY TypeStep DEF ApprovalInv
  <1>2. CASE UNCHANGED <<booking, approval, view>>
    BY <1>1, <1>2 DEF ApprovalInv, Reliable
  <1>3. ASSUME NEW s \in Session, Begin(s) PROVE ApprovalInv'
    <2>1. UNCHANGED <<booking, approval>> /\ view' = [view EXCEPT ![s] = Snapshot]
      BY <1>3 DEF Begin, rows
    <2>2. Reliable(Snapshot)
      BY ViewsReliable DEF Views
    <2>3. \A z \in Session : view'[z] = view[z] \/ view'[z] = Snapshot
      BY <2>1 DEF ApprovalInv, TypeInv, TypeOK
    <2>4. ASSUME NEW z \in Session PROVE Reliable(view[z])'
      BY <2>1, <2>2, <2>3 DEF Reliable, ApprovalInv
    <2> QED BY <1>1, <2>1, <2>4 DEF ApprovalInv
  <1>4. CASE UnitStep
    BY <1>2, <1>4 DEF UnitStep, CreateUnit, DeleteUnit, TransitionUnit
  <1>5. CASE HoldStep
    BY <1>2, <1>5 DEF HoldStep, CreateHold, DecideHold, ApproveHold, RejectHold, ReleaseHold,
                      ExpireAndRefuse, FallDue, ExpireDueHolds
  <1> QED BY <1>1, <1>2, <1>3, <1>4, <1>5, BookingStepKeepsApprovals DEF Next, vars

LEMMA ApprovalInit == Init => ApprovalInv
  <1> SUFFICES ASSUME Init PROVE ApprovalInv
    OBVIOUS
  <1>1. \A b \in Booking : booking[b].status = "NONE" /\ approval[b] = << >>
    BY DEF Init, NoBooking
  <1>2. \A s \in Session : view[s].booking = booking /\ view[s].approval = approval
    BY DEF Init, Snapshot
  <1> QED BY <1>1, <1>2, TypeInit DEF ApprovalInv, Reliable, Fits, Onward

(* A booking is sold only on the word of every approver it was sent to,    *)
(* however many approvers decide at the same time and whatever they read. *)
THEOREM ConfirmedCorrect == Spec => []ConfirmedByAll
  <1>1. Spec => []ApprovalInv
    BY ApprovalInit, ApprovalStep, PTL DEF Spec
  <1>2. ApprovalInv => ConfirmedByAll
    BY DEF ApprovalInv, Fits, AllApproved, ConfirmedByAll
  <1> QED BY <1>1, <1>2, PTL

-----------------------------------------------------------------------------
(* Requests that read the current rows: the last approver's count is right *)
(* and no booking is left waiting for nobody.                              *)

Waits(steps) == \E i \in DOMAIN steps : steps[i].status = "PENDING"

LEMMA OneBookingWaits ==
    ASSUME TypeInv, ApprovalAwaited, NEW b \in Booking, NEW r, NEW t,
           booking' = [booking EXCEPT ![b] = r], approval' = [approval EXCEPT ![b] = t],
           r.status = "APPROVAL" => Waits(t)
    PROVE  ApprovalAwaited'
  <1>1. DOMAIN booking = Booking /\ DOMAIN approval = Booking
    BY DEF TypeInv, TypeOK
  <1>2. ASSUME NEW a \in Booking, booking'[a].status = "APPROVAL" PROVE Waits(approval'[a])
    <2>1. CASE a = b
      BY <1>1, <1>2, <2>1
    <2>2. CASE a # b
      BY <1>1, <1>2, <2>2 DEF ApprovalAwaited, Waits
    <2> QED BY <2>1, <2>2
  <1> QED BY <1>2 DEF ApprovalAwaited, Waits

LEMMA OnlyBookingWaits ==
    ASSUME TypeInv, ApprovalAwaited, NEW b \in Booking, NEW r,
           booking' = [booking EXCEPT ![b] = r], approval' = approval,
           r.status # "APPROVAL"
    PROVE  ApprovalAwaited'
  <1>1. approval' = [approval EXCEPT ![b] = approval[b]]
    BY DEF TypeInv, TypeOK
  <1> QED BY <1>1, OneBookingWaits

LEMMA DecisionAwaited ==
    ASSUME Session = {}, TypeInv, ApprovalAwaited, NEW v \in Views, NEW b \in Booking,
           NEW i \in DOMAIN approval[b], DecideApproval(v, b, i)
    PROVE  ApprovalAwaited'
  <1>0. /\ booking[b] \in BookingRow /\ approval[b] \in Seq(ApprovalRow)
        /\ approval \in [Booking -> Seq(ApprovalRow)] /\ booking \in [Booking -> BookingRow]
        /\ v.approval = approval /\ v.booking = booking
    BY DEF TypeInv, TypeOK, Views, Snapshot
  <1>1. CASE RejectBooking(v, b, i)
    <2>1. Ended(booking[b], "REJECTED").status = "REJECTED"
      BY <1>0, EndedBooking, BookingStatuses
    <2> QED BY <1>1, <2>1, OneBookingWaits DEF RejectBooking
  <1>2. CASE ApproveStep(v, b, i)
    <2> DEFINE t == [approval[b] EXCEPT ![i].status = "APPROVED"]
    <2>1. PICK j \in DOMAIN approval[b] \ {i} : approval[b][j].status = "PENDING"
      BY <1>0, <1>2 DEF ApproveStep, Undecided
    <2>2. approval[b][i].status = "PENDING"
      BY <1>2 DEF ApproveStep, Decidable
    <2>3. DOMAIN t = DOMAIN approval[b] /\ \A k \in DOMAIN approval[b] \ {i} : t[k] = approval[b][k]
      BY <1>0, <2>2, StepDecided
    <2>4. approval' = [approval EXCEPT ![b] = t] /\ booking' = [booking EXCEPT ![b] = booking[b]]
      BY <1>0, <1>2 DEF ApproveStep
    <2> HIDE DEF t
    <2>5. Waits(t)
      BY <2>1, <2>3 DEF Waits
    <2> QED BY <2>4, <2>5, OneBookingWaits
  <1>3. CASE ConfirmBooking(v, b, i)
    <2>1. [booking[b] EXCEPT !.status = "CONFIRMED"].status = "CONFIRMED"
      BY <1>0 DEF BookingRow
    <2>2. booking' = [booking EXCEPT ![b] = [booking[b] EXCEPT !.status = "CONFIRMED"]]
      BY <1>3 DEF ConfirmBooking
    <2> DEFINE t == [approval[b] EXCEPT ![i].status = "APPROVED"]
               r == [booking[b] EXCEPT !.status = "CONFIRMED"]
    <2>3. approval' = [approval EXCEPT ![b] = t] /\ booking' = [booking EXCEPT ![b] = r]
      BY <1>0, <1>3, <2>2 DEF ConfirmBooking
    <2> HIDE DEF t
    <2>4. r.status # "APPROVAL"
      BY <2>1
    <2> QED BY <2>3, <2>4, OneBookingWaits
  <1> QED BY <1>1, <1>2, <1>3 DEF DecideApproval

LEMMA AwaitedStep ==
    ASSUME Session = {}, TypeInv, ApprovalAwaited, [Next]_vars PROVE ApprovalAwaited'
  <1>0. \A b \in Booking : booking[b] \in BookingRow
    BY DEF TypeInv, TypeOK
  <1>1. CASE UNCHANGED <<booking, approval>>
    BY <1>1 DEF ApprovalAwaited
  <1>2. ASSUME NEW v \in Views, NEW b \in Booking, NEW u \in Unit, NEW c \in Customer,
               InitiateBooking(v, b, u, c)
        PROVE  ApprovalAwaited'
    <2>1. NewBooking(u, c, FALSE, "DRAFT").status # "APPROVAL"
      BY DEF NewBooking
    <2> QED BY <1>2, <2>1, OnlyBookingWaits DEF InitiateBooking
  <1>3. ASSUME NEW v \in Views, NEW b \in Booking, NEW h \in Hold, CreateBooking(v, b, h)
        PROVE  ApprovalAwaited'
    <2>1. NewBooking(hold[h].unit, hold[h].customer, TRUE, "PAYMENT_PENDING").status # "APPROVAL"
      BY DEF NewBooking
    <2> QED BY <1>3, <2>1, OnlyBookingWaits DEF CreateBooking
  <1>4. ASSUME NEW b \in Booking, AdvanceBooking(b) PROVE ApprovalAwaited'
    <2>1. PICK s \in NextStatus[booking[b].status] : booking' = [booking EXCEPT ![b].status = s]
      BY <1>4 DEF AdvanceBooking
    <2>2. [booking[b] EXCEPT !.status = s].status # "APPROVAL"
      BY <1>0, <2>1 DEF NextStatus, BookingRow
    <2> QED BY <1>4, <2>1, <2>2, OnlyBookingWaits DEF AdvanceBooking
  <1>5. ASSUME NEW b \in Booking, TransitionBooking(b) PROVE ApprovalAwaited'
    <2>1. Ended(booking[b], "CANCELLED").status # "APPROVAL"
      BY <1>0, EndedBooking, BookingStatuses
    <2> QED BY <1>5, <2>1, OnlyBookingWaits DEF TransitionBooking
  <1>6. ASSUME NEW v \in Views, NEW b \in Booking, CancelBooking(v, b) PROVE ApprovalAwaited'
    <2>1. Ended(booking[b], "CANCELLED").status # "APPROVAL"
      BY <1>0, EndedBooking, BookingStatuses
    <2> QED BY <1>6, <2>1, OneBookingWaits DEF CancelBooking
  <1>7. ASSUME NEW b \in Booking, NEW actor \in User, RequestApproval(b, actor)
        PROVE  ApprovalAwaited'
    <2>1. PICK l \in ApproverLists(actor) :
             approval' = [approval EXCEPT ![b] =
                [i \in DOMAIN l |-> [approver |-> l[i], status |-> "PENDING"]]]
      BY <1>7 DEF RequestApproval
    <2>2. DOMAIN l # {}
      <3>1. PICK n \in 1 .. MaxApprovers : l \in [1 .. n -> User \ {actor}]
        BY DEF ApproverLists
      <3> QED BY <3>1, MaxApproversAssumption
    <2>3. Waits([i \in DOMAIN l |-> [approver |-> l[i], status |-> "PENDING"]])
      BY <2>2 DEF Waits
    <2>4. booking' = [booking EXCEPT ![b] = [booking[b] EXCEPT !.status = "APPROVAL"]]
      BY <1>7 DEF RequestApproval
    <2> QED BY <2>1, <2>3, <2>4, OneBookingWaits
  <1>8. CASE BookingStep
    BY <1>2, <1>3, <1>4, <1>5, <1>6, <1>7, <1>8, DecisionAwaited DEF BookingStep
  <1>9. CASE UnitStep
    BY <1>1, <1>9 DEF UnitStep, CreateUnit, DeleteUnit, TransitionUnit
  <1>10. CASE HoldStep
    BY <1>1, <1>10 DEF HoldStep, CreateHold, DecideHold, ApproveHold, RejectHold, ReleaseHold,
                       ExpireAndRefuse, FallDue, ExpireDueHolds
  <1> QED BY <1>1, <1>8, <1>9, <1>10 DEF Next, Begin, rows, vars

(* With current reads, a booking that waits for approval waits for         *)
(* somebody: the last approver of bookings.decide_approval settles it.     *)
THEOREM AwaitedBySomebody == ASSUME Session = {} PROVE Spec => []ApprovalAwaited
  <1>1. Init => TypeInv /\ ApprovalAwaited
    BY TypeInit DEF Init, ApprovalAwaited, NoBooking
  <1>2. TypeInv /\ ApprovalAwaited /\ [Next]_vars => (TypeInv /\ ApprovalAwaited)'
    BY TypeStep, AwaitedStep
  <1> QED BY <1>1, <1>2, PTL DEF Spec

-----------------------------------------------------------------------------
(***************************************************************************)
(* Single steps.  What a booking may do to another's reservation holds     *)
(* whatever the sessions' read views show; the rest only when every        *)
(* request decides on the current rows.                                    *)
(***************************************************************************)
(* A hold of which there is a row is some customer's.                      *)
Owned == \A h \in Hold : hold[h].status # "NONE" => hold[h].customer \in Customer

Moved(h, s) == hold'[h].status = s /\ hold'[h].customer = hold[h].customer

(* The ways a step can treat one hold.                                     *)
Course(h) ==
    \/ hold'[h] = hold[h]
    \/ /\ hold[h].status = "NONE" /\ hold'[h].status = "PENDING_APPROVAL"
       /\ hold'[h].customer \in Customer
    \/ hold[h].status \in Reserving /\ \E s \in {hold[h].status, "RELEASED", "EXPIRED"} : Moved(h, s)
    \/ hold[h].status = "ACTIVE" /\ Moved(h, "CONVERTED")
    \/ /\ hold[h].status \in Reserving
       /\ \E v \in Views : v.holdStatus[h] = "PENDING_APPROVAL"
       /\ \E s \in {"ACTIVE", "REJECTED"} : Moved(h, s)

-----------------------------------------------------------------------------
(* Holds.                                                                  *)

LEMMA EndedMoved ==
    ASSUME TypeOK, NEW h \in Hold, NEW s \in {"REJECTED", "RELEASED", "EXPIRED", "CONVERTED"},
           hold'[h] = Ended(hold[h], s)
    PROVE  Moved(h, s)
  <1>1. hold[h] \in HoldRow /\ s \in HoldStatus
    BY HoldStatuses DEF TypeOK
  <1>2. Ended(hold[h], s).status = s /\ Ended(hold[h], s).customer = hold[h].customer
    BY <1>1, EndedHold
  <1> QED BY <1>2 DEF Moved

LEMMA ExpiringCourse ==
    ASSUME TypeOK, NEW h \in Hold, NEW H, \A g \in H : hold[g].status \in Reserving,
           hold'[h] = HoldsExpiring(H)[h]
    PROVE  Course(h)
  <1>1. CASE h \in H
    <2>1. hold'[h] = Ended(hold[h], "EXPIRED")
      BY <1>1 DEF HoldsExpiring
    <2> QED BY <1>1, <2>1, EndedMoved DEF Course
  <1>2. CASE h \notin H
    BY <1>2 DEF HoldsExpiring, Course
  <1> QED BY <1>1, <1>2

LEMMA HoldCourse ==
    ASSUME TypeOK, [Next]_vars, NEW h \in Hold PROVE Course(h)
  <1>0. hold \in [Hold -> HoldRow] /\ (\A g \in Hold : hold[g] \in HoldRow)
    BY DEF TypeOK
  <1>1. CASE hold' = hold
    BY <1>1 DEF Course
  <1>2. ASSUME NEW g \in Hold, NEW u \in Unit, NEW c \in Customer, NEW holder \in User,
               NEW type \in HoldType, CreateHold(g, u, c, holder, type)
        PROVE  Course(h)
    <2> DEFINE row == [unit |-> u, customer |-> c, holder |-> holder, type |-> type,
                       status |-> "PENDING_APPROVAL", key |-> TRUE, due |-> FALSE]
    <2>1. /\ hold' = [HoldsExpiring(OverdueOn(u)) EXCEPT ![g] = row]
          /\ DOMAIN HoldsExpiring(OverdueOn(u)) = Hold /\ hold[g].status = "NONE"
      BY <1>2 DEF CreateHold, HoldsExpiring
    <2>2. row.status = "PENDING_APPROVAL" /\ row.customer \in Customer
      OBVIOUS
    <2> HIDE DEF row
    <2>3. CASE h = g
      BY <2>1, <2>2, <2>3 DEF Course
    <2>4. CASE h # g
      BY <2>1, <2>4, Overdue, ExpiringCourse
    <2> QED BY <2>3, <2>4
  <1>3. ASSUME NEW u, ExpireAndRefuse(u) PROVE Course(h)
    BY <1>3, Overdue, ExpiringCourse DEF ExpireAndRefuse
  <1>4. CASE ExpireDueHolds
    <2>1. PICK H \in SUBSET UNION {OverdueOn(u) : u \in Unit} : hold' = HoldsExpiring(H)
      BY <1>4 DEF ExpireDueHolds
    <2>2. \A g \in H : hold[g].status \in Reserving
      BY <2>1, Overdue
    <2> QED BY <2>1, <2>2, ExpiringCourse
  <1>5. ASSUME NEW v \in Views, NEW g \in Hold, NEW actor \in User, DecideHold(v, g, actor)
        PROVE  Course(h)
    <2>1. CASE DecidableHold(v, g, actor) /\ h = g
      <3>1. hold[h].status \in Reserving /\ v.holdStatus[h] = "PENDING_APPROVAL"
        BY <2>1 DEF DecidableHold, ValidOn
      <3>2. CASE ApproveHold(v, g, actor)
        <4>1. Moved(h, "ACTIVE")
          BY <1>0, <2>1, <3>2 DEF ApproveHold, Moved, HoldRow
        <4> QED BY <3>1, <4>1 DEF Course
      <3>3. CASE RejectHold(v, g, actor)
        <4>1. Moved(h, "REJECTED")
          BY <1>0, <2>1, <3>3, EndedMoved DEF RejectHold
        <4> QED BY <3>1, <4>1 DEF Course
      <3> QED BY <1>3, <1>5, <3>2, <3>3 DEF DecideHold
    <2>2. CASE h # g /\ (ApproveHold(v, g, actor) \/ RejectHold(v, g, actor))
      BY <1>0, <2>2 DEF ApproveHold, RejectHold, Course
    <2> QED BY <1>3, <1>5, <2>1, <2>2 DEF DecideHold, ApproveHold, RejectHold
  <1>6. ASSUME NEW u \in Unit, ReleaseHold(u) PROVE Course(h)
    <2>1. CASE h \in ValidOn(u) /\ hold'[h] = Ended(hold[h], "RELEASED")
      BY <2>1, EndedMoved DEF Course, ValidOn
    <2> QED BY <1>3, <1>6, <2>1 DEF ReleaseHold, Course
  <1>7. ASSUME NEW g \in Hold, FallDue(g) PROVE Course(h)
    <2>1. CASE h = g
      <3>1. Moved(h, hold[h].status)
        BY <1>0, <1>7, <2>1 DEF FallDue, Moved, HoldRow
      <3> QED BY <1>7, <2>1, <3>1 DEF FallDue, Course
    <2>2. CASE h # g
      BY <1>0, <1>7, <2>2 DEF FallDue, Course
    <2> QED BY <2>1, <2>2
  <1>8. ASSUME NEW v \in Views, NEW b \in Booking, NEW u \in Unit, NEW c \in Customer,
               InitiateBooking(v, b, u, c)
        PROVE  Course(h)
    <2>1. CASE h \in ValidOn(u)
      <3>1. hold[h].status = "ACTIVE" /\ hold'[h] = Ended(hold[h], "CONVERTED")
        BY <1>8, <2>1 DEF InitiateBooking
      <3> QED BY <3>1, EndedMoved DEF Course
    <2>2. CASE h \notin ValidOn(u)
      BY <1>8, <2>2, Overdue, ExpiringCourse DEF InitiateBooking
    <2> QED BY <2>1, <2>2
  <1>9. ASSUME NEW v \in Views, NEW b \in Booking, NEW g \in Hold, CreateBooking(v, b, g)
        PROVE  Course(h)
    <2>1. CASE h = g
      <3>1. hold[h].status = "ACTIVE" /\ hold'[h] = Ended(hold[h], "CONVERTED")
        BY <1>0, <1>9, <2>1 DEF CreateBooking
      <3> QED BY <3>1, EndedMoved DEF Course
    <2>2. CASE h # g
      BY <1>0, <1>9, <2>2 DEF CreateBooking, Course
    <2> QED BY <2>1, <2>2
  <1>10. CASE UnitStep
    BY <1>1, <1>10 DEF UnitStep, CreateUnit, DeleteUnit, TransitionUnit
  <1>11. CASE HoldStep
    BY <1>2, <1>4, <1>5, <1>6, <1>7, <1>11 DEF HoldStep
  <1>12. CASE BookingStep
    <2>1. ASSUME NEW b \in Booking,
                 AdvanceBooking(b) \/ TransitionBooking(b) \/ \E actor \in User : RequestApproval(b, actor)
          PROVE  hold' = hold
      BY <2>1 DEF AdvanceBooking, TransitionBooking, RequestApproval
    <2>2. ASSUME NEW v \in Views, NEW b \in Booking, NEW i \in DOMAIN approval[b],
                 DecideApproval(v, b, i)
          PROVE  hold' = hold
      BY <2>2 DEF DecideApproval, RejectBooking, ApproveStep, ConfirmBooking
    <2>3. ASSUME NEW v \in Views, NEW b \in Booking, CancelBooking(v, b) PROVE hold' = hold
      BY <2>3 DEF CancelBooking
    <2> QED BY <1>1, <1>8, <1>9, <1>12, <2>1, <2>2, <2>3 DEF BookingStep
  <1> QED BY <1>1, <1>10, <1>11, <1>12 DEF Next, Begin, rows, vars

-----------------------------------------------------------------------------
LEMMA OwnedStep == ASSUME TypeOK, Owned, [Next]_vars PROVE Owned'
  <1> SUFFICES ASSUME NEW h \in Hold, hold'[h].status # "NONE"
               PROVE  hold'[h].customer \in Customer
    BY DEF Owned
  <1>1. Course(h)
    BY HoldCourse
  <1> QED BY <1>1 DEF Course, Moved, Owned, Reserving

(* Only the two handlers that open a booking give one the unit's key.      *)
LEMMA KeyTaken ==
    ASSUME TypeInv, [Next]_vars, NEW b \in Booking, ~booking[b].key, booking'[b].key
    PROVE  \/ \E v \in Views, u \in Unit, c \in Customer : InitiateBooking(v, b, u, c)
           \/ \E v \in Views, h \in Hold : CreateBooking(v, b, h)
  <1>0. /\ booking \in [Booking -> BookingRow] /\ (\A a \in Booking : booking[a] \in BookingRow)
        /\ booking' # booking
    BY DEF TypeInv, TypeOK
  <1>1. ASSUME NEW a \in Booking, NEW s, booking' = [booking EXCEPT ![a].status = s]
        PROVE  FALSE
    BY <1>0, <1>1 DEF BookingRow
  <1>2. ASSUME NEW a \in Booking, NEW s, booking' = [booking EXCEPT ![a] = Ended(@, s)]
        PROVE  FALSE
    BY <1>0, <1>2 DEF BookingRow, Ended
  <1>3. ~ \E a \in Booking : AdvanceBooking(a) \/ TransitionBooking(a)
    BY <1>1, <1>2 DEF AdvanceBooking, TransitionBooking
  <1>4. ~ \E a \in Booking, actor \in User : RequestApproval(a, actor)
    BY <1>1 DEF RequestApproval
  <1>5. ASSUME NEW v \in Views, NEW a \in Booking, NEW i \in DOMAIN approval[a],
               DecideApproval(v, a, i)
        PROVE  FALSE
    <2>1. ~RejectBooking(v, a, i)
      BY <1>2 DEF RejectBooking
    <2>2. ~ApproveStep(v, a, i)
      BY <1>0 DEF ApproveStep
    <2>3. ~ConfirmBooking(v, a, i)
      BY <1>1 DEF ConfirmBooking
    <2> QED BY <1>5, <2>1, <2>2, <2>3 DEF DecideApproval
  <1>6. ~ \E v \in Views, a \in Booking : CancelBooking(v, a)
    BY <1>2 DEF CancelBooking
  <1>7. ASSUME NEW v \in Views, NEW a \in Booking, NEW u \in Unit, NEW c \in Customer,
               InitiateBooking(v, a, u, c)
        PROVE  a = b
    BY <1>0, <1>7 DEF InitiateBooking
  <1>8. ASSUME NEW v \in Views, NEW a \in Booking, NEW h \in Hold, CreateBooking(v, a, h)
        PROVE  a = b
    BY <1>0, <1>8 DEF CreateBooking
  <1>9. ~UnitStep /\ ~HoldStep /\ ~(\E s \in Session : Begin(s)) /\ ~UNCHANGED vars
    BY <1>0 DEF UnitStep, CreateUnit, DeleteUnit, TransitionUnit, HoldStep, CreateHold, DecideHold,
                ApproveHold, RejectHold, ReleaseHold, ExpireAndRefuse, FallDue, ExpireDueHolds,
                Begin, rows, vars
  <1>10. BookingStep
    BY <1>9 DEF Next
  <1> QED BY <1>3, <1>4, <1>5, <1>6, <1>7, <1>8, <1>10 DEF BookingStep

Respects(b) ==
    ~booking[b].key /\ booking'[b].key =>
        \A h \in ValidOn(booking'[b].unit) :
            /\ hold[h].status = "ACTIVE" /\ hold[h].customer = booking'[b].customer
            /\ hold'[h].status = "CONVERTED"

LEMMA RespectsStep ==
    ASSUME UnitInv, Owned, [Next]_vars, NEW b \in Booking PROVE Respects(b)
  <1> SUFFICES ASSUME ~booking[b].key, booking'[b].key, NEW h \in ValidOn(booking'[b].unit)
               PROVE  /\ hold[h].status = "ACTIVE" /\ hold[h].customer = booking'[b].customer
                      /\ hold'[h].status = "CONVERTED"
    BY DEF Respects
  <1>0. /\ hold \in [Hold -> HoldRow] /\ (\A g \in Hold : hold[g] \in HoldRow)
        /\ booking \in [Booking -> BookingRow] /\ HoldKeys /\ TypeInv /\ TypeOK
        /\ h \in Hold /\ hold[h].status \in Reserving
    BY Keys DEF UnitInv, TypeInv, TypeOK, ValidOn
  <1>1. ASSUME NEW v \in Views, NEW u \in Unit, NEW c \in Customer, InitiateBooking(v, b, u, c)
        PROVE  /\ hold[h].status = "ACTIVE" /\ hold[h].customer = booking'[b].customer
               /\ hold'[h].status = "CONVERTED"
    <2>1. booking'[b].unit = u /\ booking'[b].customer = c
      BY <1>0, <1>1 DEF InitiateBooking, NewBooking
    <2>2. hold[h].status = "ACTIVE" /\ hold[h].customer \in {None, c}
          /\ hold'[h] = Ended(hold[h], "CONVERTED")
      BY <1>0, <1>1, <2>1 DEF InitiateBooking
    <2>3. hold[h].customer # None
      BY <1>0, <2>2, NoneAssumption DEF Owned
    <2>4. hold'[h].status = "CONVERTED"
      BY <1>0, <2>2, EndedMoved DEF Moved
    <2> QED BY <2>1, <2>2, <2>3, <2>4
  <1>2. ASSUME NEW v \in Views, NEW g \in Hold, CreateBooking(v, b, g)
        PROVE  /\ hold[h].status = "ACTIVE" /\ hold[h].customer = booking'[b].customer
               /\ hold'[h].status = "CONVERTED"
    <2>1. /\ booking'[b].unit = hold[g].unit /\ booking'[b].customer = hold[g].customer
          /\ hold[g].status = "ACTIVE" /\ hold'[g] = Ended(hold[g], "CONVERTED")
      BY <1>0, <1>2 DEF CreateBooking, NewBooking
    <2>2. hold[h].unit = hold[g].unit
      BY <2>1 DEF ValidOn
    <2>3. h = g
      BY <1>0, <2>1, <2>2 DEF HoldKeys, Reserving
    <2>4. hold'[h].status = "CONVERTED"
      BY <1>0, <2>1, <2>3, EndedMoved DEF Moved
    <2> QED BY <2>1, <2>3, <2>4
  <1> QED BY <1>0, <1>1, <1>2, KeyTaken

(* Whatever the sessions' views show, a booking takes a unit from under a  *)
(* reservation only when that was approved, for the booking's customer, or *)
(* overdue: inventory.initiate_booking and bookings.create_booking.        *)
THEOREM HoldsRespected == Spec => BookingsRespectHolds
  <1>1. Init => UnitInv /\ Owned
    BY UnitInvInit DEF Init, Owned, NoHold
  <1>2. UnitInv /\ Owned /\ [Next]_vars => (UnitInv /\ Owned)'
    BY UnitInvStep, OwnedStep DEF UnitInv, TypeInv
  <1>3. UnitInv /\ Owned /\ [Next]_vars =>
           [\A b \in Booking : ~booking[b].key /\ booking'[b].key =>
              \A h \in ValidOn(booking'[b].unit) :
                  /\ hold[h].status = "ACTIVE" /\ hold[h].customer = booking'[b].customer
                  /\ hold'[h].status = "CONVERTED"]_vars
    BY RespectsStep DEF Respects
  <1> QED BY <1>1, <1>2, <1>3, PTL DEF Spec, BookingsRespectHolds

-----------------------------------------------------------------------------
(* Requests that read the current rows: no session's view is older.        *)

LEMMA CurrentViews == ASSUME Session = {}, NEW v \in Views PROVE v = Snapshot
  BY DEF Views

(* With current reads, a hold that ended stays ended and is decided once:  *)
(* inventory.decide_hold, release_hold and expire_due_holds.               *)
THEOREM HoldsForward == ASSUME Session = {} PROVE Spec => HoldsMoveForward
  <1>1. Spec => []TypeInv
    BY TypeInit, TypeStep, PTL DEF Spec
  <1>2. TypeInv /\ [Next]_vars =>
           [\A h \in Hold : hold'[h].status # hold[h].status =>
              <<hold[h].status, hold'[h].status>> \in HoldMoves]_vars
    <2> SUFFICES ASSUME TypeInv, [Next]_vars, NEW h \in Hold, hold'[h].status # hold[h].status
                 PROVE  <<hold[h].status, hold'[h].status>> \in HoldMoves
      OBVIOUS
    <2>1. Course(h)
      BY HoldCourse DEF TypeInv
    <2>2. \A v \in Views : v.holdStatus[h] = hold[h].status
      BY CurrentViews DEF Snapshot
    <2> QED BY <2>1, <2>2 DEF Course, Moved, HoldMoves, Reserving
  <1> QED BY <1>1, <1>2, PTL DEF Spec, HoldsMoveForward

(* With current reads, no handler takes a confirmed sale back:             *)
(* bookings.cancel_booking and inventory.transition_booking.               *)
THEOREM SalesStand == ASSUME Session = {} PROVE Spec => ConfirmedStays
  <1>1. Spec => []TypeInv
    BY TypeInit, TypeStep, PTL DEF Spec
  <1>2. TypeInv /\ [Next]_vars =>
           [\A b \in Booking : booking[b].status = "CONFIRMED" =>
              booking'[b].status = "CONFIRMED"]_vars
    <2> SUFFICES ASSUME TypeInv, [Next]_vars, NEW b \in Booking, booking[b].status = "CONFIRMED"
                 PROVE  booking'[b].status = "CONFIRMED"
      OBVIOUS
    <2>0. booking \in [Booking -> BookingRow] /\ (\A v \in Views : v.booking = booking)
      BY CurrentViews DEF TypeInv, TypeOK, Snapshot
    <2>1. CASE BookingStep
      <3>1. ASSUME NEW a \in Booking, booking[a].status # "CONFIRMED", NEW r,
                   booking' = [booking EXCEPT ![a] = r]
            PROVE  booking'[b].status = "CONFIRMED"
        BY <2>0, <3>1
      <3>2. ASSUME NEW a \in Booking, AdvanceBooking(a) PROVE booking[a].status # "CONFIRMED"
        BY <2>0, <3>2 DEF AdvanceBooking, NextStatus, BookingRow
      <3>3. ASSUME NEW v \in Views, NEW a \in Booking, NEW i, DecideApproval(v, a, i)
            PROVE  booking[a].status = "APPROVAL"
        BY <2>0, <3>3 DEF DecideApproval, RejectBooking, ApproveStep, ConfirmBooking, Decidable
      <3>4. ASSUME NEW v \in Views, NEW a \in Booking, CancelBooking(v, a)
            PROVE  booking[a].status \in Open
        BY <2>0, <3>4 DEF CancelBooking
      <3>5. ASSUME NEW v \in Views, NEW a \in Booking, NEW i, DecideApproval(v, a, i)
            PROVE  booking'[b].status = "CONFIRMED"
        BY <3>1, <3>3, <3>5
           DEF DecideApproval, RejectBooking, ApproveStep, ConfirmBooking
      <3>6. ASSUME NEW a \in Booking, AdvanceBooking(a) PROVE booking'[b].status = "CONFIRMED"
        BY <3>1, <3>2, <3>6 DEF AdvanceBooking
      <3>7. ASSUME NEW a \in Booking, TransitionBooking(a) PROVE booking'[b].status = "CONFIRMED"
        BY <3>1, <3>7 DEF TransitionBooking
      <3>8. ASSUME NEW v \in Views, NEW a \in Booking, CancelBooking(v, a)
            PROVE  booking'[b].status = "CONFIRMED"
        BY <3>1, <3>4, <3>8 DEF CancelBooking, Open
      <3>9. ASSUME NEW a \in Booking, NEW actor \in User, RequestApproval(a, actor)
            PROVE  booking'[b].status = "CONFIRMED"
        BY <3>1, <3>9 DEF RequestApproval
      <3>10. ASSUME NEW v \in Views, NEW a \in Booking, NEW u \in Unit, NEW c \in Customer,
                    InitiateBooking(v, a, u, c)
             PROVE  booking'[b].status = "CONFIRMED"
        BY <3>1, <3>10 DEF InitiateBooking
      <3>11. ASSUME NEW v \in Views, NEW a \in Booking, NEW h \in Hold, CreateBooking(v, a, h)
             PROVE  booking'[b].status = "CONFIRMED"
        BY <3>1, <3>11 DEF CreateBooking
      <3> QED BY <2>1, <3>5, <3>6, <3>7, <3>8, <3>9, <3>10, <3>11 DEF BookingStep
    <2>2. CASE booking' = booking
      BY <2>2
    <2>3. CASE UnitStep
      BY <2>2, <2>3 DEF UnitStep, CreateUnit, DeleteUnit, TransitionUnit
    <2>4. CASE HoldStep
      BY <2>2, <2>4 DEF HoldStep, CreateHold, DecideHold, ApproveHold, RejectHold, ReleaseHold,
                        ExpireAndRefuse, FallDue, ExpireDueHolds
    <2> QED BY <2>1, <2>2, <2>3, <2>4 DEF Next, Begin, rows, vars
  <1> QED BY <1>1, <1>2, PTL DEF Spec, ConfirmedStays

-----------------------------------------------------------------------------
(***************************************************************************)
(* Transfers and cancellations.  A sale keeps a unit of its own, until it  *)
(* is cancelled: for any number of units, holds, bookings, transfers and   *)
(* cancellations, by requests that follow one another.                     *)
(***************************************************************************)
(* A request that exists says of what, and a transfer under way starts     *)
(* where its booking is, be it cancelled or not.                           *)
Grounded(t) ==
    /\ transfer[t].booking \in Booking
    /\ transfer[t].from \in Unit /\ transfer[t].to \in Unit
    /\ transfer[t].from # transfer[t].to
    /\ booking[transfer[t].booking].status # "NONE"
    /\ transfer[t].status \in Pending =>
          booking[transfer[t].booking].unit = transfer[t].from

Alone(t) ==
    transfer[t].status \in Pending =>
       \A s \in Transfer : transfer[s].booking = transfer[t].booking
                           /\ transfer[s].status \in Pending => s = t

Requests ==
    /\ transfer \in [Transfer -> TransferRow]
    /\ cancellation \in [Cancellation -> CancellationRow]
    /\ \A t \in Transfer : transfer[t].status # "NONE" => Grounded(t) /\ Alone(t)
    /\ \A c \in Cancellation : cancellation[c].status # "NONE" => cancellation[c].booking \in Booking

Keyed == \A b \in Booking : booking[b].status = "CONFIRMED" => booking[b].key

SalesInv == UnitInv /\ Keyed /\ Requests

-----------------------------------------------------------------------------
(* What the inventory's own steps do to bookings.                          *)

(* A booking stays with its unit, and is confirmed with the unit's key.    *)
Stays(b) ==
    /\ booking[b].status # "NONE" => /\ booking'[b].status # "NONE"
                                     /\ booking'[b].unit = booking[b].unit
    /\ booking'[b].status = "CONFIRMED" => booking'[b].key

LEMMA RowStays ==
    ASSUME booking \in [Booking -> BookingRow], Keyed, NEW a \in Booking, NEW r,
           booking' = [booking EXCEPT ![a] = r],
           booking[a].status # "NONE" => r.status # "NONE" /\ r.unit = booking[a].unit,
           r.status = "CONFIRMED" => r.key
    PROVE  \A b \in Booking : Stays(b)
  BY DEF Stays, Keyed

LEMMA BookingsStay ==
    ASSUME Session = {}, UnitInv, Keyed, [Next]_vars
    PROVE  \A b \in Booking : Stays(b)
  <1> DEFINE Goal == \A b \in Booking : Stays(b)
  <1>0. /\ booking \in [Booking -> BookingRow] /\ BookingKeys
        /\ \A v \in Views : v.booking = booking
    BY Keys DEF UnitInv, TypeInv, TypeOK, Views, Snapshot
  <1>1. CASE booking' = booking
    BY <1>0, <1>1 DEF Stays, Keyed
  <1>2. ASSUME NEW a \in Booking, AdvanceBooking(a) PROVE Goal
    <2>1. PICK s \in NextStatus[booking[a].status] : booking' = [booking EXCEPT ![a].status = s]
      BY <1>2 DEF AdvanceBooking
    <2>2. booking[a] \in BookingRow /\ booking[a].status \in BookingStatus
      BY <1>0 DEF BookingRow
    <2>3. s \notin {"NONE", "CONFIRMED"}
      BY <2>1, <2>2 DEF NextStatus
    <2> DEFINE r == [booking[a] EXCEPT !.status = s]
    <2>4. r.status = s /\ r.unit = booking[a].unit
      BY <2>2 DEF BookingRow
    <2>5. booking' = [booking EXCEPT ![a] = r]
      BY <2>1
    <2> HIDE DEF r
    <2> QED BY <1>0, <2>3, <2>4, <2>5, RowStays
  <1>3. ASSUME NEW a \in Booking, NEW s \in {"REJECTED", "CANCELLED"},
               booking' = [booking EXCEPT ![a] = Ended(booking[a], s)]
        PROVE  Goal
    <2>1. Ended(booking[a], s).status = s /\ Ended(booking[a], s).unit = booking[a].unit
      BY <1>0, EndedBooking DEF Ended, BookingRow
    <2> QED BY <1>0, <1>3, <2>1, RowStays
  <1>4. ASSUME NEW a \in Booking, NEW s \in {"APPROVAL", "CONFIRMED"},
               booking[a].status \in Open,
               booking' = [booking EXCEPT ![a].status = s]
        PROVE  Goal
    <2> DEFINE r == [booking[a] EXCEPT !.status = s]
    <2>1. r.status = s /\ r.unit = booking[a].unit /\ r.key = booking[a].key
      BY <1>0 DEF BookingRow
    <2>2. r.key
      BY <1>0, <1>4, <2>1 DEF BookingKeys
    <2>3. booking' = [booking EXCEPT ![a] = r]
      BY <1>4
    <2> HIDE DEF r
    <2> QED BY <1>0, <2>1, <2>2, <2>3, RowStays
  <1>5. ASSUME NEW a \in Booking, NEW u, NEW c, NEW flow, NEW s,
               s \in {"DRAFT", "PAYMENT_PENDING"}, booking[a].status = "NONE",
               booking' = [booking EXCEPT ![a] = NewBooking(u, c, flow, s)]
        PROVE  Goal
    BY <1>0, <1>5, RowStays DEF NewBooking
  <1>6. ASSUME NEW a \in Booking, TransitionBooking(a) PROVE Goal
    BY <1>3, <1>6 DEF TransitionBooking
  <1>7. ASSUME NEW a \in Booking, NEW actor \in User, RequestApproval(a, actor) PROVE Goal
    BY <1>4, <1>7 DEF RequestApproval, Open
  <1>8. ASSUME NEW v \in Views, NEW a \in Booking, NEW i, DecideApproval(v, a, i) PROVE Goal
    <2>1. v.booking[a].status = "APPROVAL"
      BY <1>8 DEF DecideApproval, RejectBooking, ApproveStep, ConfirmBooking, Decidable
    <2>2. booking[a].status \in Open
      BY <1>0, <2>1 DEF Open
    <2> QED BY <1>1, <1>3, <1>4, <1>8, <2>2
            DEF DecideApproval, RejectBooking, ApproveStep, ConfirmBooking
  <1>9. ASSUME NEW v \in Views, NEW a \in Booking, CancelBooking(v, a) PROVE Goal
    BY <1>3, <1>9 DEF CancelBooking
  <1>10. ASSUME NEW v \in Views, NEW a \in Booking, NEW u \in Unit, NEW c \in Customer,
                InitiateBooking(v, a, u, c)
         PROVE  Goal
    BY <1>5, <1>10 DEF InitiateBooking
  <1>11. ASSUME NEW v \in Views, NEW a \in Booking, NEW h \in Hold, CreateBooking(v, a, h)
         PROVE  Goal
    BY <1>5, <1>11 DEF CreateBooking
  <1>12. CASE BookingStep
    BY <1>2, <1>6, <1>7, <1>8, <1>9, <1>10, <1>11, <1>12 DEF BookingStep
  <1>13. ASSUME UnitStep \/ HoldStep PROVE booking' = booking
    BY <1>13 DEF UnitStep, CreateUnit, DeleteUnit, TransitionUnit, HoldStep, CreateHold,
       DecideHold, ApproveHold, RejectHold, ReleaseHold, ExpireAndRefuse, FallDue, ExpireDueHolds
  <1> QED BY <1>1, <1>12, <1>13 DEF Next, Begin, rows, vars

(* Requests that rest stay grounded, when the bookings stay.               *)
LEMMA RequestsRest ==
    ASSUME Requests, UNCHANGED <<transfer, cancellation>>, \A b \in Booking : Stays(b)
    PROVE  Requests' /\ Keyed'
  BY DEF Requests, Grounded, Alone, Stays, Keyed

LEMMA InventoryKeeps ==
    ASSUME Session = {}, SalesInv, [Next]_vars, UNCHANGED <<transfer, cancellation>>
    PROVE  SalesInv'
  BY UnitInvStep, BookingsStay, RequestsRest DEF SalesInv

-----------------------------------------------------------------------------
(* The requests before they are completed.                                 *)

LEMMA TransferRows ==
    ASSUME SalesInv, UNCHANGED vars, UNCHANGED cancellation, NEW t \in Transfer, NEW r \in TransferRow,
           transfer' = [transfer EXCEPT ![t] = r],
           r.booking \in Booking, r.from \in Unit, r.to \in Unit, r.from # r.to,
           booking[r.booking].status # "NONE",
           r.status \in Pending =>
              /\ booking[r.booking].unit = r.from
              /\ \A s \in Transfer : transfer[s].booking = r.booking
                                     /\ transfer[s].status \in Pending => s = t
    PROVE  SalesInv'
  <1>1. UnitInv' /\ Keyed'
    BY UnitInvStep DEF SalesInv, Keyed, vars, rows
  <1>2. \A s \in Transfer : transfer'[s] = IF s = t THEN r ELSE transfer[s]
    BY DEF SalesInv, Requests
  <1>3. booking' = booking /\ cancellation' = cancellation
    BY DEF vars, rows
  <1>4. transfer' \in [Transfer -> TransferRow]
    BY DEF SalesInv, Requests
  <1>5. ASSUME NEW s \in Transfer, transfer'[s].status # "NONE" PROVE Grounded(s)' /\ Alone(s)'
    <2>1. Grounded(s)'
      BY <1>2, <1>3, <1>5 DEF SalesInv, Requests, Grounded
    <2>2. Alone(s)'
      BY <1>2, <1>5 DEF SalesInv, Requests, Alone
    <2> QED BY <2>1, <2>2
  <1> QED BY <1>1, <1>3, <1>4, <1>5 DEF SalesInv, Requests

LEMMA TransferKeeps ==
    ASSUME SalesInv, NEW t \in Transfer, NEW actor \in User,
           \/ \E b \in Booking, u \in Unit : RequestTransfer(t, b, u, actor)
           \/ ReviewTransfer(t, actor)
           \/ \E verdict \in Verdicts : DecideTransfer(t, actor, verdict)
    PROVE  SalesInv'
  <1>0. /\ transfer \in [Transfer -> TransferRow] /\ transfer[t] \in TransferRow
        /\ booking \in [Booking -> BookingRow] /\ Placed
    BY DEF SalesInv, Requests, UnitInv, TypeInv, TypeOK
  <1>1. ASSUME NEW b \in Booking, NEW u \in Unit, RequestTransfer(t, b, u, actor) PROVE SalesInv'
    <2> DEFINE r == [booking |-> b, from |-> booking[b].unit, to |-> u, hands |-> {actor},
                     status |-> "REQUESTED"]
    <2>1. booking[b].unit \in Unit /\ booking[b].status # "NONE"
      BY <1>0, <1>1 DEF RequestTransfer, Placed
    <2>2. /\ r \in TransferRow /\ r.booking = b /\ r.from = booking[b].unit /\ r.to = u
      BY <2>1 DEF TransferRow, WorkflowStatus
    <2>3. /\ transfer' = [transfer EXCEPT ![t] = r] /\ UNCHANGED vars /\ UNCHANGED cancellation
          /\ \A s \in Transfer : transfer[s].booking = b => transfer[s].status \notin Pending
          /\ booking[b].unit # u
      BY <1>1 DEF RequestTransfer
    <2> HIDE DEF r
    <2> QED BY <2>1, <2>2, <2>3, TransferRows
  <1>2. ASSUME transfer[t].status \in Pending, NEW s \in WorkflowStatus, NEW H \in SUBSET User,
               transfer' = [transfer EXCEPT ![t] = [transfer[t] EXCEPT !.status = s, !.hands = H]],
               UNCHANGED vars, UNCHANGED cancellation
        PROVE  SalesInv'
    <2> DEFINE r == [transfer[t] EXCEPT !.status = s, !.hands = H]
    <2>1. /\ r \in TransferRow /\ r.booking = transfer[t].booking
          /\ r.from = transfer[t].from /\ r.to = transfer[t].to
      BY <1>0 DEF TransferRow
    <2>2. Grounded(t) /\ Alone(t)
      BY <1>2 DEF SalesInv, Requests, Pending
    <2>3. transfer' = [transfer EXCEPT ![t] = r]
      BY <1>2
    <2> HIDE DEF r
    <2>4. /\ r.booking \in Booking /\ r.from \in Unit /\ r.to \in Unit /\ r.from # r.to
          /\ booking[r.booking].status # "NONE" /\ booking[r.booking].unit = r.from
      BY <1>2, <2>1, <2>2 DEF Grounded
    <2>5. \A q \in Transfer : transfer[q].booking = r.booking
                              /\ transfer[q].status \in Pending => q = t
      BY <1>2, <2>1, <2>2 DEF Alone
    <2> QED BY <1>2, <2>1, <2>3, <2>4, <2>5, TransferRows
  <1>3. CASE ReviewTransfer(t, actor)
    <2>1. transfer[t].hands \cup {actor} \in SUBSET User
      BY <1>0 DEF TransferRow
    <2>2. transfer' = [transfer EXCEPT ![t] = [transfer[t] EXCEPT
              !.status = "UNDER_REVIEW", !.hands = transfer[t].hands \cup {actor}]]
      BY <1>3 DEF ReviewTransfer, Reviewed
    <2> QED BY <1>2, <1>3, <2>1, <2>2 DEF ReviewTransfer, WorkflowStatus, Pending
  <1>4. ASSUME NEW verdict \in Verdicts, DecideTransfer(t, actor, verdict) PROVE SalesInv'
    <2>1. transfer[t].hands \in SUBSET User
          /\ [transfer[t] EXCEPT !.status = verdict, !.hands = transfer[t].hands]
             = [transfer[t] EXCEPT !.status = verdict]
      BY <1>0 DEF TransferRow
    <2> QED BY <1>2, <1>4, <2>1 DEF DecideTransfer, MayDecide, WorkflowStatus, Pending, Verdicts
  <1> QED BY <1>1, <1>3, <1>4

LEMMA CancellationKeeps ==
    ASSUME SalesInv, NEW c \in Cancellation, NEW actor \in User,
           \/ \E b \in Booking : RequestCancellation(c, b, actor)
           \/ ReviewCancellation(c, actor)
           \/ \E verdict \in Verdicts : DecideCancellation(c, actor, verdict)
    PROVE  SalesInv'
  <1>0. cancellation \in [Cancellation -> CancellationRow] /\ cancellation[c] \in CancellationRow
    BY DEF SalesInv, Requests
  <1>1. PICK r \in CancellationRow : /\ cancellation' = [cancellation EXCEPT ![c] = r]
                                     /\ r.booking \in Booking
    <2>1. ASSUME NEW b \in Booking, RequestCancellation(c, b, actor)
          PROVE  \E r \in CancellationRow : /\ cancellation' = [cancellation EXCEPT ![c] = r]
                                            /\ r.booking \in Booking
      <3>1. [booking |-> b, hands |-> {actor}, status |-> "REQUESTED"] \in CancellationRow
        BY DEF CancellationRow, WorkflowStatus
      <3>2. [booking |-> b, hands |-> {actor}, status |-> "REQUESTED"].booking \in Booking
        OBVIOUS
      <3> QED BY <2>1, <3>1, <3>2 DEF RequestCancellation
    <2>2. ASSUME ReviewCancellation(c, actor)
          PROVE  \E r \in CancellationRow : /\ cancellation' = [cancellation EXCEPT ![c] = r]
                                            /\ r.booking \in Booking
      <3>1. /\ Reviewed(cancellation[c], actor) \in CancellationRow
            /\ Reviewed(cancellation[c], actor).booking = cancellation[c].booking
        BY <1>0 DEF Reviewed, CancellationRow, WorkflowStatus
      <3>2. cancellation[c].booking \in Booking
        BY <2>2 DEF ReviewCancellation, SalesInv, Requests
      <3> QED BY <2>2, <3>1, <3>2 DEF ReviewCancellation
    <2>3. ASSUME NEW verdict \in Verdicts, DecideCancellation(c, actor, verdict)
          PROVE  \E r \in CancellationRow : /\ cancellation' = [cancellation EXCEPT ![c] = r]
                                            /\ r.booking \in Booking
      <3>1. /\ [cancellation[c] EXCEPT !.status = verdict] \in CancellationRow
            /\ [cancellation[c] EXCEPT !.status = verdict].booking = cancellation[c].booking
        BY <1>0 DEF CancellationRow, WorkflowStatus, Verdicts
      <3>2. cancellation[c].booking \in Booking
        BY <2>3 DEF DecideCancellation, MayDecide, SalesInv, Requests
      <3> QED BY <2>3, <3>1, <3>2 DEF DecideCancellation
    <2> QED BY <2>1, <2>2, <2>3
  <1>2. UNCHANGED vars /\ transfer' = transfer
    BY DEF RequestCancellation, ReviewCancellation, DecideCancellation
  <1>3. UnitInv' /\ Keyed'
    BY <1>2, UnitInvStep DEF SalesInv, Keyed, vars, rows
  <1>4. booking' = booking
    BY <1>2 DEF vars, rows
  <1> QED BY <1>0, <1>1, <1>2, <1>3, <1>4 DEF SalesInv, Requests, Grounded, Alone

-----------------------------------------------------------------------------
(* Completion.                                                             *)

LEMMA CompleteTransferKeeps ==
    ASSUME Session = {}, SalesInv, NEW t \in Transfer, CompleteTransfer(t)
    PROVE  SalesInv'
  <1> DEFINE b == transfer[t].booking
  <1> DEFINE from == transfer[t].from
  <1> DEFINE to == transfer[t].to
  <1>1. /\ unit \in [Unit -> UnitStatus] /\ hold \in [Hold -> HoldRow]
        /\ booking \in [Booking -> BookingRow] /\ Placed /\ TypeOK
        /\ HoldKeys /\ BookingKeys /\ Keyed /\ Requests
    BY Keys DEF SalesInv, UnitInv, TypeInv, TypeOK
  <1>2. b \in Booking /\ from \in Unit /\ to \in Unit /\ from # to
    BY DEF CompleteTransfer, SalesInv, Requests, Grounded
  <1>3. /\ booking[b].status = "CONFIRMED" /\ booking[b].unit = from /\ booking[b].key
        /\ unit[to] = "AVAILABLE"
        /\ \A h \in Hold : ~KeyedIn(hold, h, to)
        /\ \A a \in Booking : ~KeyedIn(booking, a, to)
    BY <1>1 DEF CompleteTransfer, Transferable, Available, HoldsKeyedTo, BookingsKeyedTo, KeyedIn,
                HoldKeys
  <1>4. /\ unit' = [unit EXCEPT ![from] = "CANCELLED_RELEASED", ![to] = "BOOKED"]
        /\ booking' = [booking EXCEPT ![b] = [booking[b] EXCEPT !.unit = to]]
        /\ transfer' = [transfer EXCEPT ![t] = [transfer[t] EXCEPT !.status = "COMPLETED"]]
        /\ UNCHANGED <<hold, approval, view, trespassed, cancellation>>
    BY DEF CompleteTransfer
  <1>5. \A a \in Booking :
           /\ booking'[a].status = booking[a].status /\ booking'[a].key = booking[a].key
           /\ booking'[a].unit = IF a = b THEN to ELSE booking[a].unit
           /\ booking'[a] \in BookingRow
    BY <1>1, <1>2, <1>4 DEF BookingRow
  <1>6. unit' \in [Unit -> UnitStatus] /\ \A u \in Unit :
           unit'[u] = IF u = to THEN "BOOKED" ELSE IF u = from THEN "CANCELLED_RELEASED" ELSE unit[u]
    BY <1>1, <1>2, <1>4 DEF UnitStatus
  <1>7. TypeInv'
    <2>1. booking' \in [Booking -> BookingRow]
      BY <1>1, <1>4, <1>5
    <2>2. TypeOK'
      BY <1>1, <1>4, <1>6, <2>1 DEF TypeOK
    <2>3. Placed'
      BY <1>1, <1>2, <1>4, <1>5 DEF Placed
    <2> QED BY <2>2, <2>3 DEF TypeInv
  <1>8. \A a \in Booking, u \in Unit :
           KeyedIn(booking', a, u) <=> IF a = b THEN u = to ELSE KeyedIn(booking, a, u)
    BY <1>3, <1>5 DEF KeyedIn
  <1>9. HoldKeys' /\ BookingKeys'
    <2>1. HoldKeys'
      BY <1>1, <1>4 DEF HoldKeys
    <2>2. Live(booking') /\ \A a \in Booking : booking'[a].status \in Open => booking'[a].key
      BY <1>1, <1>5 DEF BookingKeys, Live
    <2>3. ASSUME NEW a \in Booking, NEW d \in Booking, booking'[a].key, booking'[d].key,
                 booking'[a].unit = booking'[d].unit
          PROVE  a = d
      BY <1>1, <1>3, <1>5, <2>3 DEF BookingKeys, KeyedIn
    <2> QED BY <2>1, <2>2, <2>3 DEF BookingKeys
  <1>10. ASSUME NEW u \in Unit, u \notin trespassed' PROVE UnitAgrees(u)'
    <2>1. UnitAgrees(u) /\ AgreesIn(unit, hold, booking, u)
      BY <1>4, <1>10, Agrees DEF SalesInv, UnitInv, ClaimsAgree
    <2>2. CASE u = to
      <3>1. KeyedIn(booking', b, u) /\ \A a \in Booking : KeyedIn(booking', a, u) => a = b
        BY <1>2, <1>3, <1>8, <2>2
      <3>2. \A h \in Hold : ~KeyedIn(hold', h, u)
        BY <1>3, <1>4, <2>2
      <3>3. unit'[u] \in Sold /\ booking'[b].status = "CONFIRMED"
        BY <1>2, <1>3, <1>5, <1>6, <2>2 DEF Sold
      <3>4. AgreesIn(unit', hold', booking', u)
        BY <1>2, <3>1, <3>2, <3>3, BookedAgrees
      <3> QED BY <3>4, Agrees
    <2>3. CASE u = from
      <3>1. KeyedIn(booking, b, u) /\ \A a \in Booking : KeyedIn(booking, a, u) => a = b
        BY <1>1, <1>2, <1>3, <2>3 DEF KeyedIn, BookingKeys
      <3>2. \A h \in Hold : ~KeyedIn(hold, h, u)
        BY <1>2, <2>1, <3>1 DEF AgreesIn
      <3>3. Unclaimed(hold', booking', u)
        BY <1>2, <1>4, <1>8, <2>3, <3>1, <3>2 DEF Unclaimed
      <3>4. unit'[u] \in Idle /\ Live(booking')
        BY <1>2, <1>6, <1>9, <2>3 DEF Idle, BookingKeys
      <3>5. AgreesIn(unit', hold', booking', u)
        BY <3>3, <3>4, IdleAgrees
      <3> QED BY <3>5, Agrees
    <2>4. CASE u # to /\ u # from
      <3>1. unit'[u] = unit[u]
        BY <1>6, <2>4
      <3>2. \A a \in Booking : KeyedIn(booking', a, u) <=> KeyedIn(booking, a, u)
        BY <1>3, <1>8, <2>4 DEF KeyedIn
      <3>3. \A h \in Hold : KeyedIn(hold', h, u) <=> KeyedIn(hold, h, u)
        BY <1>4
      <3> QED BY <1>4, <1>5, <2>1, <3>1, <3>2, <3>3, Frame
    <2> QED BY <2>2, <2>3, <2>4
  <1>11. UnitInv' /\ Keyed'
    BY <1>1, <1>5, <1>7, <1>9, <1>10, Keys DEF UnitInv, ClaimsAgree, Keyed
  <1>12. Requests'
    <2>1. \A s \in Transfer : /\ transfer'[s].booking = transfer[s].booking
                              /\ transfer'[s].from = transfer[s].from
                              /\ transfer'[s].to = transfer[s].to
                              /\ transfer'[s].status = IF s = t THEN "COMPLETED" ELSE transfer[s].status
                              /\ transfer'[s] \in TransferRow
      BY <1>1, <1>4 DEF Requests, TransferRow, WorkflowStatus
    <2>2. transfer' \in [Transfer -> TransferRow]
      BY <1>1, <1>4, <2>1 DEF Requests
    <2>3. Alone(t) /\ transfer[t].status \in Pending
      BY <1>1 DEF CompleteTransfer, Requests, Pending
    <2>4. ASSUME NEW s \in Transfer, transfer'[s].status # "NONE"
          PROVE  Grounded(s)' /\ Alone(s)'
      <3>1. Grounded(s) /\ Alone(s)
        BY <1>1, <2>1, <2>3, <2>4 DEF Requests, Pending
      <3>2. transfer'[s].status \in Pending =>
               transfer[s].status \in Pending /\ transfer[s].booking # b
        BY <2>1, <2>3 DEF Alone, Pending
      <3>3. Alone(s)'
        BY <2>1, <3>1, <3>2 DEF Alone, Pending
      <3>4. Grounded(s)'
        BY <1>5, <2>1, <3>1, <3>2 DEF Grounded
      <3> QED BY <3>3, <3>4
    <2> QED BY <1>1, <1>4, <2>2, <2>4 DEF Requests
  <1> QED BY <1>11, <1>12 DEF SalesInv

LEMMA CompleteCancellationKeeps ==
    ASSUME Session = {}, SalesInv, NEW c \in Cancellation, CompleteCancellation(c)
    PROVE  SalesInv'
  <1> DEFINE b == cancellation[c].booking
  <1> DEFINE u == booking[b].unit
  <1> DEFINE r == Ended(booking[b], "CANCELLED")
  <1>1. /\ unit \in [Unit -> UnitStatus] /\ hold \in [Hold -> HoldRow]
        /\ booking \in [Booking -> BookingRow] /\ Placed /\ TypeOK /\ TypeInv /\ UnitInv
        /\ Keyed /\ Requests
    BY DEF SalesInv, UnitInv, TypeInv, TypeOK
  <1>2. b \in Booking
    BY DEF CompleteCancellation, SalesInv, Requests
  <1>3. booking[b].status = "CONFIRMED" /\ booking[b].key /\ u \in Unit
    BY <1>1, <1>2 DEF CompleteCancellation, Placed
  <1>4. /\ unit' = [unit EXCEPT ![u] = "CANCELLED_RELEASED"]
        /\ booking' = [booking EXCEPT ![b] = r]
        /\ cancellation' = [cancellation EXCEPT ![c].status = "COMPLETED"]
        /\ UNCHANGED <<hold, approval, view, trespassed, transfer>>
    BY DEF CompleteCancellation
  <1>5. r \in BookingRow /\ r.unit = u /\ ~r.key /\ r.status = "CANCELLED"
    BY <1>1, <1>2 DEF Ended, BookingRow, BookingStatus, Final
  <1>6. trespassed' = Trespass(b, u)
    BY <1>3, <1>4 DEF Trespass
  <1> HIDE DEF r
  <1>7. KeysAgree' /\ ClaimsAgree'
    BY <1>1, <1>2, <1>3, <1>4, <1>5, <1>6, LeavingUnit
  <1>8. TypeInv'
    <2>1. unit' \in [Unit -> UnitStatus]
      BY <1>1, <1>4 DEF UnitStatus
    <2>2. approval' \in [Booking -> Seq(ApprovalRow)] /\ trespassed' \in SUBSET Unit
          /\ hold' \in [Hold -> HoldRow]
      BY <1>1, <1>4 DEF TypeOK
    <2>3. \A h \in Hold : hold'[h].status # "NONE" =>
             hold'[h].unit \in Unit /\ hold'[h].type \in HoldType
      BY <1>1, <1>4 DEF Placed
    <2> QED BY <1>1, <1>2, <1>3, <1>4, <1>5, <2>1, <2>2, <2>3, BookingChange
  <1>9. \A a \in Booking : Stays(a)
    BY <1>1, <1>2, <1>4, <1>5, RowStays
  <1>10. Keyed'
    BY <1>9 DEF Keyed, Stays
  <1>11. Requests'
    <2>1. cancellation' \in [Cancellation -> CancellationRow]
          /\ \A d \in Cancellation : cancellation'[d].booking = cancellation[d].booking
      BY <1>1, <1>4 DEF Requests, CancellationRow, WorkflowStatus
    <2>2. \A d \in Cancellation : cancellation'[d].status # "NONE" => cancellation'[d].booking \in Booking
      BY <1>1, <1>2, <1>4, <2>1 DEF Requests, CancellationRow
    <2>3. ASSUME NEW t \in Transfer, transfer'[t].status # "NONE" PROVE Grounded(t)' /\ Alone(t)'
      BY <1>1, <1>4, <1>9, <2>3 DEF Requests, Grounded, Alone, Stays
    <2> QED BY <1>1, <1>4, <2>1, <2>2, <2>3 DEF Requests
  <1> QED BY <1>7, <1>8, <1>10, <1>11 DEF SalesInv, UnitInv

-----------------------------------------------------------------------------
LEMMA SalesInvInit == SalesInit => SalesInv
  <1> SUFFICES ASSUME SalesInit PROVE SalesInv
    OBVIOUS
  <1>1. UnitInv
    BY UnitInvInit DEF SalesInit
  <1>2. Keyed
    BY DEF SalesInit, Init, NoBooking, Keyed
  <1>3. transfer \in [Transfer -> TransferRow] /\ \A t \in Transfer : transfer[t].status = "NONE"
    BY DEF SalesInit, TransferRow, WorkflowStatus
  <1>4. /\ cancellation \in [Cancellation -> CancellationRow]
        /\ \A c \in Cancellation : cancellation[c].status = "NONE"
    BY DEF SalesInit, CancellationRow, WorkflowStatus
  <1> QED BY <1>1, <1>2, <1>3, <1>4 DEF SalesInv, Requests

LEMMA SalesInvStep ==
    ASSUME Session = {}, SalesInv, [SalesNext]_<<vars, transfer, cancellation>>
    PROVE  SalesInv'
  <1>1. CASE InventoryStep
    BY <1>1, InventoryKeeps DEF InventoryStep
  <1>2. CASE TransferStep
    BY <1>2, TransferKeeps, CompleteTransferKeeps DEF TransferStep
  <1>3. CASE CancellationStep
    BY <1>3, CancellationKeeps, CompleteCancellationKeeps DEF CancellationStep
  <1>4. CASE UNCHANGED <<vars, transfer, cancellation>>
    BY <1>4, InventoryKeeps
  <1> QED BY <1>1, <1>2, <1>3, <1>4 DEF SalesNext

LEMMA SalesTyped == SalesInv => SalesTypeOK
  BY DEF SalesInv, UnitInv, TypeInv, Requests, Grounded, SalesTypeOK

LEMMA SalesInvShows == SalesInv => SalesKept
  BY DEF SalesInv, UnitInv, Keyed, Requests, Grounded, SalesKept, Pending

(* A sale has a unit of its own, wherever transfers took it, until it is   *)
(* cancelled; a transfer starts where its sale is; and every unit, those   *)
(* that sales left included, agrees with its claimant (post_sales.py's     *)
(* complete_transfer and complete_cancellation).                           *)
THEOREM SalesCorrect == ASSUME Session = {} PROVE SalesSpec => []SalesKept
  BY SalesInvInit, SalesInvStep, SalesInvShows, PTL DEF SalesSpec
=============================================================================
