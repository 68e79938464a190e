------------------------------- MODULE Rentals -------------------------------
(***************************************************************************)
(* services/rentals.py: the leases of rental properties from their draft   *)
(* over moving in, renewals and notice to their end, the schedule of rent, *)
(* and the invoices and payments for it.                                   *)
(*                                                                         *)
(* An action is one request, at its commit.  The lease, and each row that  *)
(* is written, is locked and current; sums, counts and searches are read   *)
(* plainly, from the read view v of the transaction.  Who acts is left     *)
(* out: whoever asks, somebody else may decide.                            *)
(*                                                                         *)
(* Every month has the same rent, Rent, without tax.  Maintenance jobs and *)
(* deposits decide nothing here.                                           *)
(***************************************************************************)
EXTENDS Integers, Sequences, FiniteSets, SequencesExt

CONSTANTS
    Property,      \* identities for rental properties
    Tenant,        \* identities for tenants
    Lease,         \* identities for leases
    Document,      \* identities for lease documents
    Payment,       \* idempotency keys of rent payments
    Renewal,       \* identities for renewals
    Move,          \* identities for moves
    Calendar,      \* the days before each month, and at last before the end of them all
    Terms,         \* the start, end and due day a lease may be drawn up for
    EndDates,      \* ends a renewal may propose
    Rent,          \* of a month
    None           \* SQL NULL

PropertyStatus == {"AVAILABLE", "RESERVED", "OCCUPIED", "MAINTENANCE", "INACTIVE"}
LeaseStatus == {"DRAFT", "PENDING_SIGNATURE", "MOVE_IN_PENDING", "ACTIVE", "NOTICE_GIVEN",
                "MOVE_OUT_PENDING", "TERMINATED"}
DocumentStatus == {"PENDING", "UPLOADED", "VERIFIED", "REJECTED"}
ScheduleStatus == {"SCHEDULED", "INVOICED", "PARTIALLY_PAID", "PAID", "OVERDUE"}
InvoiceStatus == {"NONE", "ISSUED", "PARTIALLY_PAID", "PAID", "OVERDUE"}
PaymentStatus == {"NONE", "PENDING", "COMPLETED", "FAILED"}
WorkflowStatus == {"NONE", "REQUESTED", "APPROVED", "REJECTED", "COMPLETED"}

-----------------------------------------------------------------------------
(* Dates are numbers of days, the first of them the first of a month.      *)

Least(a, b) == IF a <= b THEN a ELSE b

Date(month, day) == Calendar[month] + day
MonthLength(month) == Calendar[month + 1] - Calendar[month]
MonthOf(date) ==
    CHOOSE month \in 1..(Len(Calendar) - 1) :
        Calendar[month] < date /\ date <= Calendar[month + 1]

(* The same day some months later, or the last of its month.               *)
AddMonths(date, months) ==
    LET month == MonthOf(date) + months
    IN  Date(month, Least(date - Calendar[MonthOf(date)], MonthLength(month)))

(* In the month a period starts in, or the next one, but in the period.    *)
DueDate(from, to, due_day) ==
    LET month == MonthOf(from)
        due == Date(IF Date(month, due_day) < from THEN month + 1 ELSE month, due_day)
    IN  Least(due, to)

Scheduled(from, to, due_day) ==
    [from |-> from, to |-> to, due |-> DueDate(from, to, due_day), status |-> "SCHEDULED",
     invoice |-> "NONE", late |-> FALSE, paid |-> 0]

(* Periods count from the first start, so that one of the 31st is not      *)
(* drawn to the 28th by a February.                                        *)
Periods(start, end, due_day) ==
    LET PeriodEnd(i) == Least(AddMonths(start, i) - 1, end)
        count == IF start > end THEN 0
                 ELSE CHOOSE n \in 1..Len(Calendar) :
                          PeriodEnd(n) = end /\ \A k \in 1..(n - 1) : PeriodEnd(k) < end
    IN  [i \in 1..count |->
            Scheduled(IF i = 1 THEN start ELSE PeriodEnd(i - 1) + 1, PeriodEnd(i), due_day)]

-----------------------------------------------------------------------------
VARIABLES
    property,  \* rental_properties.status
    tenant,    \* tenants.status is ACTIVE
    lease,     \* leases; holds says that active_property_key is set
    document,  \* lease_documents
    schedule,  \* each lease's rent_schedule_items, with the rental_invoice of each
    payment,   \* rent_payments
    renewal,   \* lease_renewals
    move,      \* lease_moves
    old        \* read views of requests that began some time ago

money == <<schedule, payment>>
workflow == <<renewal, move>>
vars == <<property, tenant, lease, document, money, workflow, old>>

Snapshot == [tenant |-> tenant, document |-> document, schedule |-> schedule,
             payment |-> payment, renewal |-> renewal, move |-> move]
Views == {Snapshot} \cup old

NoLease == [status |-> "NONE", property |-> None, holds |-> FALSE, start |-> 0, end |-> 0,
            due_day |-> 0]
NoDocument == [lease |-> None, status |-> "NONE"]
NoPayment == [lease |-> None, item |-> 0, amount |-> 0, status |-> "NONE"]
NoRenewal == [lease |-> None, end |-> 0, status |-> "NONE"]
NoMove == [lease |-> None, type |-> "NONE", status |-> "NONE"]

Drawn == {l \in Lease : lease[l].status # "NONE"}
Living == {"MOVE_IN_PENDING", "ACTIVE", "NOTICE_GIVEN", "MOVE_OUT_PENDING"}

TypeOK ==
    /\ property \in [Property -> PropertyStatus]
    /\ tenant \in [Tenant -> BOOLEAN]
    /\ \A l \in Drawn : lease[l].status \in LeaseStatus /\ lease[l].property \in Property
    /\ \A d \in Document : document[d] # NoDocument =>
          document[d].lease \in Drawn /\ document[d].status \in DocumentStatus
    /\ \A l \in Lease : \A i \in DOMAIN schedule[l] : LET item == schedule[l][i] IN
          /\ item.status \in ScheduleStatus
          /\ item.invoice \in InvoiceStatus
          /\ item.invoice = "NONE" <=> item.status = "SCHEDULED"
    /\ \A k \in Payment : payment[k] # NoPayment =>
          /\ payment[k].item \in DOMAIN schedule[payment[k].lease]
          /\ payment[k].status \in PaymentStatus
    /\ \A r \in Renewal : renewal[r] # NoRenewal => renewal[r].lease \in Drawn
    /\ \A r \in Renewal : renewal[r].status \in WorkflowStatus \ {"APPROVED"}
    /\ \A m \in Move : move[m] # NoMove => move[m].lease \in Drawn
    /\ \A m \in Move : move[m].status \in WorkflowStatus

Init ==
    /\ property = [p \in Property |-> "AVAILABLE"]
    /\ tenant = [t \in Tenant |-> TRUE]
    /\ lease = [l \in Lease |-> NoLease]
    /\ document = [d \in Document |-> NoDocument]
    /\ schedule = [l \in Lease |-> <<>>]
    /\ payment = [k \in Payment |-> NoPayment]
    /\ renewal = [r \in Renewal |-> NoRenewal]
    /\ move = [m \in Move |-> NoMove]
    /\ old = {}

(* A request begins, and lets others go first.                             *)
Begin ==
    /\ old' = {Snapshot}
    /\ UNCHANGED <<property, tenant, lease, document, money, workflow>>

-----------------------------------------------------------------------------
(* Properties, tenants, leases and their documents.                        *)

(* mutant: the status of an occupied property can be set by hand           *)
UpdateProperty_Occupied(p, status) ==
    /\ property' = [property EXCEPT ![p] = status]
    /\ UNCHANGED <<tenant, lease, document, money, workflow, old>>

(* By hand a property is given any status, a reserved one too; what is     *)
(* called occupied stays so until a tenant moves out.                      *)
UpdateProperty(p, status) ==
    /\ property[p] = "OCCUPIED" => status = "OCCUPIED"
    /\ property' = [property EXCEPT ![p] = status]
    /\ UNCHANGED <<tenant, lease, document, money, workflow, old>>

UpdateTenant(t, active) ==
    /\ tenant' = [tenant EXCEPT ![t] = active]
    /\ UNCHANGED <<property, lease, document, money, workflow, old>>

CreateLease(v, l, t, p, d, terms) ==
    /\ lease[l].status = "NONE"
    /\ document[d] = NoDocument
    /\ v.tenant[t]
    /\ property[p] = "AVAILABLE"
    /\ lease' = [lease EXCEPT ![l] = [status |-> "DRAFT", property |-> p, holds |-> FALSE,
                                      start |-> terms.start, end |-> terms.end,
                                      due_day |-> terms.due_day]]
    /\ document' = [document EXCEPT ![d] = [lease |-> l, status |-> "PENDING"]]
    /\ UNCHANGED <<property, tenant, money, workflow, old>>

(* Required documents only: the others are not looked at.                  *)
SetDocument(d, row) ==
    /\ document' = [document EXCEPT ![d] = row]
    /\ UNCHANGED <<property, tenant, lease, money, workflow, old>>

AddDocument(d, l) ==
    /\ document[d] = NoDocument
    /\ l \in Drawn
    /\ SetDocument(d, [lease |-> l, status |-> "PENDING"])

(* A document is uploaded again whenever its lease's parties like.         *)
UploadDocument(d) ==
    /\ document[d] # NoDocument
    /\ SetDocument(d, [document[d] EXCEPT !.status = "UPLOADED"])

DecideDocument(d, verdict) ==
    /\ document[d].status = "UPLOADED"
    /\ SetDocument(d, [document[d] EXCEPT !.status = verdict])

IssueLease(l) ==
    /\ lease[l].status = "DRAFT"
    /\ lease' = [lease EXCEPT ![l].status = "PENDING_SIGNATURE"]
    /\ UNCHANGED <<property, tenant, document, money, workflow, old>>

(* uq_leases_active_rental_property keeps two leases from one property.    *)
SignLease(v, l) ==
    /\ lease[l].status = "PENDING_SIGNATURE"
    /\ \A d \in Document : v.document[d].lease = l => v.document[d].status = "VERIFIED"
    /\ property[lease[l].property] = "AVAILABLE"
    /\ ~ \E m \in Lease : lease[m].holds /\ lease[m].property = lease[l].property
    /\ lease' = [lease EXCEPT ![l].status = "MOVE_IN_PENDING", ![l].holds = TRUE]
    /\ property' = [property EXCEPT ![lease[l].property] = "RESERVED"]
    /\ schedule' = [schedule EXCEPT ![l] = Periods(lease[l].start, lease[l].end, lease[l].due_day)]
    /\ UNCHANGED <<tenant, document, payment, workflow, old>>

-----------------------------------------------------------------------------
(* Invoices and payments.                                                  *)

Invoiced(l, i) == schedule[l][i].invoice # "NONE"

(* uq_rental_invoices_tenant_lease_period keeps it to one for a period;    *)
(* whatever became of the lease.                                           *)
IssueInvoice(l, i) ==
    /\ schedule[l][i].status \in {"SCHEDULED", "OVERDUE"}
    /\ ~Invoiced(l, i)
    /\ schedule' = [schedule EXCEPT ![l][i].status = "INVOICED", ![l][i].invoice = "ISSUED"]
    /\ UNCHANGED <<property, tenant, lease, document, payment, workflow, old>>

Committed(payments, l, i) ==
    LET counted == {k \in Payment : /\ payments[k].lease = l /\ payments[k].item = i
                                    /\ payments[k].status \in {"PENDING", "COMPLETED"}}
    IN  SumFunctionOnSet([k \in Payment |-> payments[k].amount], counted)

(* A key that was used already leads to nothing.                           *)
SubmitPayment(v, k, l, i, amount) ==
    /\ Invoiced(l, i) /\ schedule[l][i].invoice # "PAID"
    /\ payment[k] = NoPayment
    /\ Committed(v.payment, l, i) + amount <= Rent
    /\ payment' = [payment EXCEPT ![k] = [lease |-> l, item |-> i, amount |-> amount,
                                          status |-> "PENDING"]]
    /\ UNCHANGED <<property, tenant, lease, document, schedule, workflow, old>>

FailPayment(k) ==
    /\ payment[k].status = "PENDING"
    /\ payment' = [payment EXCEPT ![k].status = "FAILED"]
    /\ UNCHANGED <<property, tenant, lease, document, schedule, workflow, old>>

CompletePayment(k) ==
    LET l == payment[k].lease
        i == payment[k].item
        paid == schedule[l][i].paid + payment[k].amount
        status == IF paid >= Rent THEN "PAID" ELSE "PARTIALLY_PAID"
    IN  /\ payment[k].status = "PENDING"
        /\ paid <= Rent
        /\ payment' = [payment EXCEPT ![k].status = "COMPLETED"]
        /\ schedule' = [schedule EXCEPT ![l][i].paid = paid, ![l][i].invoice = status,
                                        ![l][i].status = status]
        /\ UNCHANGED <<property, tenant, lease, document, workflow, old>>

FallsDue(l, i) ==
    /\ Invoiced(l, i) /\ ~schedule[l][i].late
    /\ schedule' = [schedule EXCEPT ![l][i].late = TRUE]
    /\ UNCHANGED <<property, tenant, lease, document, payment, workflow, old>>

(* expire_overdue, in a transaction of its own after every change of a     *)
(* lease and before every listing, and without a lock.                     *)
Overdue(v, l) == {i \in DOMAIN v.schedule[l] :
    /\ v.schedule[l][i].late
    /\ v.schedule[l][i].invoice \in {"ISSUED", "PARTIALLY_PAID"}
    /\ v.schedule[l][i].paid < Rent}

ExpireOverdue(v) ==
    /\ \E l \in Lease : Overdue(v, l) # {}
    /\ schedule' = [l \in Lease |-> [i \in DOMAIN schedule[l] |->
          IF i \in Overdue(v, l) THEN [schedule[l][i] EXCEPT !.invoice = "OVERDUE", !.status = "OVERDUE"]
                                 ELSE schedule[l][i]]]
    /\ UNCHANGED <<property, tenant, lease, document, payment, workflow, old>>

-----------------------------------------------------------------------------
(* Renewals and moves.                                                     *)

RequestRenewal(v, r, l, end) ==
    /\ renewal[r] = NoRenewal
    /\ lease[l].status = "ACTIVE"
    /\ end > lease[l].end
    /\ ~ \E s \in Renewal : v.renewal[s].lease = l /\ v.renewal[s].status = "REQUESTED"
    /\ renewal' = [renewal EXCEPT ![r] = [lease |-> l, end |-> end, status |-> "REQUESTED"]]
    /\ UNCHANGED <<property, tenant, lease, document, money, move, old>>

RejectRenewal(r) ==
    /\ renewal[r].status = "REQUESTED"
    /\ renewal' = [renewal EXCEPT ![r].status = "REJECTED"]
    /\ UNCHANGED <<property, tenant, lease, document, money, move, old>>

(* mutant: the new periods start on the day the old ones end               *)
ApproveRenewal_FromOldEnd(r) ==
    LET l == renewal[r].lease
    IN  /\ renewal[r].status = "REQUESTED"
        /\ renewal' = [renewal EXCEPT ![r].status = "COMPLETED"]
        /\ lease' = [lease EXCEPT ![l].end = renewal[r].end]
        /\ schedule' = [schedule EXCEPT
              ![l] = @ \o Periods(lease[l].end, renewal[r].end, lease[l].due_day)]
        /\ UNCHANGED <<property, tenant, document, payment, move, old>>

(* Whatever became of the lease since the renewal was asked for.           *)
ApproveRenewal(r) ==
    LET l == renewal[r].lease
    IN  /\ renewal[r].status = "REQUESTED"
        /\ renewal' = [renewal EXCEPT ![r].status = "COMPLETED"]
        /\ lease' = [lease EXCEPT ![l].end = renewal[r].end]
        /\ schedule' = [schedule EXCEPT
              ![l] = @ \o Periods(lease[l].end + 1, renewal[r].end, lease[l].due_day)]
        /\ UNCHANGED <<property, tenant, document, payment, move, old>>

RequestMove(v, m, l, type) ==
    /\ move[m] = NoMove
    /\ lease[l].status = (IF type = "MOVE_IN" THEN "MOVE_IN_PENDING" ELSE "ACTIVE")
    /\ ~ \E n \in Move : /\ v.move[n].lease = l /\ v.move[n].type = type
                         /\ v.move[n].status \in {"REQUESTED", "APPROVED"}
    /\ move' = [move EXCEPT ![m] = [lease |-> l, type |-> type, status |-> "REQUESTED"]]
    /\ lease' = [lease EXCEPT ![l].status = IF type = "MOVE_OUT" THEN "NOTICE_GIVEN" ELSE @]
    /\ UNCHANGED <<property, tenant, document, money, renewal, old>>

DecideMove(m, verdict) ==
    /\ move[m].status = "REQUESTED"
    /\ move' = [move EXCEPT ![m].status = verdict]
    /\ lease' = [lease EXCEPT ![move[m].lease].status =
          IF move[m].type = "MOVE_IN" THEN @
          ELSE IF verdict = "APPROVED" THEN "MOVE_OUT_PENDING" ELSE "ACTIVE"]
    /\ UNCHANGED <<property, tenant, document, money, renewal, old>>

CompleteMoveIn(m) ==
    LET l == move[m].lease
    IN  /\ move[m].status = "APPROVED" /\ move[m].type = "MOVE_IN"
        /\ move' = [move EXCEPT ![m].status = "COMPLETED"]
        /\ lease' = [lease EXCEPT ![l].status = "ACTIVE"]
        /\ property' = [property EXCEPT ![lease[l].property] = "OCCUPIED"]
        /\ UNCHANGED <<tenant, document, money, renewal, old>>

(* Only what was invoiced has to be settled.                               *)
CompleteMoveOut(v, m) ==
    LET l == move[m].lease
    IN  /\ move[m].status = "APPROVED" /\ move[m].type = "MOVE_OUT"
        /\ \A i \in DOMAIN v.schedule[l] :
              v.schedule[l][i].invoice \notin {"NONE", "PAID"} => v.schedule[l][i].paid >= Rent
        /\ move' = [move EXCEPT ![m].status = "COMPLETED"]
        /\ lease' = [lease EXCEPT ![l].status = "TERMINATED", ![l].holds = FALSE]
        /\ property' = [property EXCEPT ![lease[l].property] = "AVAILABLE"]
        /\ UNCHANGED <<tenant, document, money, renewal, old>>

-----------------------------------------------------------------------------
LettingStep ==
    \/ \E p \in Property, status \in PropertyStatus : UpdateProperty(p, status)
    \/ \E t \in Tenant, active \in BOOLEAN : UpdateTenant(t, active)
    \/ \E v \in Views, l \in Lease, t \in Tenant, p \in Property, d \in Document, terms \in Terms :
          CreateLease(v, l, t, p, d, terms)
    \/ \E d \in Document, l \in Lease : AddDocument(d, l)
    \/ \E d \in Document : UploadDocument(d)
    \/ \E d \in Document, verdict \in {"VERIFIED", "REJECTED"} : DecideDocument(d, verdict)
    \/ \E l \in Lease : IssueLease(l)
    \/ \E v \in Views, l \in Lease : SignLease(v, l)

CollectingStep ==
    \/ \E l \in Lease : \E i \in DOMAIN schedule[l] :
          \/ IssueInvoice(l, i)
          \/ FallsDue(l, i)
          \/ \E v \in Views, k \in Payment, amount \in 1..Rent : SubmitPayment(v, k, l, i, amount)
    \/ \E k \in Payment : FailPayment(k) \/ CompletePayment(k)
    \/ \E v \in Views : ExpireOverdue(v)

RenewalStep ==
    \/ \E v \in Views, r \in Renewal, l \in Lease, end \in EndDates : RequestRenewal(v, r, l, end)
    \/ \E r \in Renewal : RejectRenewal(r) \/ ApproveRenewal(r)

MoveStep ==
    \/ \E v \in Views, m \in Move, l \in Lease, type \in {"MOVE_IN", "MOVE_OUT"} :
          RequestMove(v, m, l, type)
    \/ \E m \in Move, verdict \in {"APPROVED", "REJECTED"} : DecideMove(m, verdict)
    \/ \E m \in Move : CompleteMoveIn(m)
    \/ \E v \in Views, m \in Move : CompleteMoveOut(v, m)

(* One request after the other, or with reads that are out of date.        *)
Step == LettingStep \/ CollectingStep \/ RenewalStep \/ MoveStep
Next == Begin \/ Step

Spec == Init /\ [][Next]_vars

-----------------------------------------------------------------------------
(* Properties.                                                             *)

(* Who lives there: a property is let to one lease at a time, from the     *)
(* signature to the move out, and as long as somebody lives in it nothing  *)
(* done by hand or for another lease lets it look free.  Of requests that  *)
(* follow one another.                                                     *)
OccupantsAgree ==
    /\ \A l \in Lease :
          /\ lease[l].holds <=> lease[l].status \in Living
          /\ lease[l].status \in Living \ {"MOVE_IN_PENDING"} => property[lease[l].property] = "OCCUPIED"
    /\ \A l, m \in Lease : lease[l].holds /\ lease[m].holds /\ lease[l].property = lease[m].property => l = m

(* Rent is paid once: what an invoice calls paid is what was verified for  *)
(* it, never more than its total, and it is not called paid before.  Of    *)
(* requests with reads of any age.                                         *)
RentAddsUp ==
    \A l \in Lease : \A i \in DOMAIN schedule[l] :
        LET item == schedule[l][i]
            verified == {k \in Payment : /\ payment[k].lease = l /\ payment[k].item = i
                                         /\ payment[k].status = "COMPLETED"}
        IN  /\ item.paid = SumFunctionOnSet([k \in Payment |-> payment[k].amount], verified)
            /\ item.paid <= Rent
            /\ item.invoice = "PAID" => item.paid = Rent
            /\ item.invoice = "ISSUED" => item.paid = 0

(* Every day of a lease, and no other, is in one period of its schedule,   *)
(* over months of different lengths and any number of renewals, and every  *)
(* period's rent is due in it.                                             *)
TermsTiled ==
    \A l \in Lease : LET periods == schedule[l] IN
        lease[l].status \in Living =>
           /\ periods[1].from = lease[l].start
           /\ periods[Len(periods)].to = lease[l].end
           /\ \A i \in DOMAIN periods : /\ periods[i].from <= periods[i].due
                                        /\ periods[i].due <= periods[i].to
           /\ \A i \in 2..Len(periods) : periods[i].from = periods[i - 1].to + 1
=============================================================================
