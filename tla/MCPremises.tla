----------------------------- MODULE MCPremises -----------------------------
(***************************************************************************)
(* What happens to premises once somebody takes them: leases, the way from *)
(* a booking to handover, service requests, and sales that move to another *)
(* unit or are cancelled.  The components share no rows.  Each behaviour   *)
(* is at one desk, which has an instance of its component with bounds of   *)
(* its own; the others rest.                                               *)
(***************************************************************************)
EXTENDS Integers, Sequences, FiniteSets, TLC

CONSTANTS
    Property, Tenant, Snag, Override, Document, d1, Ticket, None,
    Single,         \* the identity of a row where there is one, whatever it is of
    Pair, Another,  \* where there are two
    Trio            \* where there are three

VARIABLES desk, property, tenant, lease, document, schedule, payment, renewal, move, leases,
          external, stage, demanded, agreement, update, no_dues, snag, override, latest,
          possession, handover, papers, cases,
          now, category, policy, staff, ticket, escalation, tickets,
          unit, hold, booking, approval, view, trespassed, transfer, cancellation

rentalVars == <<property, tenant, lease, document, schedule, payment, renewal, move, leases>>
caseVars == <<external, stage, demanded, agreement, update, no_dues, snag, override, latest,
              possession, handover, papers, cases>>
ticketVars == <<now, category, policy, staff, ticket, escalation, tickets>>
saleVars == <<unit, hold, booking, approval, view, trespassed, transfer, cancellation>>

-----------------------------------------------------------------------------
(* Months of every length, a term that starts on a 31st, one that is over  *)
(* within a month.                                                         *)
Months == <<0, 31, 59, 90, 120, 151>>
Long == [start |-> 31, end |-> 62, due_day |-> 28]
Short == [start |-> 15, end |-> 45, due_day |-> 1]

(* Two leases for one property; one lease with renewals; payments that     *)
(* race for the rent of one month.                                         *)
Letting == INSTANCE Rentals WITH
    Lease <- Pair, Document <- Another, Payment <- {}, Renewal <- {}, Move <- Trio,
    Calendar <- Months, Terms <- {Short}, EndDates <- {}, Rent <- 2, old <- leases
Renewing == INSTANCE Rentals WITH
    Lease <- Single, Document <- Single, Payment <- {}, Renewal <- Pair, Move <- Another,
    Calendar <- Months, Terms <- {Long, Short}, EndDates <- {70, 100}, Rent <- 2, old <- leases
Collecting == INSTANCE Rentals WITH
    Lease <- Single, Document <- Single, Payment <- Pair, Renewal <- {}, Move <- {},
    Calendar <- Months, Terms <- {Short}, EndDates <- {}, Rent <- 2, old <- leases

(* A case with all there is to it; an override and possession that race.   *)
Handing == INSTANCE PropertyLifecycle WITH
    External <- {"NO_OUTSTANDING"}, Progress <- <<100, 50>>, Required <- {d1},
    document <- papers, old <- cases
Racing == INSTANCE PropertyLifecycle WITH
    External <- {}, Progress <- <<100>>, Snag <- {}, Document <- {}, Required <- {},
    document <- papers, old <- cases

(* One ticket with two escalations; one with policies that change under it.*)
Deadlines(response, resolution) ==
    [response |-> response, escalation |-> resolution, resolution |-> resolution]
Serving == INSTANCE ServiceRequests WITH
    Category <- {"c1"}, Priority <- {"LOW", "HIGH"}, Minutes <- {Deadlines(0, 0)},
    MaxNow <- 1, Agent <- Pair, Escalation <- Another, old <- tickets
Answering == INSTANCE ServiceRequests WITH
    Category <- {"c1"}, Priority <- {"HIGH"}, Minutes <- {Deadlines(0, 0), Deadlines(0, 1)},
    MaxNow <- 1, Agent <- Single, Escalation <- {}, old <- tickets

(* A sale that may move or be cancelled, while others want the units; one  *)
(* that moves twice, so that it may come back.                             *)
Moving == INSTANCE Transfers WITH
    Unit <- Another, Hold <- Pair, Booking <- Single, Customer <- Tenant, User <- {"a1", "a2"},
    Session <- {}, MaxApprovers <- 1, Transfer <- Single, Cancellation <- Single
Returning == INSTANCE Transfers WITH
    Unit <- Another, Hold <- Single, Booking <- Pair, Customer <- Tenant, User <- {"a1", "a2"},
    Session <- {}, MaxApprovers <- 1, Transfer <- Pair, Cancellation <- Single

-----------------------------------------------------------------------------
(* SQL's NULL is no row, nobody, no minute and no policy; holds are not    *)
(* bookings; there are not endlessly many payments.                        *)
ASSUME PremisesAssumption ==
    /\ Pair \cap Single = {} /\ IsFiniteSet(Pair)
    /\ None \notin Override \cup Pair \cup Single \cup Another \cup Tenant \cup {"a1", "a2"}
    /\ None \notin Nat \cup {Deadlines(0, 0), Deadlines(0, 1)}

-----------------------------------------------------------------------------
Rentals == {"letting", "renewing", "collecting"}
Cases == {"handing", "racing"}
Tickets == {"serving", "answering"}
Sales == {"moving", "returning"}

Init ==
    /\ desk \in Rentals \cup Cases \cup Tickets \cup Sales
    /\ CASE desk = "letting" -> Letting!Init
         [] desk = "renewing" -> Renewing!Init
         [] OTHER -> Collecting!Init
    /\ IF desk = "handing" THEN Handing!Init ELSE Racing!Init
    /\ IF desk = "serving" THEN Serving!Init ELSE Answering!Init
    /\ IF desk = "moving" THEN Moving!SalesInit ELSE Returning!SalesInit

(* But where properties are let, nobody sets their status by hand.         *)
RentalNext ==
    /\ UNCHANGED <<desk, caseVars, ticketVars, saleVars>>
    /\ \/ desk = "letting" /\ Letting!Step
       \/ desk = "renewing" /\ Renewing!Step
       \/ desk = "collecting" /\ Collecting!Next
    /\ desk # "letting" => UNCHANGED <<property, tenant>> \/ lease' # lease

CaseNext ==
    /\ UNCHANGED <<desk, rentalVars, ticketVars, saleVars>>
    /\ \/ desk = "handing" /\ Handing!Step
       \/ desk = "racing" /\ Racing!Next

TicketNext ==
    /\ UNCHANGED <<desk, rentalVars, caseVars, saleVars>>
    /\ \/ desk = "serving" /\ Serving!Step
       \/ desk = "answering" /\ Answering!Next

SaleNext ==
    /\ UNCHANGED <<desk, rentalVars, caseVars, ticketVars>>
    /\ \/ desk = "moving" /\ Moving!SalesNext
       \/ desk = "returning" /\ Returning!SalesNext

Next == RentalNext \/ CaseNext \/ TicketNext \/ SaleNext

Spec == Init /\ [][Next]_<<desk, rentalVars, caseVars, ticketVars, saleVars>>

Symmetry == Permutations(Pair) \cup Permutations(Another) \cup Permutations(Trio)

-----------------------------------------------------------------------------
(* The components' properties, each at the desks it is about.              *)

(* The rows of each component are of their types, and refer to rows that   *)
(* are there.                                                              *)
TypeOK ==
    CASE desk = "letting" -> Letting!TypeOK
      [] desk = "renewing" -> Renewing!TypeOK
      [] desk = "collecting" -> Collecting!TypeOK
      [] desk = "handing" -> Handing!TypeOK
      [] desk = "racing" -> Racing!TypeOK
      [] desk = "serving" -> Serving!TypeOK
      [] desk = "answering" -> Answering!TypeOK
      [] desk = "moving" -> Moving!SalesTypeOK
      [] desk = "returning" -> Returning!SalesTypeOK

(* A property is let to one lease at a time, from the signature to the     *)
(* move out, and does not look free while somebody lives in it.  A sale    *)
(* has its unit, and alone, wherever transfers took it, until it is        *)
(* cancelled, and no unit that sales left looks taken.                     *)
OccupantsAgree ==
    /\ desk = "letting" => Letting!OccupantsAgree
    /\ desk = "renewing" => Renewing!OccupantsAgree
    /\ desk = "moving" => Moving!SalesKept
    /\ desk = "returning" => Returning!SalesKept

(* Every day of a lease is in one period of its schedule, and the rent of  *)
(* a period is paid once, by payments that were verified.                  *)
RentStands ==
    /\ desk = "renewing" => Renewing!TermsTiled
    /\ desk = "collecting" => Collecting!TermsTiled /\ Collecting!RentAddsUp

(* Nobody is given possession on a condition that was neither met nor      *)
(* overridden, however old what the request read.                          *)
PossessionVouched ==
    /\ desk = "handing" => Handing!PossessionVouched
    /\ desk = "racing" => Racing!PossessionVouched

(* Requests that follow one another leave a case at a stage that tells     *)
(* whether possession was offered, completed, or the unit handed over.     *)
StageTells == desk = "handing" => Handing!StageTells

(* The list of tickets in breach, and each ticket's own page, agree, and   *)
(* its deadlines are those of its category and priority.                   *)
DeadlinesAgree ==
    /\ desk = "serving" => Serving!DeadlinesAgree
    /\ desk = "answering" => Answering!DeadlinesAgree

(* Requests that follow one another leave a ticket shown as escalated      *)
(* exactly while one escalation of it awaits its end.                      *)
EscalationsAgree == desk = "serving" => Serving!EscalationsAgree
=============================================================================
