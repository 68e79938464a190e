--------------------------- MODULE ServiceRequests ---------------------------
(***************************************************************************)
(* services/service_requests.py: the tickets of tenants and customers from *)
(* opening to closure and feedback, their deadlines, and escalations.      *)
(*                                                                         *)
(* An action is one request, at its commit.  The ticket, and whatever else *)
(* is written, is locked and current; categories, policies, users and the  *)
(* search for active escalations are read plainly, from the read view v of *)
(* the transaction.  A user is told from another where the code does:      *)
(* whether he is an agent, and to whom a ticket is assigned.               *)
(***************************************************************************)
EXTENDS Integers

CONSTANTS
    Category,    \* identities for categories
    Priority,    \* priorities
    Minutes,     \* the deadlines a policy may set
    Agent,       \* users who may be service agents
    Ticket,      \* identities for tickets
    Escalation,  \* identities for escalations
    MaxNow,      \* the last minute there is
    None         \* SQL NULL

CategoryStatus == {"NONE", "ACTIVE", "INACTIVE"}
Statuses == {"NONE", "OPEN", "ASSIGNED", "IN_PROGRESS", "WAITING_FOR_CUSTOMER", "RESOLVED", "CLOSED"}
Finished == {"RESOLVED", "CLOSED"}
EscalationStatus == {"NONE", "OPEN", "ACKNOWLEDGED", "RESOLVED"}
Unsettled == {"OPEN", "ACKNOWLEDGED"}

Time == 0..MaxNow \cup {None}
InOrder == {d \in Minutes : d.response <= d.escalation /\ d.escalation <= d.resolution}
NoDeadlines == [policy |-> None, response |-> None, escalation |-> None, resolution |-> None]

VARIABLES
    now,         \* the minute
    category,    \* service_request_categories
    policy,      \* service_sla_policies: set, with the deadlines, or None
    staff,       \* the users who are active and may be assigned
    ticket,      \* service_requests
    escalation,  \* service_request_escalations
    old          \* read views of requests that began some time ago

settings == <<category, policy>>
vars == <<now, settings, staff, ticket, escalation, old>>

Snapshot == [category |-> category, policy |-> policy, staff |-> staff, escalation |-> escalation]
Views == {Snapshot} \cup old

NoTicket == [status |-> "NONE", category |-> None, priority |-> None, assignee |-> None,
             escalated |-> FALSE, opened |-> None, responded |-> None, resolved |-> None,
             due |-> NoDeadlines, rated |-> FALSE]

TypeOK ==
    /\ now \in 0..MaxNow
    /\ category \in [Category -> CategoryStatus]
    /\ \A c \in Category, p \in Priority :
          /\ policy[<<c, p>>].minutes \in InOrder \cup {None}
          /\ policy[<<c, p>>].active => policy[<<c, p>>].minutes # None
          /\ policy[<<c, p>>].minutes # None => category[c] # "NONE"
    /\ staff \subseteq Agent
    /\ \A t \in Ticket :
          /\ ticket[t].status \in Statuses
          /\ ticket[t].assignee \in Agent \cup {None}
          /\ {ticket[t].opened, ticket[t].responded, ticket[t].resolved} \subseteq Time
          /\ ticket[t].status # "NONE" => category[ticket[t].category] # "NONE"
          (* a ticket that was taken up has somebody to see to it *)
          /\ ticket[t].status \in {"NONE", "OPEN"} <=> ticket[t].assignee = None
          (* and is dated: responses and resolutions do not precede opening *)
          /\ \A time \in {ticket[t].responded, ticket[t].resolved} \ {None} : ticket[t].opened <= time
          /\ ticket[t].rated => ticket[t].status = "CLOSED"
    /\ escalation \in [Escalation -> [status: EscalationStatus, ticket: Ticket \cup {None}]]

Init ==
    /\ now = 0
    /\ category = [c \in Category |-> "NONE"]
    /\ policy = [key \in Category \X Priority |-> [active |-> FALSE, minutes |-> None]]
    /\ staff = Agent
    /\ ticket = [t \in Ticket |-> NoTicket]
    /\ escalation = [e \in Escalation |-> [status |-> "NONE", ticket |-> None]]
    /\ old = {}

(* A request begins, and lets others go first.                             *)
Begin ==
    /\ old' = {Snapshot}
    /\ UNCHANGED <<now, settings, staff, ticket, escalation>>

(* A minute passes; users lose and regain their account or their role.     *)
Tick ==
    /\ now < MaxNow
    /\ now' = now + 1
    /\ UNCHANGED <<settings, staff, ticket, escalation, old>>

StaffChanges(u) ==
    /\ staff' = IF u \in staff THEN staff \ {u} ELSE staff \cup {u}
    /\ UNCHANGED <<now, settings, ticket, escalation, old>>

-----------------------------------------------------------------------------
(* Categories and the deadlines of their tickets.                          *)

CreateCategory(c) ==
    /\ category[c] = "NONE"
    /\ category' = [category EXCEPT ![c] = "ACTIVE"]
    /\ UNCHANGED <<now, policy, staff, ticket, escalation, old>>

UpdateCategory(c, status) ==
    /\ category[c] # "NONE"
    /\ status \in {"ACTIVE", "INACTIVE"}
    /\ category' = [category EXCEPT ![c] = status]
    /\ UNCHANGED <<now, policy, staff, ticket, escalation, old>>

CreatePolicy(v, c, p, minutes) ==
    /\ v.category[c] = "ACTIVE"
    /\ policy[<<c, p>>].minutes = None
    /\ minutes \in InOrder
    /\ policy' = [policy EXCEPT ![<<c, p>>] = [active |-> TRUE, minutes |-> minutes]]
    /\ UNCHANGED <<now, category, staff, ticket, escalation, old>>

UpdatePolicy(c, p, minutes, active) ==
    /\ policy[<<c, p>>].minutes # None
    /\ minutes \in InOrder
    /\ policy' = [policy EXCEPT ![<<c, p>>] = [active |-> active, minutes |-> minutes]]
    /\ UNCHANGED <<now, category, staff, ticket, escalation, old>>

(* The deadlines of a ticket, counted from its opening.                    *)
ApplySla(v, opened, c, p) ==
    LET minutes == v.policy[<<c, p>>].minutes
    IN  IF ~v.policy[<<c, p>>].active THEN NoDeadlines
        ELSE [policy |-> <<c, p>>, response |-> opened + minutes.response,
              escalation |-> opened + minutes.escalation, resolution |-> opened + minutes.resolution]

-----------------------------------------------------------------------------
(* Tickets.                                                                *)

Set(t, row) ==
    /\ ticket' = [ticket EXCEPT ![t] = row]
    /\ UNCHANGED <<now, settings, staff, old>>

(* Only an agent chooses an assignee with it.                              *)
CreateTicket(v, t, c, p, assignee) ==
    /\ ticket[t].status = "NONE"
    /\ v.category[c] = "ACTIVE"
    /\ assignee \in v.staff \cup {None}
    /\ Set(t, [NoTicket EXCEPT !.status = IF assignee = None THEN "OPEN" ELSE "ASSIGNED",
                               !.category = c, !.priority = p, !.assignee = assignee,
                               !.opened = now, !.due = ApplySla(v, now, c, p)])
    /\ UNCHANGED escalation

(* mutant: a change of priority leaves the deadlines as they were          *)
UpdateTicket_OldDeadlines(v, t, c, p) ==
    /\ ticket[t].status # "NONE"
    /\ c = ticket[t].category \/ v.category[c] = "ACTIVE"
    /\ Set(t, [ticket[t] EXCEPT !.category = c, !.priority = p,
                   !.due = IF c = ticket[t].category THEN @ ELSE ApplySla(v, ticket[t].opened, c, p)])
    /\ UNCHANGED escalation

(* By an agent, in every state; what a requester may change is left out.   *)
UpdateTicket(v, t, c, p) ==
    /\ ticket[t].status # "NONE"
    /\ c = ticket[t].category \/ v.category[c] = "ACTIVE"
    /\ Set(t, [ticket[t] EXCEPT !.category = c, !.priority = p,
                                !.due = ApplySla(v, ticket[t].opened, c, p)])
    /\ UNCHANGED escalation

(* mutant: an open ticket stays open when somebody is given it             *)
TakenUp_Stays(status) == status

TakenUp(status) == IF status = "OPEN" THEN "ASSIGNED" ELSE status

AssignTicket(v, t, assignee) ==
    /\ ticket[t].status \notin {"NONE", "CLOSED"}
    /\ assignee \in v.staff
    /\ Set(t, [ticket[t] EXCEPT !.assignee = assignee, !.status = TakenUp(@)])
    /\ UNCHANGED escalation

Moves == [ASSIGNED |-> {"IN_PROGRESS"},
          IN_PROGRESS |-> {"WAITING_FOR_CUSTOMER", "RESOLVED"},
          WAITING_FOR_CUSTOMER |-> {"IN_PROGRESS", "RESOLVED"},
          RESOLVED |-> {"IN_PROGRESS", "CLOSED"}]

Responded(t) == IF ticket[t].responded = None THEN now ELSE ticket[t].responded

(* A requester may close what was resolved, no more.  Resolution settles   *)
(* the escalations it finds.                                               *)
TransitionTicket(v, t, target, agent) ==
    /\ ticket[t].status \in DOMAIN Moves
    /\ target \in Moves[ticket[t].status]
    /\ agent \/ target = "CLOSED"
    /\ Set(t, [ticket[t] EXCEPT
           !.status = target,
           !.responded = IF target = "IN_PROGRESS" THEN Responded(t) ELSE @,
           !.resolved = CASE target = "RESOLVED" -> now
                          [] target = "IN_PROGRESS" /\ ticket[t].status = "RESOLVED" -> None
                          [] OTHER -> @,
           !.escalated = @ /\ target # "RESOLVED"])
    /\ escalation' = [e \in Escalation |->
           IF target = "RESOLVED" /\ v.escalation[e].ticket = t /\ v.escalation[e].status \in Unsettled
           THEN [escalation[e] EXCEPT !.status = "RESOLVED"] ELSE escalation[e]]

(* A public comment of an agent is a response, one of the requester ends   *)
(* the wait for him.                                                       *)
AddComment(t, agent, internal) ==
    /\ ticket[t].status \notin {"NONE", "CLOSED"}
    /\ internal => agent
    /\ Set(t, [ticket[t] EXCEPT
           !.responded = IF agent /\ ~internal THEN Responded(t) ELSE @,
           !.status = IF ~agent /\ @ = "WAITING_FOR_CUSTOMER" THEN "IN_PROGRESS" ELSE @])
    /\ UNCHANGED escalation

-----------------------------------------------------------------------------
(* Escalations and feedback.                                               *)

EscalateTicket(v, t, e, to) ==
    /\ ticket[t].status \notin {"NONE"} \cup Finished
    /\ \A f \in Escalation : v.escalation[f].ticket = t => v.escalation[f].status \notin Unsettled
    /\ to \in v.staff \ {ticket[t].assignee}
    /\ escalation[e].status = "NONE"
    /\ escalation' = [escalation EXCEPT ![e] = [status |-> "OPEN", ticket |-> t]]
    /\ Set(t, [ticket[t] EXCEPT !.assignee = to, !.escalated = TRUE, !.status = TakenUp(@)])

AcknowledgeEscalation(e) ==
    /\ escalation[e].status = "OPEN"
    /\ escalation' = [escalation EXCEPT ![e].status = "ACKNOWLEDGED"]
    /\ UNCHANGED <<now, settings, staff, ticket, old>>

(* mutant: the ticket is left as escalated                                 *)
ResolveEscalation_TicketLeft(e) ==
    /\ escalation[e].status \in Unsettled
    /\ escalation' = [escalation EXCEPT ![e].status = "RESOLVED"]
    /\ UNCHANGED <<now, settings, staff, ticket, old>>

ResolveEscalation(e) ==
    /\ escalation[e].status \in Unsettled
    /\ escalation' = [escalation EXCEPT ![e].status = "RESOLVED"]
    /\ LET t == escalation[e].ticket
       IN  Set(t, [ticket[t] EXCEPT !.escalated = FALSE])

SubmitFeedback(t) ==
    /\ ticket[t].status = "CLOSED"
    /\ ~ticket[t].rated
    /\ Set(t, [ticket[t] EXCEPT !.rated = TRUE])
    /\ UNCHANGED escalation

-----------------------------------------------------------------------------
SettingsStep ==
    \/ Tick
    \/ \E u \in Agent : StaffChanges(u)
    \/ \E c \in Category : CreateCategory(c) \/ \E status \in CategoryStatus : UpdateCategory(c, status)
    \/ \E c \in Category, p \in Priority, minutes \in Minutes :
          \/ \E v \in Views : CreatePolicy(v, c, p, minutes)
          \/ \E active \in BOOLEAN : UpdatePolicy(c, p, minutes, active)

TicketStep ==
    \/ \E v \in Views, t \in Ticket, c \in Category, p \in Priority :
          UpdateTicket(v, t, c, p) \/ \E u \in Agent \cup {None} : CreateTicket(v, t, c, p, u)
    \/ \E v \in Views, t \in Ticket, u \in Agent : AssignTicket(v, t, u)
    \/ \E v \in Views, t \in Ticket, target \in Statuses, agent \in BOOLEAN :
          TransitionTicket(v, t, target, agent)
    \/ \E t \in Ticket, agent, internal \in BOOLEAN : AddComment(t, agent, internal)
    \/ \E t \in Ticket : SubmitFeedback(t)

EscalationStep ==
    \/ \E v \in Views, t \in Ticket, e \in Escalation, u \in Agent : EscalateTicket(v, t, e, u)
    \/ \E e \in Escalation : AcknowledgeEscalation(e) \/ ResolveEscalation(e)

(* One request after the other, or with reads that are out of date.        *)
Step == SettingsStep \/ TicketStep \/ EscalationStep
Next == Begin \/ Step

Spec == Init /\ [][Next]_vars

-----------------------------------------------------------------------------
(* Properties.                                                             *)

(* What the view of a ticket says of a deadline.                           *)
Breached(t, due, done) ==
    /\ due # None
    /\ IF done # None THEN due < done ELSE ticket[t].status \notin Finished /\ due < now

(* The condition by which the list finds the tickets in breach.            *)
Late(due, done) == due # None /\ IF done = None THEN due < now ELSE due < done

(* A ticket is in the list of those in breach exactly when its own page    *)
(* says so - which only the list's condition does not make depend on the   *)
(* ticket's status -, and its deadlines are those of its category and its  *)
(* priority.  Of requests with reads of any age.                           *)
DeadlinesAgree ==
    \A t \in Ticket :
        LET row == ticket[t]
        IN  /\ Breached(t, row.due.response, row.responded) \/ Breached(t, row.due.resolution, row.resolved)
               <=> Late(row.due.response, row.responded) \/ Late(row.due.resolution, row.resolved)
            /\ row.due.policy # None =>
                  /\ row.due.policy = <<row.category, row.priority>>
                  /\ row.opened <= row.due.response /\ row.due.response <= row.due.resolution
            /\ row.resolved # None <=> row.status \in Finished

(* A ticket is shown as escalated exactly when one escalation of it awaits *)
(* its end, and none outlives the ticket.  Of requests that follow one     *)
(* another: the search for active escalations is a plain read.             *)
EscalationsAgree ==
    \A t \in Ticket :
        LET active == {e \in Escalation : escalation[e].ticket = t /\ escalation[e].status \in Unsettled}
        IN  /\ ticket[t].escalated <=> active # {}
            /\ \A e, f \in active : e = f
            /\ ticket[t].status \in Finished => active = {}
=============================================================================
