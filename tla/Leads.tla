-------------------------------- MODULE Leads --------------------------------
(***************************************************************************)
(* services/leads.py: leads from their entry or import to their conversion *)
(* or loss, who they are assigned to, their follow-ups, and the linking of *)
(* duplicates; and services/site_visits.py: the visits leads are invited   *)
(* to, whose check-out writes to the lead.                                 *)
(*                                                                         *)
(* An action is one request, at its commit.  The lead, visit or activity a *)
(* handler changes is locked first and current; the search for duplicates, *)
(* the primary lead of a duplicate and the other activities of a lead are  *)
(* read plainly, from the read view v of the transaction.                  *)
(*                                                                         *)
(* Sources, notes, scores and the log entries of status changes decide     *)
(* nothing here and are left out.                                          *)
(***************************************************************************)
EXTENDS Integers, FiniteSets

CONSTANTS
    Lead,      \* identities for leads
    Contact,   \* normalized e-mail addresses and phone numbers
    Owner,     \* active users a lead can be assigned to
    Reason,    \* lost-lead reasons
    Activity,  \* identities for follow-ups and other activities
    Dues,      \* when a follow-up is due, in order
    Visit,     \* identities for site visits
    NoOne      \* SQL NULL

LeadStatus == {"NEW", "ASSIGNED", "ATTEMPTED", "CONTACTED", "QUALIFIED", "DISQUALIFIED", "LOST",
               "CONVERTED"}
VisitStatus == {"SCHEDULED", "CONFIRMED", "CHECKED_IN", "COMPLETED", "CANCELLED", "NO_SHOW"}

(* STATUS_TRANSITIONS; staying where one is is always allowed.             *)
Open == {"QUALIFIED", "DISQUALIFIED", "LOST"}
StatusTransitions ==
    [NEW          |-> {"ASSIGNED", "ATTEMPTED", "CONTACTED"} \cup Open,
     ASSIGNED     |-> {"ATTEMPTED", "CONTACTED"} \cup Open,
     ATTEMPTED    |-> {"CONTACTED"} \cup Open,
     CONTACTED    |-> Open,
     QUALIFIED    |-> {"CONTACTED", "DISQUALIFIED", "LOST", "CONVERTED"},
     DISQUALIFIED |-> {"CONTACTED", "LOST"},
     LOST         |-> {"CONTACTED"},
     CONVERTED    |-> {}]

NoLead == [status |-> "NONE", owner |-> NoOne, keys |-> {}, primary |-> NoOne, reason |-> NoOne,
           next |-> 0]
NoActivity == [lead |-> NoOne, follow_up |-> FALSE, due |-> 0, done |-> FALSE]
NoVisit == [lead |-> NoOne, status |-> "NONE", due |-> FALSE]

VARIABLES
    lead,       \* leads; next_follow_up_at is 0 when there is none
    assignees,  \* the users of each lead's active lead_assignments
    reason,     \* lost_lead_reasons.is_active
    customer,   \* the leads a customer was converted from
    activity,   \* lead_activities
    visit,      \* site_visits; due when their time has come
    old         \* read views of requests that began some time ago

others == <<reason, old>>
vars == <<lead, assignees, customer, activity, visit, others>>

(* What is read plainly of the leads is how to reach them, and their      *)
(* primaries; a lead has always one way at least.                          *)
Snapshot == [keys |-> [l \in Lead |-> lead[l].keys], activity |-> activity,
             primary |-> [l \in Lead |-> lead[l].primary]]
Views == {Snapshot} \cup old

Known == {l \in Lead : lead[l].status # "NONE"}

LeadRow == [status: {"NONE"} \cup LeadStatus, owner: Owner \cup {NoOne}, keys: SUBSET Contact,
            primary: Lead \cup {NoOne}, reason: Reason \cup {NoOne}, next: {0} \cup Dues]
ActivityRow == [lead: Lead \cup {NoOne}, follow_up: BOOLEAN, due: {0} \cup Dues, done: BOOLEAN]
VisitRow == [lead: Lead \cup {NoOne}, status: {"NONE"} \cup VisitStatus, due: BOOLEAN]

TypeOK ==
    /\ lead \in [Lead -> LeadRow]
    /\ assignees \in [Lead -> SUBSET Owner]
    /\ reason \in [Reason -> BOOLEAN]
    /\ customer \in SUBSET Lead
    /\ activity \in [Activity -> ActivityRow]
    /\ visit \in [Visit -> VisitRow]
    /\ old \subseteq [keys: [Lead -> SUBSET Contact], activity: [Activity -> ActivityRow],
                      primary: [Lead -> Lead \cup {NoOne}]]
    (* what a lead's rows refer to is there *)
    /\ \A l \in Known : lead[l].primary # NoOne => lead[l].primary \in Known
    /\ \A a \in Activity : activity[a].lead # NoOne => activity[a].lead \in Known
    /\ \A w \in Visit : visit[w].lead # NoOne => visit[w].lead \in Known

Init ==
    /\ lead = [l \in Lead |-> NoLead]
    /\ assignees = [l \in Lead |-> {}]
    /\ reason = [r \in Reason |-> TRUE]
    /\ customer = {}
    /\ activity = [a \in Activity |-> NoActivity]
    /\ visit = [w \in Visit |-> NoVisit]
    /\ old = {}

(* A request begins, and lets others go first.                             *)
Begin ==
    /\ old' = {Snapshot}
    /\ UNCHANGED <<lead, assignees, reason, customer, activity, visit>>

-----------------------------------------------------------------------------
(* Entry, editing and import.                                              *)

Matches(v, keys) == {l \in Lead : v.primary[l] = NoOne /\ v.keys[l] \cap keys # {}}

NewLead(keys, owner) ==
    [NoLead EXCEPT !.status = IF owner = NoOne THEN "NEW" ELSE "ASSIGNED",
                   !.owner = owner, !.keys = keys]

Assignment(owner) == {owner} \ {NoOne}

AddLeads(added, keys, owners) ==
    /\ \A l \in added : lead[l].status = "NONE"
    /\ lead' = [l \in Lead |-> IF l \in added THEN NewLead(keys[l], owners[l]) ELSE lead[l]]
    /\ assignees' = [l \in Lead |-> IF l \in added THEN Assignment(owners[l]) ELSE assignees[l]]
    /\ UNCHANGED <<customer, activity, visit, others>>

CreateLead(v, l, keys, owner, override) ==
    /\ override \/ Matches(v, keys) = {}
    /\ AddLeads({l}, [m \in {l} |-> keys], [m \in {l} |-> owner])

(* Each row names its owner, or none.                                      *)
(* Within one file only rows with the very same contact are duplicates of  *)
(* each other; rows that share an address alone are not.                   *)
CommitImport(v, imported, keys, owners, skip_duplicates) ==
    /\ skip_duplicates => \A l \in imported : /\ Matches(v, keys[l]) = {}
                                              /\ \A m \in imported \ {l} : keys[m] # keys[l]
    /\ AddLeads(imported, keys, owners)

SetLead(l, row) ==
    /\ lead' = [lead EXCEPT ![l] = row]
    /\ UNCHANGED <<assignees, customer, activity, visit, others>>

Editable(l) == lead[l].status \notin {"NONE", "CONVERTED"}

UpdateLead(v, l, keys) ==
    /\ Editable(l)
    /\ Matches(v, keys) \subseteq {l}
    /\ SetLead(l, [lead[l] EXCEPT !.keys = keys])

(* mutant: the duplicates of a deleted lead stay linked to it *)
DeleteLead_LinksStay(l) ==
    /\ Editable(l)
    /\ l \notin customer
    /\ \A w \in Visit : visit[w].lead # l
    /\ lead' = [lead EXCEPT ![l] = NoLead]
    /\ assignees' = [assignees EXCEPT ![l] = {}]
    /\ activity' = [a \in Activity |-> IF activity[a].lead = l THEN NoActivity ELSE activity[a]]
    /\ UNCHANGED <<customer, visit, others>>

(* Foreign keys keep a lead that visits or a customer refer to.            *)
DeleteLead(l) ==
    /\ Editable(l)
    /\ l \notin customer
    /\ \A w \in Visit : visit[w].lead # l
    /\ lead' = [m \in Lead |-> CASE m = l -> NoLead
                                 [] m # l /\ lead[m].primary = l -> [lead[m] EXCEPT !.primary = NoOne]
                                 [] OTHER -> lead[m]]
    /\ assignees' = [assignees EXCEPT ![l] = {}]
    /\ activity' = [a \in Activity |-> IF activity[a].lead = l THEN NoActivity ELSE activity[a]]
    /\ UNCHANGED <<customer, visit, others>>

(* The primary lead is read plainly, its own primary not at all.           *)
ResolveDuplicates(v, primary, duplicates) ==
    /\ primary \in Known
    /\ primary \notin duplicates
    /\ duplicates \subseteq {l \in Known : lead[l].keys \cap v.keys[primary] # {}}
    /\ lead' = [l \in Lead |-> IF l \in duplicates THEN [lead[l] EXCEPT !.primary = primary]
                                                   ELSE lead[l]]
    /\ UNCHANGED <<assignees, customer, activity, visit, others>>

-----------------------------------------------------------------------------
(* Assignment and the pipeline.                                            *)

(* mutant: taking a lead from its owner leaves the assignment open *)
SetAssignment_LeftOpen(chosen, owner) ==
    /\ assignees' = [l \in Lead |-> IF l \in chosen /\ owner # NoOne THEN {owner} ELSE assignees[l]]
    /\ lead' = [l \in Lead |->
          IF l \notin chosen THEN lead[l]
          ELSE [lead[l] EXCEPT !.owner = owner,
                               !.status = IF @ = "NEW" /\ owner # NoOne THEN "ASSIGNED" ELSE @]]

SetAssignment(chosen, owner) ==
    /\ assignees' = [l \in Lead |-> IF l \in chosen THEN Assignment(owner) ELSE assignees[l]]
    /\ lead' = [l \in Lead |->
          IF l \notin chosen THEN lead[l]
          ELSE [lead[l] EXCEPT !.owner = owner,
                               !.status = IF @ = "NEW" /\ owner # NoOne THEN "ASSIGNED" ELSE @]]

AssignLead(l, owner) ==
    /\ Editable(l)
    /\ SetAssignment({l}, owner)
    /\ UNCHANGED <<customer, activity, visit, others>>

(* mutant: converted leads are reassigned in bulk *)
BulkAssign_Converted(chosen, owner) ==
    /\ owner # NoOne
    /\ chosen \subseteq Known
    /\ SetAssignment(chosen, owner)
    /\ UNCHANGED <<customer, activity, visit, others>>

BulkAssign(chosen, owner) ==
    /\ owner # NoOne
    /\ \A l \in chosen : Editable(l)
    /\ SetAssignment(chosen, owner)
    /\ UNCHANGED <<customer, activity, visit, others>>

EnsureTransition(l, target) ==
    /\ lead[l].status # "NONE"
    /\ target = lead[l].status \/ target \in StatusTransitions[lead[l].status]

(* A lead that is contacted again keeps the reason it was lost for.        *)
TransitionStatus(l, target) ==
    /\ target \notin {"QUALIFIED", "LOST", "CONVERTED"}
    /\ EnsureTransition(l, target)
    /\ SetLead(l, [lead[l] EXCEPT !.status = target])

QualifyLead(l) ==
    /\ EnsureTransition(l, "QUALIFIED")
    /\ SetLead(l, [lead[l] EXCEPT !.status = "QUALIFIED", !.reason = NoOne])

MarkLeadLost(l, r) ==
    /\ EnsureTransition(l, "LOST")
    /\ reason[r]
    /\ SetLead(l, [lead[l] EXCEPT !.status = "LOST", !.reason = r])

UpdateLostReason(r) ==
    /\ reason' = [reason EXCEPT ![r] = ~@]
    /\ UNCHANGED <<lead, assignees, customer, activity, visit, old>>

ConvertLead(l) ==
    /\ lead[l].status = "QUALIFIED"
    /\ l \notin customer
    /\ customer' = customer \cup {l}
    /\ lead' = [lead EXCEPT ![l].status = "CONVERTED"]
    /\ UNCHANGED <<assignees, activity, visit, others>>

-----------------------------------------------------------------------------
(* Activities and follow-ups.                                              *)

Pending(activities, l) == {a \in Activity : /\ activities[a].lead = l
                                            /\ activities[a].follow_up
                                            /\ ~activities[a].done}
PendingDues(activities, l) == {activities[a].due : a \in Pending(activities, l)}

Earliest(activities, l) ==
    IF PendingDues(activities, l) = {} THEN 0
    ELSE CHOOSE d \in PendingDues(activities, l) : \A e \in PendingDues(activities, l) : d <= e

(* _refresh_next_follow_up: the transaction sees its own change, and the   *)
(* rest as it was when it began.                                           *)
SetActivity(v, a, l, row) ==
    /\ activity' = [activity EXCEPT ![a] = row]
    /\ lead' = [lead EXCEPT ![l].next = Earliest([v.activity EXCEPT ![a] = row], l)]
    /\ UNCHANGED <<assignees, customer, visit, others>>

(* Only of a follow-up it matters when it is due and whether it is done.   *)
Entry(l, follow_up, due, done) ==
    [lead |-> l, follow_up |-> follow_up,
     due |-> IF follow_up THEN due ELSE 0, done |-> follow_up => done]

CreateActivity(v, a, l, follow_up, due, done) ==
    /\ activity[a] = NoActivity
    /\ lead[l].status # "NONE"
    /\ ~(lead[l].status = "CONVERTED" /\ follow_up)
    /\ SetActivity(v, a, l, Entry(l, follow_up, due, done))

(* Any activity may become a follow-up, whatever became of its lead.       *)
UpdateActivity(v, a, l, follow_up, due, done) ==
    /\ activity[a].lead = l
    /\ SetActivity(v, a, l, Entry(l, follow_up, due, done))

CompleteFollowUp(v, a, l) ==
    /\ a \in Pending(activity, l)
    /\ SetActivity(v, a, l, [activity[a] EXCEPT !.done = TRUE])

(* mutant: the next follow-up is looked for before the deletion is flushed *)
DeleteActivity_Unflushed(v, a, l) ==
    /\ activity[a].lead = l
    /\ activity' = [activity EXCEPT ![a] = NoActivity]
    /\ lead' = [lead EXCEPT ![l].next = Earliest(v.activity, l)]
    /\ UNCHANGED <<assignees, customer, visit, others>>

DeleteActivity(v, a, l) ==
    /\ activity[a].lead = l
    /\ SetActivity(v, a, l, NoActivity)

-----------------------------------------------------------------------------
(* Site visits.                                                            *)

SetVisit(w, row) ==
    /\ visit' = [visit EXCEPT ![w] = row]
    /\ UNCHANGED <<lead, assignees, customer, activity, others>>

(* A visit is for a lead, or for a customer alone.                         *)
Visitor == Known \cup {NoOne}

CreateVisit(w, l) ==
    /\ visit[w].status = "NONE"
    /\ l \in Visitor
    /\ SetVisit(w, [lead |-> l, status |-> "SCHEDULED", due |-> FALSE])

Upcoming(w) == visit[w].status \in {"SCHEDULED", "CONFIRMED"}

(* A visit can be handed to another lead or to a customer alone, and moved *)
(* to another time to come.                                                *)
UpdateVisit(w, l, reschedule) ==
    /\ Upcoming(w)
    /\ l \in Visitor
    /\ SetVisit(w, [visit[w] EXCEPT !.lead = l, !.due = @ /\ ~reschedule])

ChangeVisitStatus(w, target) ==
    /\ Upcoming(w)
    /\ \/ target = "CONFIRMED" /\ visit[w].status = "SCHEDULED"
       \/ target = "CANCELLED"
       \/ target = "NO_SHOW" /\ visit[w].due
    /\ SetVisit(w, [visit[w] EXCEPT !.status = target])

CheckIn(w) ==
    /\ Upcoming(w)
    /\ SetVisit(w, [visit[w] EXCEPT !.status = "CHECKED_IN"])

(* The follow-up agreed on at the visit, or none, replaces the lead's next *)
(* one, whatever else is pending and whatever became of the lead.          *)
CheckOut(w, a, due) ==
    /\ visit[w].status = "CHECKED_IN"
    /\ visit[w].lead # NoOne
    /\ visit' = [visit EXCEPT ![w].status = "COMPLETED"]
    /\ lead' = [lead EXCEPT ![visit[w].lead].next = due]
    /\ IF due = 0 THEN UNCHANGED activity
       ELSE /\ activity[a] = NoActivity
            /\ activity' = [activity EXCEPT ![a] = Entry(visit[w].lead, TRUE, due, FALSE)]
    /\ UNCHANGED <<assignees, customer, others>>

CheckOutCustomer(w) ==
    /\ visit[w].status = "CHECKED_IN"
    /\ visit[w].lead = NoOne
    /\ SetVisit(w, [visit[w] EXCEPT !.status = "COMPLETED"])

DeleteVisit(w) ==
    /\ visit[w].status \in {"SCHEDULED", "CANCELLED"}
    /\ SetVisit(w, NoVisit)

VisitFallsDue(w) ==
    /\ Upcoming(w) /\ ~visit[w].due
    /\ SetVisit(w, [visit[w] EXCEPT !.due = TRUE])

-----------------------------------------------------------------------------
SomeKeys == SUBSET Contact \ {{}}

EntryStep ==
    \/ \E v \in Views, l \in Lead, keys \in SomeKeys, owner \in Owner \cup {NoOne} :
          \E override \in BOOLEAN : CreateLead(v, l, keys, owner, override)
    \/ \E v \in Views, imported \in SUBSET Lead, skip \in BOOLEAN :
          \E keys \in [imported -> SomeKeys], owners \in [imported -> Owner \cup {NoOne}] :
             CommitImport(v, imported, keys, owners, skip)
    \/ \E v \in Views, l \in Lead, keys \in SomeKeys : UpdateLead(v, l, keys)
    \/ \E l \in Lead : DeleteLead(l)
    \/ \E v \in Views, primary \in Lead, duplicates \in SUBSET Lead \ {{}} :
          ResolveDuplicates(v, primary, duplicates)

PipelineStep ==
    \/ \E l \in Lead, owner \in Owner \cup {NoOne} : AssignLead(l, owner)
    \/ \E chosen \in SUBSET Lead \ {{}}, owner \in Owner : BulkAssign(chosen, owner)
    \/ \E l \in Lead, target \in LeadStatus : TransitionStatus(l, target)
    \/ \E l \in Lead : QualifyLead(l) \/ ConvertLead(l)
    \/ \E l \in Lead, r \in Reason : MarkLeadLost(l, r)
    \/ \E r \in Reason : UpdateLostReason(r)

ActivityStep ==
    \E v \in Views, a \in Activity, l \in Lead :
        \/ \E follow_up, done \in BOOLEAN, due \in Dues :
              \/ CreateActivity(v, a, l, follow_up, due, done)
              \/ UpdateActivity(v, a, l, follow_up, due, done)
        \/ CompleteFollowUp(v, a, l)
        \/ DeleteActivity(v, a, l)

VisitStep ==
    \E w \in Visit :
        \/ \E l \in Lead \cup {NoOne} : CreateVisit(w, l)
        \/ \E l \in Lead \cup {NoOne}, reschedule \in BOOLEAN : UpdateVisit(w, l, reschedule)
        \/ \E target \in VisitStatus : ChangeVisitStatus(w, target)
        \/ CheckIn(w)
        \/ \E a \in Activity, due \in {0} \cup Dues : CheckOut(w, a, due)
        \/ CheckOutCustomer(w)
        \/ DeleteVisit(w)
        \/ VisitFallsDue(w)

(* One request after the other, or with reads that are out of date.        *)
Step == EntryStep \/ PipelineStep \/ ActivityStep \/ VisitStep
Next == Begin \/ Step

Spec == Init /\ [][Next]_vars

-----------------------------------------------------------------------------
(* Properties.                                                             *)

(* A lead is assigned to one user at a time, the one it names as owner:    *)
(* entry, import and every way to reassign keep the two tables together.   *)
OneAssignee ==
    \A l \in Known : assignees[l] = Assignment(lead[l].owner)

(* A lead's next follow-up is the earliest that is pending.  Handlers that *)
(* follow one another keep it so, with one exception: the check-out of a   *)
(* visit overwrites it.                                                    *)
VisitedTo(l) == \E w \in Visit : visit[w].lead = l /\ visit[w].status = "COMPLETED"
NextFollowUp ==
    \A l \in Known : ~VisitedTo(l) => lead[l].next = Earliest(activity, l)

(* A lead is converted once and then rests: no handler, however late it    *)
(* comes, reassigns it, edits it, moves it or deletes it, and a customer   *)
(* comes of no other lead.                                                 *)
ConvertedStep ==
    /\ \A l \in Lead : lead[l].status = "CONVERTED" =>
          /\ lead'[l].status = "CONVERTED"
          /\ lead'[l].owner = lead[l].owner
          /\ lead'[l].keys = lead[l].keys
    /\ \A l \in customer' : lead'[l].status = "CONVERTED"
ConvertedRest == [][ConvertedStep]_vars
=============================================================================
