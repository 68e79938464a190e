-------------------------- MODULE PropertyLifecycle --------------------------
(***************************************************************************)
(* services/property_lifecycle.py: what follows a confirmed booking - its  *)
(* agreement, the progress of construction, the final demand, the no-dues  *)
(* certificate, snags, possession and handover.                            *)
(*                                                                         *)
(* An action is one request, at its commit.  The case, the agreement, the  *)
(* possession and the handover are locked where they are written; all that *)
(* possession is conditional on is read plainly, from the read view v of   *)
(* the transaction.  The session does not flush by itself (db/session.py), *)
(* so a handler's queries see its own changes only where it flushed them.  *)
(*                                                                         *)
(* One booking's case.  What bookings, finance and documents contribute to *)
(* possession is a set of conditions that are met or not (External).       *)
(***************************************************************************)
EXTENDS Integers, FiniteSets

CONSTANTS
    External,   \* conditions that other services decide
    Progress,   \* of the construction updates, in order of their dates
    Snag,       \* identities for snags
    Override,   \* identities for override requests
    Document,   \* identities for handover documents
    Required,   \* those a handover asks for from the start
    None        \* SQL NULL

Finances == {"NO_OUTSTANDING", "INSTALLMENTS_CLOSED", "PAYMENTS_RECONCILED"}
Lasting == {"AGREEMENT_REGISTERED", "FINAL_DEMAND_ISSUED", "NO_DUES_ISSUED"}
Condition == External \cup Lasting \cup {"CONSTRUCTION_COMPLETE", "SNAGGING_CLOSED"}
Update == DOMAIN Progress

Stage == {"NONE", "AGREEMENT_PENDING", "CONSTRUCTION", "FINAL_DEMAND", "FINAL_PAYMENT", "NO_DUES",
          "SNAGGING", "POSSESSION_READINESS", "POSSESSION", "HANDOVER", "COMPLETED"}
AgreementStatus == {"NONE", "DRAFT", "ISSUED", "SIGNED", "REGISTERED"}
ProgressStatus == {"NONE", "DRAFT", "PUBLISHED"}
SnagStatus == {"NONE", "OPEN", "IN_PROGRESS", "RESOLVED", "ACCEPTED", "WAIVED"}
WorkflowStatus == {"NONE", "REQUESTED", "APPROVED", "REJECTED"}
PossessionStatus == {"NONE", "OFFERED", "SCHEDULED", "COMPLETED"}
HandoverStatus == {"NONE", "UNDER_REVIEW", "COMPLETED"}
DocumentStatus == {"NONE", "MISSING", "UPLOADED"}

VARIABLES
    external,    \* the conditions of other services that are met
    stage,       \* post_booking_cases.status
    demanded,    \* post_booking_cases.final_demand_letter_id is set
    agreement,   \* the agreement, and whether a file is stored for it
    update,      \* construction_updates.status
    no_dues,     \* the no-dues certificate was issued
    snag,        \* snag_items.status
    override,    \* possession_override_requests
    latest,      \* the override approved last
    possession,  \* the possession, and the override it relies on
    handover,    \* the handover, and whether the customer acknowledged it
    document,    \* handover_documents
    old          \* read views of requests that began some time ago

dossier == <<agreement, update, no_dues, snag>>
vouching == <<override, latest>>
ending == <<possession, handover, document>>
vars == <<external, stage, demanded, dossier, vouching, ending, old>>

Snapshot == [external |-> external, agreement |-> agreement, update |-> update,
             no_dues |-> no_dues, snag |-> snag, override |-> override,
             possession |-> possession, handover |-> handover, document |-> document]
Views == {Snapshot} \cup old

Exists == stage # "NONE"

TypeOK ==
    /\ external \subseteq External
    /\ stage \in Stage
    /\ demanded \in BOOLEAN /\ no_dues \in BOOLEAN
    /\ agreement \in [status: AgreementStatus, file: BOOLEAN]
    /\ update \in [Update -> ProgressStatus]
    /\ snag \in [Snag -> SnagStatus]
    /\ override \in [Override -> [status: WorkflowStatus, missing: SUBSET Condition]]
    /\ latest \in Override \cup {None}
    /\ possession \in [status: PossessionStatus, override: Override \cup {None}]
    /\ handover \in [status: HandoverStatus, acknowledged: BOOLEAN]
    /\ document \in [Document -> DocumentStatus]
    (* each part of a case comes after the one it rests on *)
    /\ latest # None => override[latest].status = "APPROVED"
    /\ handover.status # "NONE" => possession.status = "COMPLETED"
    /\ \A d \in Document : document[d] # "NONE" => handover.status # "NONE"

Init ==
    /\ external \in SUBSET External
    /\ stage = "NONE" /\ demanded = FALSE /\ no_dues = FALSE
    /\ agreement = [status |-> "NONE", file |-> FALSE]
    /\ update = [u \in Update |-> "NONE"]
    /\ snag = [s \in Snag |-> "NONE"]
    /\ override = [o \in Override |-> [status |-> "NONE", missing |-> {}]]
    /\ latest = None
    /\ possession = [status |-> "NONE", override |-> None]
    /\ handover = [status |-> "NONE", acknowledged |-> FALSE]
    /\ document = [d \in Document |-> "NONE"]
    /\ old = {}

(* A request begins, and lets others go first.                             *)
Begin ==
    /\ old' = {Snapshot}
    /\ UNCHANGED <<external, stage, demanded, dossier, vouching, ending>>

(* Bookings are cancelled, documents expire, dues arise and are paid.      *)
OthersDecide(c) ==
    /\ external' = IF c \in external THEN external \ {c} ELSE external \cup {c}
    /\ UNCHANGED <<stage, demanded, dossier, vouching, ending, old>>

-----------------------------------------------------------------------------
(* Readiness, and the stage kept with the case.                            *)

(* Of the updates that are published, the latest decides.                  *)
Built(updates) ==
    \E u \in Update :
        /\ updates[u] = "PUBLISHED" /\ Progress[u] >= 100
        /\ \A w \in Update : updates[w] = "PUBLISHED" => w <= u

(* The agreement is an object of the session, current where it is locked;  *)
(* so is the case with its final demand.                                   *)
Met(v, a, final) ==
    v.external
    \cup {c \in {"AGREEMENT_REGISTERED"} : a.status = "REGISTERED" /\ a.file}
    \cup {c \in {"CONSTRUCTION_COMPLETE"} : Built(v.update)}
    \cup {c \in {"FINAL_DEMAND_ISSUED"} : final}
    \cup {c \in {"NO_DUES_ISSUED"} : v.no_dues}
    \cup {c \in {"SNAGGING_CLOSED"} :
             \A s \in Snag : v.snag[s] \notin {"OPEN", "IN_PROGRESS", "RESOLVED"}}

Missing(v) == Condition \ Met(v, v.agreement, demanded)

FinanciallyReady(v) == Finances \cap External \subseteq v.external

(* _sync_stage, with p and h the possession and the handover it finds.     *)
SyncStage(v, a, final, p, h) ==
    stage' = CASE h.status = "COMPLETED" -> "COMPLETED"
               [] h.status # "COMPLETED" /\ p.status = "COMPLETED" -> "HANDOVER"
               [] p.status \in {"OFFERED", "SCHEDULED"} -> "POSSESSION"
               [] p.status = "NONE" /\ v.no_dues ->
                     IF Condition \subseteq Met(v, a, final) THEN "POSSESSION_READINESS" ELSE "SNAGGING"
               [] p.status = "NONE" /\ ~v.no_dues /\ final ->
                     IF FinanciallyReady(v) THEN "NO_DUES" ELSE "FINAL_PAYMENT"
               [] OTHER -> IF Built(v.update) THEN "FINAL_DEMAND"
                           ELSE IF v.agreement.status = "REGISTERED" THEN "CONSTRUCTION"
                           ELSE "AGREEMENT_PENDING"

(* What a query finds of a row that the session has locked and changed: it *)
(* is there when the read view has it.                                     *)
Found(seen, row) == IF seen.status = "NONE" THEN seen ELSE row

Sync(v) == SyncStage(v, v.agreement, demanded, v.possession, v.handover)

-----------------------------------------------------------------------------
(* Opening, the agreement and construction.                                *)

CreateCase ==
    /\ ~Exists
    /\ "BOOKING_CONFIRMED" \in External => "BOOKING_CONFIRMED" \in external
    /\ stage' = "AGREEMENT_PENDING"
    /\ UNCHANGED <<external, demanded, dossier, vouching, ending, old>>

CreateAgreement ==
    /\ Exists
    /\ agreement.status = "NONE"
    /\ agreement' = [status |-> "DRAFT", file |-> FALSE]
    /\ UNCHANGED <<external, stage, demanded, update, no_dues, snag, vouching, ending, old>>

UploadAgreement(v) ==
    /\ v.agreement.status # "NONE"
    /\ agreement' = [agreement EXCEPT !.file = TRUE]
    /\ UNCHANGED <<external, stage, demanded, update, no_dues, snag, vouching, ending, old>>

AgreementMoves == [DRAFT |-> "ISSUED", ISSUED |-> "SIGNED", SIGNED |-> "REGISTERED"]

TransitionAgreement(v, target) ==
    /\ agreement.status \in DOMAIN AgreementMoves
    /\ target = AgreementMoves[agreement.status]
    /\ target \in {"SIGNED", "REGISTERED"} => agreement.file
    /\ agreement' = [agreement EXCEPT !.status = target]
    /\ SyncStage(v, agreement', demanded, v.possession, v.handover)
    /\ UNCHANGED <<external, demanded, update, no_dues, snag, vouching, ending, old>>

CreateConstructionUpdate(u) ==
    /\ Exists
    /\ update[u] = "NONE"
    /\ update' = [update EXCEPT ![u] = "DRAFT"]
    /\ UNCHANGED <<external, stage, demanded, agreement, no_dues, snag, vouching, ending, old>>

PublishConstructionUpdate(v, u) ==
    /\ update[u] = "DRAFT"
    /\ update' = [update EXCEPT ![u] = "PUBLISHED"]
    /\ Sync(v)
    /\ UNCHANGED <<external, demanded, agreement, no_dues, snag, vouching, ending, old>>

-----------------------------------------------------------------------------
(* Final demand, no dues, snags and overrides.                             *)

IssueFinalDemand(v) ==
    /\ Exists /\ ~demanded
    /\ {"AGREEMENT_REGISTERED", "CONSTRUCTION_COMPLETE"} \cap Missing(v) = {}
    /\ demanded' = TRUE
    /\ SyncStage(v, v.agreement, TRUE, v.possession, v.handover)
    /\ UNCHANGED <<external, dossier, vouching, ending, old>>

IssueNoDues(v) ==
    /\ demanded
    /\ ~no_dues
    /\ FinanciallyReady(v)
    /\ {"AGREEMENT_REGISTERED", "KYC_VERIFIED"} \cap Missing(v) = {}
    /\ no_dues' = TRUE
    /\ SyncStage([v EXCEPT !.no_dues = TRUE], v.agreement, demanded, v.possession, v.handover)
    /\ UNCHANGED <<external, demanded, agreement, update, snag, vouching, ending, old>>

(* Snags are reported at any time, and without a lock on the case.         *)
CreateSnag(s) ==
    /\ Exists
    /\ snag[s] = "NONE"
    /\ snag' = [snag EXCEPT ![s] = "OPEN"]
    /\ UNCHANGED <<external, stage, demanded, agreement, update, no_dues, vouching, ending, old>>

SnagMoves == [OPEN |-> {"IN_PROGRESS", "WAIVED"}, IN_PROGRESS |-> {"RESOLVED", "WAIVED"},
              RESOLVED |-> {"ACCEPTED", "IN_PROGRESS"}]

DecideSnag(v, s, target) ==
    /\ snag[s] \in DOMAIN SnagMoves
    /\ target \in SnagMoves[snag[s]]
    /\ snag' = [snag EXCEPT ![s] = target]
    /\ Sync(v)
    /\ UNCHANGED <<external, demanded, agreement, update, no_dues, vouching, ending, old>>

RequestOverride(v, o) ==
    /\ Exists
    /\ override[o].status = "NONE"
    /\ Missing(v) # {}
    /\ \A p \in Override : v.override[p].status # "REQUESTED"
    /\ override' = [override EXCEPT ![o] = [status |-> "REQUESTED", missing |-> Missing(v)]]
    /\ UNCHANGED <<external, stage, demanded, dossier, latest, ending, old>>

DecideOverride(o, verdict) ==
    /\ override[o].status = "REQUESTED"
    /\ override' = [override EXCEPT ![o].status = verdict]
    /\ latest' = IF verdict = "APPROVED" THEN o ELSE latest
    /\ UNCHANGED <<external, stage, demanded, dossier, ending, old>>

-----------------------------------------------------------------------------
(* Possession and handover.                                                *)

(* mutant: an override that was asked for will do                          *)
Authorized_Requested(v) ==
    IF Missing(v) = {} THEN {None}
    ELSE {o \in Override : override[o].status # "NONE" /\ Missing(v) \subseteq override[o].missing}

(* The override possession goes ahead on: none, the one that covers all    *)
(* that is missing, or there is no way ahead.                              *)
Authorized(v) ==
    IF Missing(v) = {} THEN {None}
    ELSE {o \in Override : o = latest /\ Missing(v) \subseteq override[o].missing}

(* mutant: the new possession is not flushed before the stage is found     *)
OfferPossession_Unflushed(v, o) ==
    /\ Exists
    /\ o \in Authorized(v)
    /\ possession.status = "NONE"
    /\ possession' = [status |-> "OFFERED", override |-> o]
    /\ SyncStage(v, v.agreement, demanded, v.possession, v.handover)
    /\ UNCHANGED <<external, demanded, dossier, vouching, handover, document, old>>

OfferPossession(v, o) ==
    /\ Exists
    /\ o \in Authorized(v)
    /\ possession.status = "NONE"
    /\ possession' = [status |-> "OFFERED", override |-> o]
    /\ SyncStage(v, v.agreement, demanded, possession', v.handover)
    /\ UNCHANGED <<external, demanded, dossier, vouching, handover, document, old>>

MovePossession(v, o, from, to) ==
    /\ o \in Authorized(v)
    /\ possession.status = from
    /\ possession' = [status |-> to, override |-> o]
    /\ SyncStage(v, v.agreement, demanded, Found(v.possession, possession'), v.handover)
    /\ UNCHANGED <<external, demanded, dossier, vouching, handover, document, old>>

SchedulePossession(v, o) == MovePossession(v, o, "OFFERED", "SCHEDULED")
CompletePossession(v, o) == MovePossession(v, o, "SCHEDULED", "COMPLETED")

(* A unique index keeps a second handover of one possession out.           *)
StartHandover ==
    /\ possession.status = "COMPLETED"
    /\ handover.status = "NONE"
    /\ handover' = [status |-> "UNDER_REVIEW", acknowledged |-> FALSE]
    /\ document' = [d \in Document |-> IF d \in Required THEN "MISSING" ELSE "NONE"]
    /\ UNCHANGED <<external, stage, demanded, dossier, vouching, possession, old>>

(* A further document that is required, at any time.                       *)
AddHandoverDocument(v, d) ==
    /\ v.handover.status # "NONE"
    /\ document[d] = "NONE"
    /\ document' = [document EXCEPT ![d] = "MISSING"]
    /\ UNCHANGED <<external, stage, demanded, dossier, vouching, possession, handover, old>>

UploadHandoverDocument(v, d) ==
    /\ v.handover.status # "NONE"
    /\ document[d] # "NONE"
    /\ document' = [document EXCEPT ![d] = "UPLOADED"]
    /\ UNCHANGED <<external, stage, demanded, dossier, vouching, possession, handover, old>>

AcknowledgeHandover(v) ==
    /\ v.possession.status # "NONE"
    /\ handover.status = "UNDER_REVIEW"
    /\ \A d \in Document : v.document[d] # "MISSING"
    /\ handover' = [handover EXCEPT !.acknowledged = TRUE]
    /\ UNCHANGED <<external, stage, demanded, dossier, vouching, possession, document, old>>

(* The documents are not looked at again.                                  *)
CompleteHandover(v) ==
    /\ handover.status = "UNDER_REVIEW" /\ handover.acknowledged
    /\ handover' = [handover EXCEPT !.status = "COMPLETED"]
    /\ SyncStage(v, v.agreement, demanded, Found(v.possession, possession),
                 Found(v.handover, handover'))
    /\ UNCHANGED <<external, demanded, dossier, vouching, possession, document, old>>

-----------------------------------------------------------------------------
DossierStep ==
    \/ CreateCase \/ CreateAgreement
    \/ \E v \in Views : UploadAgreement(v) \/ IssueFinalDemand(v) \/ IssueNoDues(v)
    \/ \E v \in Views, target \in AgreementStatus : TransitionAgreement(v, target)
    \/ \E u \in Update : CreateConstructionUpdate(u)
    \/ \E v \in Views, u \in Update : PublishConstructionUpdate(v, u)
    \/ \E s \in Snag : CreateSnag(s)
    \/ \E v \in Views, s \in Snag, target \in SnagStatus : DecideSnag(v, s, target)

PossessionStep ==
    \/ \E v \in Views, o \in Override : RequestOverride(v, o)
    \/ \E o \in Override, verdict \in {"APPROVED", "REJECTED"} : DecideOverride(o, verdict)
    \/ \E v \in Views, o \in Override \cup {None} :
          OfferPossession(v, o) \/ SchedulePossession(v, o) \/ CompletePossession(v, o)

HandoverStep ==
    \/ StartHandover
    \/ \E v \in Views, d \in Document : AddHandoverDocument(v, d) \/ UploadHandoverDocument(v, d)
    \/ \E v \in Views : AcknowledgeHandover(v) \/ CompleteHandover(v)

(* One request after the other, or with reads that are out of date.        *)
Step == DossierStep \/ PossessionStep \/ HandoverStep \/ \E c \in External : OthersDecide(c)
Next == Begin \/ Step

Spec == Init /\ [][Next]_vars

-----------------------------------------------------------------------------
(* Properties.                                                             *)

(* Nobody is let in on a promise: of the conditions that stay met once     *)
(* they are, each is met, from the offer of possession on, or named in an  *)
(* override that was approved; and a no-dues certificate rests on a final  *)
(* demand and a registered agreement.  Of requests with reads of any age.  *)
PossessionVouched ==
    LET lasting == Met(Snapshot, agreement, demanded) \cap Lasting
    IN  /\ possession.override # None => override[possession.override].status = "APPROVED"
        /\ possession.status # "NONE" =>
              Lasting \subseteq lasting \cup (IF possession.override = None THEN {}
                                              ELSE override[possession.override].missing)
        /\ no_dues => {"AGREEMENT_REGISTERED", "FINAL_DEMAND_ISSUED"} \subseteq lasting

(* The stage a case is listed under tells whether possession was offered,  *)
(* completed, or the unit handed over, although it is computed from what   *)
(* was flushed.  Of requests that follow one another.                      *)
StageTells ==
    /\ stage = "COMPLETED" <=> handover.status = "COMPLETED"
    /\ stage = "HANDOVER" <=> possession.status = "COMPLETED" /\ handover.status # "COMPLETED"
    /\ stage = "POSSESSION" <=> possession.status \in {"OFFERED", "SCHEDULED"}
=============================================================================
