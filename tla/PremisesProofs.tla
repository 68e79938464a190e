--------------------------- MODULE PremisesProofs ---------------------------
(***************************************************************************)
(* What happens to premises once somebody takes them: the way of a sale to *)
(* possession, service requests, who occupies a property, and what rent is *)
(* owed and paid.  The three components share no rows.  Each is proved     *)
(* about for any values of its constants, so that it holds at every desk   *)
(* that has an instance of it.                                             *)
(***************************************************************************)
EXTENDS PropertyLifecycle, FiniteSetTheorems, Sequences, TLAPS

(***************************************************************************)
(* Possession is given on what was met or overridden: for any conditions,  *)
(* snags, updates and overrides, and requests whose reads are of any age.  *)
(***************************************************************************)
Registered(a) == a.status = "REGISTERED" /\ a.file

(* What is met for good once it is met.                                    *)
MetNow == {c \in {"AGREEMENT_REGISTERED"} : Registered(agreement)}
          \cup {c \in {"FINAL_DEMAND_ISSUED"} : demanded}
          \cup {c \in {"NO_DUES_ISSUED"} : no_dues}

Types ==
    /\ agreement \in [status: AgreementStatus, file: BOOLEAN]
    /\ override \in [Override -> [status: WorkflowStatus, missing: SUBSET Condition]]
    /\ latest \in Override \cup {None}
    /\ possession \in [status: PossessionStatus, override: Override \cup {None}]
    /\ demanded \in BOOLEAN /\ no_dues \in BOOLEAN
    /\ external \subseteq External

(* A view shows nothing as met that is not met now.                        *)
Faithful(v) ==
    /\ v.external \subseteq External
    /\ Registered(v.agreement) => Registered(agreement)
    /\ v.no_dues => no_dues

Excused(p) == IF p.override = None THEN {} ELSE override[p.override].missing

Vouched ==
    /\ latest # None => override[latest].status = "APPROVED"
    /\ possession.override # None => override[possession.override].status = "APPROVED"
    /\ possession.status # "NONE" => Lasting \subseteq MetNow \cup Excused(possession)
    /\ no_dues => {"AGREEMENT_REGISTERED", "FINAL_DEMAND_ISSUED"} \subseteq MetNow

Inv == Types /\ Vouched /\ \A v \in old : Faithful(v)

-----------------------------------------------------------------------------
LEMMA EveryViewFaithful == ASSUME Inv, NEW v \in Views PROVE Faithful(v)
  BY DEF Inv, Types, Views, Snapshot, Faithful

LEMMA LastingMet ==
    ASSUME External \cap Lasting = {}, NEW v, v.external \subseteq External, NEW a, NEW final,
           NEW c \in Lasting
    PROVE  c \in Met(v, a, final) <=> \/ c = "AGREEMENT_REGISTERED" /\ Registered(a)
                                      \/ c = "FINAL_DEMAND_ISSUED" /\ final
                                      \/ c = "NO_DUES_ISSUED" /\ v.no_dues
  BY DEF Met, Lasting, Registered

(* What a request finds met of it is met.                                  *)
LEMMA MetIsMet ==
    ASSUME External \cap Lasting = {}, Inv, NEW v \in Views
    PROVE  Lasting \ Missing(v) \subseteq MetNow
  <1>1. Faithful(v)
    BY EveryViewFaithful
  <1>2. Lasting \subseteq Condition
    BY DEF Lasting, Condition
  <1>3. ASSUME NEW c \in Lasting, c \notin Missing(v) PROVE c \in MetNow
    <2>1. c \in Met(v, v.agreement, demanded)
      BY <1>2, <1>3 DEF Missing
    <2>2. \/ c = "AGREEMENT_REGISTERED" /\ Registered(v.agreement)
          \/ c = "FINAL_DEMAND_ISSUED" /\ demanded
          \/ c = "NO_DUES_ISSUED" /\ v.no_dues
      BY <1>1, <2>1, LastingMet DEF Faithful
    <2> QED BY <1>1, <2>2 DEF MetNow, Faithful
  <1> QED BY <1>3

-----------------------------------------------------------------------------
(* Nothing that was met is undone.                                         *)
Kept ==
    /\ Registered(agreement) => Registered(agreement')
    /\ demanded => demanded'
    /\ no_dues => no_dues'

LEMMA DossierKept ==
    ASSUME Inv, [Next]_vars
    PROVE  /\ Kept
           /\ agreement' \in [status: AgreementStatus, file: BOOLEAN]
           /\ demanded' \in BOOLEAN /\ no_dues' \in BOOLEAN
           /\ external' \subseteq External
  <1> DEFINE Goal == /\ Kept
                     /\ agreement' \in [status: AgreementStatus, file: BOOLEAN]
                     /\ demanded' \in BOOLEAN /\ no_dues' \in BOOLEAN
                     /\ external' \subseteq External
  <1>0. Types
    BY DEF Inv
  <1>1. CASE UNCHANGED <<external, demanded, agreement, no_dues>>
    BY <1>0, <1>1 DEF Types, Kept
  <1>2. ASSUME CreateAgreement PROVE Goal
    BY <1>0, <1>2 DEF CreateAgreement, Types, Kept, Registered, AgreementStatus
  <1>3. ASSUME NEW v \in Views, UploadAgreement(v) PROVE Goal
    <2>1. [agreement EXCEPT !.file = TRUE] \in [status: AgreementStatus, file: BOOLEAN]
          /\ (Registered(agreement) => Registered([agreement EXCEPT !.file = TRUE]))
      BY <1>0 DEF Types, Registered
    <2> QED BY <1>0, <1>3, <2>1 DEF UploadAgreement, Types, Kept
  <1>4. ASSUME NEW v \in Views, NEW target \in AgreementStatus, TransitionAgreement(v, target)
        PROVE  Goal
    <2>1. [agreement EXCEPT !.status = target] \in [status: AgreementStatus, file: BOOLEAN]
      BY <1>0 DEF Types
    <2>2. agreement.status # "REGISTERED"
      BY <1>4 DEF TransitionAgreement, AgreementMoves
    <2> QED BY <1>0, <1>4, <2>1, <2>2 DEF TransitionAgreement, Types, Kept, Registered
  <1>5. ASSUME NEW v \in Views, IssueFinalDemand(v) PROVE Goal
    BY <1>0, <1>5 DEF IssueFinalDemand, Types, Kept, dossier
  <1>6. ASSUME NEW v \in Views, IssueNoDues(v) PROVE Goal
    BY <1>0, <1>6 DEF IssueNoDues, Types, Kept
  <1>7. ASSUME NEW c \in External, OthersDecide(c) PROVE Goal
    BY <1>0, <1>7 DEF OthersDecide, Types, Kept, dossier
  <1>8. CASE UNCHANGED vars
    BY <1>1, <1>8 DEF vars, dossier
  <1>9. CASE Begin
    BY <1>1, <1>9 DEF Begin, dossier
  <1>10. ASSUME PossessionStep \/ HandoverStep PROVE Goal
    BY <1>1, <1>10 DEF PossessionStep, HandoverStep, RequestOverride, DecideOverride,
       OfferPossession, MovePossession, SchedulePossession, CompletePossession, StartHandover,
       AddHandoverDocument, UploadHandoverDocument, AcknowledgeHandover, CompleteHandover, dossier
  <1>11. ASSUME CreateCase PROVE Goal
    BY <1>1, <1>11 DEF CreateCase, dossier
  <1>12. ASSUME NEW u \in Update, CreateConstructionUpdate(u) PROVE Goal
    BY <1>1, <1>12 DEF CreateConstructionUpdate
  <1>13. ASSUME NEW v \in Views, NEW u \in Update, PublishConstructionUpdate(v, u) PROVE Goal
    BY <1>1, <1>13 DEF PublishConstructionUpdate
  <1>14. ASSUME NEW s \in Snag, CreateSnag(s) PROVE Goal
    BY <1>1, <1>14 DEF CreateSnag
  <1>15. ASSUME NEW v \in Views, NEW s \in Snag, NEW target \in SnagStatus,
                DecideSnag(v, s, target)
         PROVE  Goal
    BY <1>1, <1>15 DEF DecideSnag
  <1> QED BY <1>2, <1>3, <1>4, <1>5, <1>6, <1>7, <1>8, <1>9, <1>10, <1>11, <1>12, <1>13, <1>14,
             <1>15 DEF Next, Step, DossierStep

LEMMA MetStays == ASSUME Kept PROVE MetNow \subseteq MetNow'
  BY DEF Kept, MetNow

LEMMA ViewsStayFaithful == ASSUME Inv, [Next]_vars PROVE \A v \in old' : Faithful(v)'
  <1>1. \A v \in old' : Faithful(v)
    <2>1. old' = old \/ old' = {Snapshot}
      BY DEF Next, Step, vars, Begin, DossierStep, PossessionStep, HandoverStep, CreateCase,
         CreateAgreement, UploadAgreement, IssueFinalDemand, IssueNoDues, TransitionAgreement,
         CreateConstructionUpdate, PublishConstructionUpdate, CreateSnag, DecideSnag,
         RequestOverride, DecideOverride, OfferPossession, MovePossession, SchedulePossession,
         CompletePossession, StartHandover, AddHandoverDocument, UploadHandoverDocument,
         AcknowledgeHandover, CompleteHandover, OthersDecide
    <2> QED BY <2>1, EveryViewFaithful DEF Inv, Views
  <1> QED BY <1>1, DossierKept DEF Faithful, Kept

-----------------------------------------------------------------------------
(* Overrides.                                                              *)

Approved(o) == override[o].status = "APPROVED"

(* An override that was approved stays as it is.                           *)
OverridesKept ==
    /\ override' \in [Override -> [status: WorkflowStatus, missing: SUBSET Condition]]
    /\ \A o \in Override : Approved(o) => override'[o] = override[o]
    /\ latest' \in Override \cup {None}
    /\ \/ latest' = latest
       \/ latest' \in Override /\ override'[latest'].status = "APPROVED"

LEMMA OverridesStep == ASSUME Inv, [Next]_vars PROVE OverridesKept
  <1>0. Types
    BY DEF Inv
  <1>1. CASE UNCHANGED vouching
    BY <1>0, <1>1 DEF OverridesKept, vouching, Types, Approved
  <1>2. ASSUME NEW v \in Views, NEW o \in Override, RequestOverride(v, o) PROVE OverridesKept
    <2> DEFINE row == [status |-> "REQUESTED", missing |-> Missing(v)]
    <2>1. row \in [status: WorkflowStatus, missing: SUBSET Condition]
      BY DEF WorkflowStatus, Missing
    <2>2. override' = [override EXCEPT ![o] = row] /\ latest' = latest /\ ~Approved(o)
      BY <1>2 DEF RequestOverride, Approved
    <2> HIDE DEF row
    <2>3. override' \in [Override -> [status: WorkflowStatus, missing: SUBSET Condition]]
      BY <1>0, <2>1, <2>2 DEF Types
    <2>4. \A p \in Override : Approved(p) => override'[p] = override[p]
      BY <1>0, <2>2 DEF Types
    <2> QED BY <1>0, <2>2, <2>3, <2>4 DEF OverridesKept, Types
  <1>3. ASSUME NEW o \in Override, NEW verdict \in {"APPROVED", "REJECTED"},
               DecideOverride(o, verdict)
        PROVE  OverridesKept
    <2> DEFINE row == [override[o] EXCEPT !.status = verdict]
    <2>1. row \in [status: WorkflowStatus, missing: SUBSET Condition] /\ row.status = verdict
      BY <1>0 DEF Types, WorkflowStatus
    <2>2. /\ override' = [override EXCEPT ![o] = row] /\ ~Approved(o)
          /\ latest' = IF verdict = "APPROVED" THEN o ELSE latest
      BY <1>3 DEF DecideOverride, Approved
    <2> HIDE DEF row
    <2>3. override' \in [Override -> [status: WorkflowStatus, missing: SUBSET Condition]]
      BY <1>0, <2>1, <2>2 DEF Types
    <2>4. \A p \in Override : Approved(p) => override'[p] = override[p]
      BY <1>0, <2>2 DEF Types
    <2>5. verdict = "APPROVED" => latest' \in Override /\ override'[latest'].status = "APPROVED"
      BY <1>0, <2>1, <2>2 DEF Types
    <2> QED BY <1>0, <2>2, <2>3, <2>4, <2>5 DEF OverridesKept, Types
  <1>4. ASSUME Next, ~(\E v \in Views, o \in Override : RequestOverride(v, o)),
               ~(\E o \in Override, verdict \in {"APPROVED", "REJECTED"} : DecideOverride(o, verdict))
        PROVE  UNCHANGED vouching
    BY <1>4 DEF Next, Step, Begin, DossierStep, PossessionStep, HandoverStep, CreateCase,
       CreateAgreement, UploadAgreement, IssueFinalDemand, IssueNoDues, TransitionAgreement,
       CreateConstructionUpdate, PublishConstructionUpdate, CreateSnag, DecideSnag,
       OfferPossession, MovePossession, SchedulePossession,
       CompletePossession, StartHandover, AddHandoverDocument, UploadHandoverDocument,
       AcknowledgeHandover, CompleteHandover, OthersDecide
  <1> QED BY <1>1, <1>2, <1>3, <1>4 DEF vars

-----------------------------------------------------------------------------
(* Possession.                                                             *)

(* Possession stays as it is, or moves on what was met or approved.        *)
PossessionCourse ==
    \/ possession' = possession
    \/ /\ UNCHANGED <<agreement, demanded, no_dues, override, latest>>
       /\ \E v \in Views, o \in Override \cup {None}, s \in {"OFFERED", "SCHEDULED", "COMPLETED"} :
             o \in Authorized(v) /\ possession' = [status |-> s, override |-> o]

LEMMA PossessionSteps == ASSUME [Next]_vars PROVE PossessionCourse
  <1>1. ASSUME NEW v \in Views, NEW o \in Override \cup {None},
               OfferPossession(v, o) \/ SchedulePossession(v, o) \/ CompletePossession(v, o)
        PROVE  PossessionCourse
    BY <1>1 DEF PossessionCourse, OfferPossession, SchedulePossession, CompletePossession,
                MovePossession, dossier, vouching
  <1>2. ASSUME Next, ~(\E v \in Views, o \in Override \cup {None} :
                          OfferPossession(v, o) \/ SchedulePossession(v, o) \/ CompletePossession(v, o))
        PROVE  possession' = possession
    BY <1>2 DEF Next, Step, Begin, DossierStep, PossessionStep, HandoverStep, CreateCase,
       CreateAgreement, UploadAgreement, IssueFinalDemand, IssueNoDues, TransitionAgreement,
       CreateConstructionUpdate, PublishConstructionUpdate, CreateSnag, DecideSnag,
       RequestOverride, DecideOverride, StartHandover, AddHandoverDocument,
       UploadHandoverDocument, AcknowledgeHandover, CompleteHandover, OthersDecide, ending
  <1> QED BY <1>1, <1>2 DEF PossessionCourse, vars, ending

LEMMA VouchedStep ==
    ASSUME None \notin Override, External \cap Lasting = {}, Inv, [Next]_vars
    PROVE  /\ possession' \in [status: PossessionStatus, override: Override \cup {None}]
           /\ Vouched'
  <1>0. Types /\ Vouched /\ OverridesKept /\ MetNow \subseteq MetNow'
    BY DossierKept, OverridesStep, MetStays DEF Inv
  <1>1. latest' # None => override'[latest'].status = "APPROVED"
    BY <1>0 DEF Vouched, OverridesKept, Types, Approved
  <1>2. CASE possession' = possession
    <2>1. /\ possession.override # None => override'[possession.override] = override[possession.override]
      BY <1>0 DEF Vouched, OverridesKept, Types, Approved
    <2>2. possession' \in [status: PossessionStatus, override: Override \cup {None}]
      BY <1>0, <1>2 DEF Types
    <2>3. Excused(possession)' = Excused(possession)
      BY <1>2, <2>1 DEF Excused
    <2>4. possession'.status # "NONE" => Lasting \subseteq (MetNow \cup Excused(possession))'
      BY <1>0, <1>2, <2>3 DEF Vouched
    <2>5. possession'.override # None => override'[possession'.override].status = "APPROVED"
      BY <1>0, <1>2, <2>1 DEF Vouched
    <2>6. no_dues' => {"AGREEMENT_REGISTERED", "FINAL_DEMAND_ISSUED"} \subseteq MetNow'
      <3>1. CASE no_dues' = no_dues
        BY <1>0, <3>1 DEF Vouched
      <3>2. ASSUME NEW v \in Views, IssueNoDues(v)
            PROVE  {"AGREEMENT_REGISTERED", "FINAL_DEMAND_ISSUED"} \subseteq MetNow
        <4>1. "AGREEMENT_REGISTERED" \in Lasting \ Missing(v) /\ demanded
          BY <3>2 DEF IssueNoDues, Lasting
        <4> QED BY <4>1, MetIsMet DEF MetNow
      <3>3. ASSUME Next, ~(\E v \in Views : IssueNoDues(v)) PROVE no_dues' = no_dues
        BY <3>3 DEF Next, Step, Begin, DossierStep, PossessionStep, HandoverStep, CreateCase,
           CreateAgreement, UploadAgreement, IssueFinalDemand, TransitionAgreement,
           CreateConstructionUpdate, PublishConstructionUpdate, CreateSnag, DecideSnag,
           RequestOverride, DecideOverride, OfferPossession, MovePossession,
           SchedulePossession, CompletePossession, StartHandover, AddHandoverDocument,
           UploadHandoverDocument, AcknowledgeHandover, CompleteHandover, OthersDecide, dossier
      <3> QED BY <1>0, <3>1, <3>2, <3>3 DEF vars, dossier
    <2> QED BY <1>1, <2>2, <2>4, <2>5, <2>6 DEF Vouched
  <1>3. ASSUME UNCHANGED <<agreement, demanded, no_dues, override, latest>>,
               NEW v \in Views, NEW o \in Override \cup {None},
               NEW s \in {"OFFERED", "SCHEDULED", "COMPLETED"},
               o \in Authorized(v), possession' = [status |-> s, override |-> o]
        PROVE  /\ possession' \in [status: PossessionStatus, override: Override \cup {None}]
               /\ Vouched'
    <2>1. possession' \in [status: PossessionStatus, override: Override \cup {None}]
          /\ possession'.override = o
      BY <1>3 DEF PossessionStatus
    <2>2. o # None => o = latest /\ Missing(v) \subseteq override[o].missing
      BY <1>3 DEF Authorized
    <2>3. o = None => Missing(v) = {}
      BY <1>3 DEF Authorized
    <2>4. Lasting \subseteq MetNow \cup (IF o = None THEN {} ELSE override[o].missing)
      BY <2>2, <2>3, MetIsMet
    <2>5. MetNow' = MetNow /\ Excused(possession)' = IF o = None THEN {} ELSE override[o].missing
      BY <1>3, <2>1 DEF MetNow, Excused
    <2>6. o # None => override[o].status = "APPROVED"
      BY <1>0, <2>2 DEF Vouched
    <2> QED BY <1>0, <1>1, <1>3, <2>1, <2>4, <2>5, <2>6 DEF Vouched
  <1> QED BY <1>2, <1>3, PossessionSteps DEF PossessionCourse

LEMMA InvStart == Init => Inv
  <1> SUFFICES ASSUME Init PROVE Inv
    OBVIOUS
  <1>1. agreement \in [status: AgreementStatus, file: BOOLEAN]
    BY DEF Init, AgreementStatus
  <1>2. override \in [Override -> [status: WorkflowStatus, missing: SUBSET Condition]]
    BY DEF Init, WorkflowStatus
  <1>3. possession \in [status: PossessionStatus, override: Override \cup {None}]
    BY DEF Init, PossessionStatus
  <1>4. Types
    BY <1>1, <1>2, <1>3 DEF Init, Types
  <1>5. Vouched
    BY DEF Init, Vouched
  <1>6. old = {}
    BY DEF Init
  <1> QED BY <1>4, <1>5, <1>6 DEF Inv

LEMMA InvStep ==
    ASSUME None \notin Override, External \cap Lasting = {}, Inv, [Next]_vars PROVE Inv'
  BY DossierKept, OverridesStep, VouchedStep, ViewsStayFaithful DEF Inv, Types, OverridesKept

LEMMA InvVouches == ASSUME External \cap Lasting = {}, Inv PROVE PossessionVouched
  <1>1. Met(Snapshot, agreement, demanded) \cap Lasting = MetNow
    <2>1. Snapshot.external \subseteq External /\ Snapshot.no_dues = no_dues
      BY DEF Snapshot, Inv, Types
    <2>2. MetNow \subseteq Lasting
      BY DEF MetNow, Lasting
    <2> QED BY <2>1, <2>2, LastingMet DEF MetNow
  <1> QED BY <1>1 DEF Inv, Vouched, Excused, PossessionVouched

(* Possession is offered, scheduled and completed only on what is met for  *)
(* good or was named in an override that was approved, whatever the age of *)
(* what the request read (_authorized_readiness); and a certificate of     *)
(* no dues rests on a registered agreement and a final demand.             *)
THEOREM PossessionCorrect ==
    ASSUME None \notin Override, External \cap Lasting = {}
    PROVE  Spec => []PossessionVouched
  BY InvStart, InvStep, InvVouches, PTL DEF Spec

-----------------------------------------------------------------------------
-----------------------------------------------------------------------------
(* The types of a case.  Possession that is completed stays so, and a      *)
(* handover that was started too, which is all old reads have to tell.     *)
CaseRows ==
    /\ stage \in Stage
    /\ update \in [Update -> ProgressStatus] /\ snag \in [Snag -> SnagStatus]
    /\ handover \in [status: HandoverStatus, acknowledged: BOOLEAN]
    /\ document \in [Document -> DocumentStatus]
HandedOver ==
    /\ handover.status # "NONE" => possession.status = "COMPLETED"
    /\ \A d \in Document : document[d] # "NONE" => handover.status # "NONE"
    /\ \A v \in old : v.handover.status # "NONE" => handover.status # "NONE"
CaseInv == Inv /\ CaseRows /\ HandedOver

LEMMA StageFound ==
    ASSUME NEW v, NEW a, NEW final, NEW p, NEW h, SyncStage(v, a, final, p, h)
    PROVE  stage' \in Stage
  BY DEF SyncStage, Stage

LEMMA DossierRows == ASSUME CaseRows, DossierStep PROVE CaseRows' /\ UNCHANGED <<ending, old>>
  <1>1. ASSUME CreateCase \/ CreateAgreement PROVE CaseRows' /\ UNCHANGED <<ending, old>>
    BY <1>1 DEF CaseRows, CreateCase, CreateAgreement, Stage, vouching, ending, dossier
  <1>2. ASSUME NEW v, UploadAgreement(v) \/ IssueFinalDemand(v) \/ IssueNoDues(v)
        PROVE  CaseRows' /\ UNCHANGED <<ending, old>>
    BY <1>2, StageFound
       DEF CaseRows, UploadAgreement, IssueFinalDemand, IssueNoDues, vouching, ending, dossier
  <1>3. ASSUME NEW v, NEW target, TransitionAgreement(v, target)
        PROVE  CaseRows' /\ UNCHANGED <<ending, old>>
    BY <1>3, StageFound DEF CaseRows, TransitionAgreement, vouching, ending
  <1>4. ASSUME NEW u \in Update,
               CreateConstructionUpdate(u) \/ \E v \in Views : PublishConstructionUpdate(v, u)
        PROVE  CaseRows' /\ UNCHANGED <<ending, old>>
    <2>1. stage' \in Stage
      BY <1>4, StageFound DEF CaseRows, CreateConstructionUpdate, PublishConstructionUpdate, Sync
    <2>2. update' \in [Update -> ProgressStatus]
      BY <1>4 DEF CaseRows, CreateConstructionUpdate, PublishConstructionUpdate, ProgressStatus
    <2> QED BY <1>4, <2>1, <2>2
            DEF CaseRows, CreateConstructionUpdate, PublishConstructionUpdate, vouching, ending
  <1>5. ASSUME NEW s \in Snag,
               CreateSnag(s) \/ \E v \in Views, target \in SnagStatus : DecideSnag(v, s, target)
        PROVE  CaseRows' /\ UNCHANGED <<ending, old>>
    <2>1. stage' \in Stage
      BY <1>5, StageFound DEF CaseRows, CreateSnag, DecideSnag, Sync
    <2>2. snag' \in [Snag -> SnagStatus]
      BY <1>5 DEF CaseRows, CreateSnag, DecideSnag, SnagStatus
    <2> QED BY <1>5, <2>1, <2>2 DEF CaseRows, CreateSnag, DecideSnag, vouching, ending
  <1> QED BY <1>1, <1>2, <1>3, <1>4, <1>5 DEF DossierStep

LEMMA PossessionRows ==
    ASSUME CaseRows, PossessionStep
    PROVE  /\ CaseRows' /\ UNCHANGED <<handover, document, old>>
           /\ possession.status = "COMPLETED" => possession'.status = "COMPLETED"
  <1> DEFINE Goal == /\ CaseRows' /\ UNCHANGED <<handover, document, old>>
                     /\ possession.status = "COMPLETED" => possession'.status = "COMPLETED"
  <1>1. ASSUME NEW o, \/ \E v \in Views : RequestOverride(v, o)
                      \/ \E verdict \in {"APPROVED", "REJECTED"} : DecideOverride(o, verdict)
        PROVE  Goal
    BY <1>1 DEF CaseRows, RequestOverride, DecideOverride, dossier, ending
  <1>2. ASSUME NEW v, NEW o, OfferPossession(v, o) PROVE Goal
    BY <1>2, StageFound DEF CaseRows, OfferPossession, dossier
  <1>3. ASSUME NEW v, NEW o, NEW from, NEW to, from # "COMPLETED", MovePossession(v, o, from, to)
        PROVE  Goal
    BY <1>3, StageFound DEF CaseRows, MovePossession, dossier
  <1> HIDE DEF Goal
  <1>4. Goal
    BY <1>1, <1>2, <1>3 DEF PossessionStep, SchedulePossession, CompletePossession
  <1> QED BY <1>4 DEF Goal

LEMMA HandoverSeen ==
    ASSUME HandedOver, NEW v \in Views, v.handover.status # "NONE"
    PROVE  handover.status # "NONE"
  BY DEF HandedOver, Views, Snapshot

LEMMA HandoverRows ==
    ASSUME CaseRows, HandedOver, HandoverStep
    PROVE  CaseRows' /\ HandedOver' /\ UNCHANGED <<possession, old>>
  <1>1. ASSUME StartHandover PROVE CaseRows' /\ HandedOver' /\ UNCHANGED <<possession, old>>
    <2>1. /\ handover' \in [status: HandoverStatus, acknowledged: BOOLEAN]
          /\ handover'.status = "UNDER_REVIEW"
      BY <1>1 DEF StartHandover, HandoverStatus
    <2>2. document' \in [Document -> DocumentStatus]
      BY <1>1 DEF StartHandover, DocumentStatus
    <2> QED BY <1>1, <2>1, <2>2 DEF CaseRows, HandedOver, StartHandover, dossier
  <1>2. ASSUME NEW v \in Views, NEW d \in Document,
               AddHandoverDocument(v, d) \/ UploadHandoverDocument(v, d)
        PROVE  CaseRows' /\ HandedOver' /\ UNCHANGED <<possession, old>>
    <2>1. handover.status # "NONE"
      BY <1>2, HandoverSeen DEF AddHandoverDocument, UploadHandoverDocument
    <2>2. document' \in [Document -> DocumentStatus]
      BY <1>2 DEF CaseRows, AddHandoverDocument, UploadHandoverDocument, DocumentStatus
    <2> QED BY <1>2, <2>1, <2>2
            DEF CaseRows, HandedOver, AddHandoverDocument, UploadHandoverDocument, dossier
  <1>3. ASSUME NEW v, AcknowledgeHandover(v) \/ CompleteHandover(v)
        PROVE  CaseRows' /\ HandedOver' /\ UNCHANGED <<possession, old>>
    <2>1. stage' \in Stage
      BY <1>3, StageFound DEF CaseRows, AcknowledgeHandover, CompleteHandover
    <2>2. /\ handover' \in [status: HandoverStatus, acknowledged: BOOLEAN]
          /\ handover.status # "NONE" /\ handover'.status # "NONE"
      BY <1>3 DEF CaseRows, AcknowledgeHandover, CompleteHandover, HandoverStatus
    <2> QED BY <1>3, <2>1, <2>2
            DEF CaseRows, HandedOver, AcknowledgeHandover, CompleteHandover, dossier
  <1> QED BY <1>1, <1>2, <1>3 DEF HandoverStep

LEMMA CaseStart == ASSUME Init PROVE CaseInv
  <1>1. CaseRows
    BY DEF Init, CaseRows, Stage, ProgressStatus, SnagStatus, HandoverStatus, DocumentStatus
  <1>2. HandedOver
    BY DEF Init, HandedOver
  <1> QED BY <1>1, <1>2, InvStart DEF CaseInv

LEMMA CaseStep ==
    ASSUME None \notin Override, External \cap Lasting = {}, CaseInv, [Next]_vars
    PROVE  CaseInv'
  <1>0. Inv' /\ CaseRows /\ HandedOver
    BY InvStep DEF CaseInv
  <1>1. ASSUME DossierStep PROVE CaseRows' /\ HandedOver'
    BY <1>0, <1>1, DossierRows DEF HandedOver, ending
  <1>2. ASSUME PossessionStep PROVE CaseRows' /\ HandedOver'
    BY <1>0, <1>2, PossessionRows DEF HandedOver
  <1>3. ASSUME HandoverStep PROVE CaseRows' /\ HandedOver'
    BY <1>0, <1>3, HandoverRows
  <1>4. ASSUME NEW c, OthersDecide(c) PROVE CaseRows' /\ HandedOver'
    BY <1>0, <1>4 DEF CaseRows, HandedOver, OthersDecide, dossier, ending
  <1>5. ASSUME Begin PROVE CaseRows' /\ HandedOver'
    BY <1>0, <1>5 DEF CaseRows, HandedOver, Begin, Snapshot, dossier, ending
  <1>6. ASSUME UNCHANGED vars PROVE CaseRows' /\ HandedOver'
    BY <1>0, <1>6 DEF CaseRows, HandedOver, vars, dossier, ending
  <1> QED BY <1>0, <1>1, <1>2, <1>3, <1>4, <1>5, <1>6 DEF CaseInv, Next, Step

LEMMA CaseTyped == ASSUME CaseInv PROVE TypeOK
  BY DEF CaseInv, Inv, Types, Vouched, CaseRows, HandedOver, TypeOK

(* A case is of its type, each part of it resting on the one before,       *)
(* whatever the age of what requests read.                                 *)
THEOREM CasesCorrect ==
    ASSUME None \notin Override, External \cap Lasting = {}
    PROVE  Spec => []TypeOK
  BY CaseStart, CaseStep, CaseTyped, PTL DEF Spec

-----------------------------------------------------------------------------
(***************************************************************************)
(* The stage of a case, by requests that follow one another.               *)
(***************************************************************************)
Tells(s, p, h) ==
    /\ s = "COMPLETED" <=> h.status = "COMPLETED"
    /\ s = "HANDOVER" <=> p.status = "COMPLETED" /\ h.status # "COMPLETED"
    /\ s = "POSSESSION" <=> p.status \in {"OFFERED", "SCHEDULED"}

EndingRows(p, h) ==
    /\ p \in [status: PossessionStatus, override: Override \cup {None}]
    /\ h \in [status: HandoverStatus, acknowledged: BOOLEAN]
    /\ h.status # "NONE" => p.status = "COMPLETED"

StageInv == old = {} /\ EndingRows(possession, handover) /\ Tells(stage, possession, handover)

LEMMA SyncTells ==
    ASSUME NEW v, NEW a, NEW final, NEW p, NEW h, EndingRows(p, h), SyncStage(v, a, final, p, h)
    PROVE  Tells(stage', p, h)
  <1>1. /\ p.status \in PossessionStatus /\ h.status \in HandoverStatus
        /\ h.status # "NONE" => p.status = "COMPLETED"
    BY DEF EndingRows
  <1>2. CASE h.status = "COMPLETED"
    BY <1>1, <1>2 DEF SyncStage, Tells
  <1>3. CASE h.status # "COMPLETED" /\ p.status = "COMPLETED"
    BY <1>1, <1>3 DEF SyncStage, Tells
  <1>4. CASE p.status \in {"OFFERED", "SCHEDULED"}
    BY <1>1, <1>4 DEF SyncStage, Tells, HandoverStatus
  <1>5. CASE p.status = "NONE"
    <2>1. h.status = "NONE"
      BY <1>1, <1>5
    <2>2. CASE v.no_dues
      BY <1>5, <2>1, <2>2 DEF SyncStage, Tells
    <2>3. CASE ~v.no_dues /\ final
      BY <1>5, <2>1, <2>3 DEF SyncStage, Tells
    <2>4. CASE ~v.no_dues /\ ~final
      BY <1>5, <2>1, <2>4 DEF SyncStage, Tells
    <2> QED BY <2>2, <2>3, <2>4
  <1> QED BY <1>1, <1>2, <1>3, <1>4, <1>5 DEF PossessionStatus

LEMMA EndingKept ==
    ASSUME StageInv, UNCHANGED <<possession, handover, old>>,
           stage' = stage \/ \E v \in Views : \E a, final : SyncStage(v, a, final, possession, handover)
    PROVE  StageInv'
  BY SyncTells DEF StageInv, Tells, EndingRows

LEMMA SerialView ==
    ASSUME StageInv, NEW v \in Views
    PROVE  v.possession = possession /\ v.handover = handover
  BY DEF StageInv, Views, Snapshot

LEMMA DossierTells == ASSUME StageInv, DossierStep PROVE StageInv'
  <1>1. CASE CreateCase
    BY <1>1 DEF CreateCase, Exists, StageInv, Tells, EndingRows, PossessionStatus, ending
  <1>2. CASE CreateAgreement
    BY <1>2, EndingKept DEF CreateAgreement, ending
  <1>3. ASSUME NEW v \in Views, UploadAgreement(v) PROVE StageInv'
    BY <1>3, EndingKept DEF UploadAgreement, ending
  <1>4. ASSUME NEW v \in Views, IssueFinalDemand(v) PROVE StageInv'
    <2>1. SyncStage(v, v.agreement, TRUE, possession, handover)
      BY <1>4, SerialView DEF IssueFinalDemand
    <2> QED BY <1>4, <2>1, EndingKept DEF IssueFinalDemand, ending
  <1>5. ASSUME NEW v \in Views, IssueNoDues(v) PROVE StageInv'
    <2>1. /\ SyncStage([v EXCEPT !.no_dues = TRUE], v.agreement, demanded, possession, handover)
          /\ UNCHANGED <<possession, handover, old>>
      BY <1>5, SerialView DEF IssueNoDues, ending
    <2>2. Tells(stage', possession, handover)
      BY <2>1, SyncTells DEF StageInv
    <2> QED BY <2>1, <2>2 DEF StageInv, Tells, EndingRows
  <1>6. ASSUME NEW v \in Views, NEW target \in AgreementStatus, TransitionAgreement(v, target)
        PROVE  StageInv'
    <2>1. SyncStage(v, agreement', demanded, possession, handover)
      BY <1>6, SerialView DEF TransitionAgreement
    <2> QED BY <1>6, <2>1, EndingKept DEF TransitionAgreement, ending
  <1>7. ASSUME NEW u \in Update, CreateConstructionUpdate(u) PROVE StageInv'
    BY <1>7, EndingKept DEF CreateConstructionUpdate, ending
  <1>8. ASSUME NEW v \in Views, NEW u \in Update, PublishConstructionUpdate(v, u) PROVE StageInv'
    <2>1. SyncStage(v, v.agreement, demanded, possession, handover)
      BY <1>8, SerialView DEF PublishConstructionUpdate, Sync
    <2> QED BY <1>8, <2>1, EndingKept DEF PublishConstructionUpdate, ending
  <1>9. ASSUME NEW s \in Snag, CreateSnag(s) PROVE StageInv'
    BY <1>9, EndingKept DEF CreateSnag, ending
  <1>10. ASSUME NEW v \in Views, NEW s \in Snag, NEW target \in SnagStatus, DecideSnag(v, s, target)
         PROVE  StageInv'
    <2>1. SyncStage(v, v.agreement, demanded, possession, handover)
      BY <1>10, SerialView DEF DecideSnag, Sync
    <2> QED BY <1>10, <2>1, EndingKept DEF DecideSnag, ending
  <1> QED BY <1>1, <1>2, <1>3, <1>4, <1>5, <1>6, <1>7, <1>8, <1>9, <1>10 DEF DossierStep

LEMMA PossessionTells == ASSUME StageInv, PossessionStep PROVE StageInv'
  <1>0. EndingRows(possession, handover) /\ old = {}
    BY DEF StageInv
  <1>1. ASSUME NEW v \in Views, NEW o \in Override, RequestOverride(v, o) PROVE StageInv'
    BY <1>1, EndingKept DEF RequestOverride, ending
  <1>2. ASSUME NEW o \in Override, NEW verdict, DecideOverride(o, verdict) PROVE StageInv'
    BY <1>2, EndingKept DEF DecideOverride, ending
  <1>3. ASSUME NEW v \in Views, NEW o \in Override \cup {None}, NEW status \in PossessionStatus,
               possession' = [status |-> status, override |-> o], possession.status # "COMPLETED",
               SyncStage(v, v.agreement, demanded, possession', handover), UNCHANGED <<handover, old>>
        PROVE  StageInv'
    <2>1. EndingRows(possession', handover)
      BY <1>0, <1>3 DEF EndingRows
    <2>2. PICK p : p = possession'
      OBVIOUS
    <2>3. Tells(stage', p, handover)
      BY <1>3, <2>1, <2>2, SyncTells
    <2> QED BY <1>0, <1>3, <2>1, <2>2, <2>3 DEF StageInv, Tells, EndingRows
  <1>4. ASSUME NEW v \in Views, NEW o \in Override \cup {None}, OfferPossession(v, o) PROVE StageInv'
    BY <1>3, <1>4, SerialView DEF OfferPossession, PossessionStatus
  <1>5. ASSUME NEW v \in Views, NEW o \in Override \cup {None},
               SchedulePossession(v, o) \/ CompletePossession(v, o)
        PROVE  StageInv'
    <2>1. PICK from \in {"OFFERED", "SCHEDULED"}, to \in {"SCHEDULED", "COMPLETED"} :
             MovePossession(v, o, from, to)
      BY <1>5 DEF SchedulePossession, CompletePossession
    <2>2. SyncStage(v, v.agreement, demanded, possession', handover)
      BY <2>1, SerialView DEF MovePossession, Found
    <2> QED BY <1>3, <2>1, <2>2 DEF MovePossession, PossessionStatus
  <1> QED BY <1>1, <1>2, <1>4, <1>5 DEF PossessionStep

LEMMA HandoverTells == ASSUME StageInv, HandoverStep PROVE StageInv'
  <1>0. EndingRows(possession, handover) /\ old = {} /\ Tells(stage, possession, handover)
    BY DEF StageInv
  <1>1. CASE StartHandover
    <2>1. EndingRows(possession', handover')
      BY <1>0, <1>1 DEF StartHandover, EndingRows, HandoverStatus
    <2> QED BY <1>0, <1>1, <2>1 DEF StartHandover, StageInv, Tells
  <1>2. ASSUME NEW v \in Views, NEW d \in Document, AddHandoverDocument(v, d) \/ UploadHandoverDocument(v, d)
        PROVE  StageInv'
    BY <1>2, EndingKept DEF AddHandoverDocument, UploadHandoverDocument
  <1>3. ASSUME NEW v \in Views, AcknowledgeHandover(v) PROVE StageInv'
    <2>1. [handover EXCEPT !.acknowledged = TRUE] \in [status: HandoverStatus, acknowledged: BOOLEAN]
          /\ [handover EXCEPT !.acknowledged = TRUE].status = handover.status
      BY <1>0 DEF EndingRows
    <2>2. handover'.status = handover.status /\ EndingRows(possession', handover')
      BY <1>0, <1>3, <2>1 DEF AcknowledgeHandover, EndingRows
    <2> QED BY <1>0, <1>3, <2>2 DEF AcknowledgeHandover, StageInv, Tells
  <1>4. ASSUME NEW v \in Views, CompleteHandover(v) PROVE StageInv'
    <2>1. [handover EXCEPT !.status = "COMPLETED"] \in [status: HandoverStatus, acknowledged: BOOLEAN]
          /\ possession.status = "COMPLETED"
      BY <1>0, <1>4 DEF EndingRows, HandoverStatus, CompleteHandover
    <2>2. EndingRows(possession, handover')
      BY <1>0, <1>4, <2>1 DEF CompleteHandover, EndingRows
    <2>3. SyncStage(v, v.agreement, demanded, possession, handover')
      BY <1>4, <2>1, SerialView DEF CompleteHandover, Found
    <2>4. PICK h : h = handover'
      OBVIOUS
    <2>5. Tells(stage', possession, h)
      BY <2>2, <2>3, <2>4, SyncTells
    <2> QED BY <1>0, <1>4, <2>2, <2>4, <2>5 DEF CompleteHandover, StageInv, Tells, EndingRows
  <1> QED BY <1>1, <1>2, <1>3, <1>4 DEF HandoverStep

LEMMA StageStart == Init => StageInv
  BY DEF Init, StageInv, EndingRows, Tells, PossessionStatus, HandoverStatus

LEMMA StageStep == ASSUME StageInv, [Step]_vars PROVE StageInv'
  <1>1. ASSUME NEW c \in External, OthersDecide(c) PROVE StageInv'
    BY <1>1, EndingKept DEF OthersDecide, ending
  <1>2. CASE UNCHANGED vars
    BY <1>2, EndingKept DEF vars, ending
  <1> QED BY <1>1, <1>2, DossierTells, PossessionTells, HandoverTells DEF Step

LEMMA StageShows == StageInv => StageTells
  BY DEF StageInv, Tells, StageTells

(* One request after the other, the stage tells whether possession was     *)
(* offered, completed, or the unit handed over.                            *)
THEOREM StageCorrect == Init /\ [][Step]_vars => []StageTells
  BY StageStart, StageStep, StageShows, PTL

-----------------------------------------------------------------------------
(***************************************************************************)
(* Service requests: their deadlines, for any categories, policies, agents *)
(* and tickets and requests whose reads are of any age, and their          *)
(* escalations, by requests that follow one another.                       *)
(***************************************************************************)
CONSTANTS Category, Priority, Minutes, Agent, Ticket, Escalation, MaxNow
VARIABLES now, category, policy, staff, ticket, escalation, tickets

Service == INSTANCE ServiceRequests WITH old <- tickets

(* Deadlines are minutes, and SQL's NULL is no date, nobody and no policy. *)
MinutesApart ==
    /\ \A d \in Minutes : d.response \in Nat /\ d.escalation \in Nat /\ d.resolution \in Nat
    /\ None \notin Nat /\ None \notin Agent /\ None \notin Minutes
    /\ MaxNow \in Nat

DueRow == [policy: (Category \X Priority) \cup {None}, response: Nat \cup {None},
           escalation: Nat \cup {None}, resolution: Nat \cup {None}]
TicketRow == [status: Service!Statuses, category: Category \cup {None},
              priority: Priority \cup {None}, assignee: Agent \cup {None}, escalated: BOOLEAN,
              opened: Nat \cup {None}, responded: Nat \cup {None}, resolved: Nat \cup {None},
              due: DueRow, rated: BOOLEAN]
PolicyRow == [active: BOOLEAN, minutes: Service!InOrder \cup {None}]

DueSound(row) ==
    row.due.policy # None =>
        /\ row.due.policy = <<row.category, row.priority>>
        /\ row.due.response \in Nat /\ row.due.resolution \in Nat
        /\ row.opened <= row.due.response /\ row.due.response <= row.due.resolution

(* What a ticket says of itself, at any minute.                            *)
Sound(row) ==
    /\ row \in TicketRow
    /\ row.status # "NONE" => /\ row.opened \in 0..now
                              /\ row.category \in Category /\ category[row.category] # "NONE"
    /\ row.status = "NONE" => row.opened = None /\ row.responded = None /\ ~row.escalated
    /\ row.status \in {"NONE", "OPEN"} <=> row.assignee = None
    /\ row.responded # None => row.responded \in 0..now /\ row.opened <= row.responded
    /\ row.resolved # None => row.resolved \in 0..now /\ row.opened <= row.resolved
    /\ row.resolved # None <=> row.status \in Service!Finished
    /\ row.status \notin {"NONE", "OPEN", "ASSIGNED"} => row.responded # None
    /\ row.rated => row.status = "CLOSED"
    /\ DueSound(row)

PoliciesOf(v) ==
    /\ v.category \in [Category -> Service!CategoryStatus]
    /\ v.policy \in [Category \X Priority -> PolicyRow]
    /\ \A c \in Category, p \in Priority : v.policy[<<c, p>>].active => v.policy[<<c, p>>].minutes # None
    /\ v.staff \subseteq Agent

(* Categories that a view shows are there.                                 *)
SettingsFaithful(v) ==
    PoliciesOf(v) /\ \A c \in Category : v.category[c] # "NONE" => category[c] # "NONE"

EscalationRows ==
    /\ escalation \in [Escalation -> [status: Service!EscalationStatus, ticket: Ticket \cup {None}]]
    /\ \A e \in Escalation : escalation[e].status # "NONE" => escalation[e].ticket \in Ticket

EscalationsFaithful(v) ==
    \A e \in Escalation : v.escalation[e].status # "NONE" => escalation[e].status # "NONE"

ServiceInv ==
    /\ now \in 0..MaxNow
    /\ PoliciesOf([category |-> category, policy |-> policy, staff |-> staff])
    /\ \A c \in Category, p \in Priority : policy[<<c, p>>].minutes # None => category[c] # "NONE"
    /\ ticket \in [Ticket -> TicketRow]
    /\ \A t \in Ticket : Sound(ticket[t])
    /\ EscalationRows
    /\ \A v \in tickets : SettingsFaithful(v) /\ EscalationsFaithful(v)

LEMMA SettingsSeen == ASSUME ServiceInv, NEW v \in Service!Views PROVE SettingsFaithful(v)
  <1>1. CASE v \in tickets
    BY <1>1 DEF ServiceInv
  <1>2. CASE v = Service!Snapshot
    <2>1. v.category = category /\ v.policy = policy /\ v.staff = staff
      BY <1>2 DEF Service!Snapshot
    <2> QED BY <2>1 DEF ServiceInv, SettingsFaithful, PoliciesOf
  <1> QED BY <1>1, <1>2 DEF Service!Views

LEMMA EscalationsSeen == ASSUME ServiceInv, NEW v \in Service!Views PROVE EscalationsFaithful(v)
  BY DEF ServiceInv, Service!Views, Service!Snapshot, EscalationsFaithful

(* What becomes of the settings.                                           *)
SettingsKept ==
    /\ now' \in 0..MaxNow /\ now <= now'
    /\ PoliciesOf([category |-> category, policy |-> policy, staff |-> staff])'
    /\ \A c \in Category, p \in Priority : policy'[<<c, p>>].minutes # None => category'[c] # "NONE"
    /\ \A c \in Category : category[c] # "NONE" => category'[c] # "NONE"

LEMMA PolicySet ==
    ASSUME MinutesApart, ServiceInv, NEW c \in Category, NEW p \in Priority, NEW active \in BOOLEAN,
           NEW minutes \in Service!InOrder, category[c] # "NONE",
           policy' = [policy EXCEPT ![<<c, p>>] = [active |-> active, minutes |-> minutes]],
           UNCHANGED <<now, category, staff>>
    PROVE  SettingsKept
  <1> DEFINE row == [active |-> active, minutes |-> minutes]
  <1>1. row \in PolicyRow /\ row.minutes # None
    BY DEF PolicyRow, MinutesApart, Service!InOrder
  <1>2. policy' = [policy EXCEPT ![<<c, p>>] = row]
    OBVIOUS
  <1> HIDE DEF row
  <1>3. policy \in [Category \X Priority -> PolicyRow]
    BY DEF ServiceInv, PoliciesOf
  <1>4. policy' \in [Category \X Priority -> PolicyRow]
    BY <1>1, <1>2, <1>3
  <1>5. ASSUME NEW d \in Category, NEW q \in Priority
        PROVE  policy'[<<d, q>>] = policy[<<d, q>>] \/ (d = c /\ policy'[<<d, q>>] = row)
    BY <1>2, <1>3
  <1>6. /\ \A d \in Category, q \in Priority :
              /\ policy'[<<d, q>>].active => policy'[<<d, q>>].minutes # None
              /\ policy'[<<d, q>>].minutes # None => category[d] # "NONE"
    BY <1>1, <1>5 DEF ServiceInv, PoliciesOf
  <1>7. now \in 0..MaxNow /\ category \in [Category -> Service!CategoryStatus] /\ staff \subseteq Agent
    BY DEF ServiceInv, PoliciesOf
  <1>8. PoliciesOf([category |-> category, policy |-> policy, staff |-> staff])'
    BY <1>4, <1>6, <1>7 DEF PoliciesOf
  <1>9. now' \in 0..MaxNow /\ now <= now'
    BY <1>7 DEF MinutesApart
  <1> QED BY <1>6, <1>8, <1>9 DEF SettingsKept

LEMMA SettingsStep ==
    ASSUME MinutesApart, ServiceInv, [Service!Next]_(Service!vars) PROVE SettingsKept
  <1>1. CASE UNCHANGED <<now, category, policy, staff>>
    BY <1>1 DEF SettingsKept, ServiceInv, PoliciesOf, MinutesApart
  <1>2. CASE Service!Tick
    BY <1>2 DEF Service!Tick, Service!settings, SettingsKept, ServiceInv, PoliciesOf, MinutesApart
  <1>3. ASSUME NEW u \in Agent, Service!StaffChanges(u) PROVE SettingsKept
    BY <1>3 DEF Service!StaffChanges, Service!settings, SettingsKept, ServiceInv, PoliciesOf, MinutesApart
  <1>4. ASSUME NEW c \in Category, NEW status \in {"ACTIVE", "INACTIVE"},
               category' = [category EXCEPT ![c] = status], UNCHANGED <<now, policy, staff>>
        PROVE  SettingsKept
    BY <1>4 DEF SettingsKept, ServiceInv, PoliciesOf, MinutesApart, Service!CategoryStatus
  <1>5. ASSUME NEW c \in Category,
               Service!CreateCategory(c)
               \/ \E status \in Service!CategoryStatus : Service!UpdateCategory(c, status)
        PROVE  SettingsKept
    BY <1>4, <1>5 DEF Service!CreateCategory, Service!UpdateCategory
  <1>6. ASSUME NEW c \in Category, NEW p \in Priority, NEW minutes \in Minutes, NEW v \in Service!Views,
               Service!CreatePolicy(v, c, p, minutes)
        PROVE  SettingsKept
    <2>1. category[c] # "NONE"
      BY <1>6, SettingsSeen DEF Service!CreatePolicy, SettingsFaithful
    <2> QED BY <1>6, <2>1, PolicySet DEF Service!CreatePolicy
  <1>7. ASSUME NEW c \in Category, NEW p \in Priority, NEW minutes \in Minutes, NEW active \in BOOLEAN,
               Service!UpdatePolicy(c, p, minutes, active)
        PROVE  SettingsKept
    <2>1. category[c] # "NONE"
      BY <1>7 DEF Service!UpdatePolicy, ServiceInv
    <2> QED BY <1>7, <2>1, PolicySet DEF Service!UpdatePolicy
  <1>8. CASE Service!SettingsStep
    BY <1>2, <1>3, <1>5, <1>6, <1>7, <1>8 DEF Service!SettingsStep
  <1>9. ASSUME NEW t, NEW row, Service!Set(t, row) PROVE SettingsKept
    BY <1>1, <1>9 DEF Service!Set, Service!settings
  <1>10. CASE Service!TicketStep
    <2>1. ASSUME NEW v, NEW t, NEW c, NEW p, Service!UpdateTicket(v, t, c, p) PROVE SettingsKept
      BY <1>9, <2>1 DEF Service!UpdateTicket
    <2>2. ASSUME NEW v, NEW t, NEW c, NEW p, NEW u, Service!CreateTicket(v, t, c, p, u)
          PROVE  SettingsKept
      BY <1>9, <2>2 DEF Service!CreateTicket
    <2>3. ASSUME NEW v, NEW t, NEW u, Service!AssignTicket(v, t, u) PROVE SettingsKept
      BY <1>9, <2>3 DEF Service!AssignTicket
    <2>4. ASSUME NEW v, NEW t, NEW target, NEW agent, Service!TransitionTicket(v, t, target, agent)
          PROVE  SettingsKept
      BY <1>9, <2>4 DEF Service!TransitionTicket
    <2>5. ASSUME NEW t, NEW agent, NEW internal, Service!AddComment(t, agent, internal)
          PROVE  SettingsKept
      BY <1>9, <2>5 DEF Service!AddComment
    <2>6. ASSUME NEW t, Service!SubmitFeedback(t) PROVE SettingsKept
      BY <1>9, <2>6 DEF Service!SubmitFeedback
    <2> QED BY <1>10, <2>1, <2>2, <2>3, <2>4, <2>5, <2>6 DEF Service!TicketStep
  <1>11. CASE Service!EscalationStep
    <2>1. ASSUME NEW e \in Escalation, Service!AcknowledgeEscalation(e) PROVE SettingsKept
      BY <1>1, <2>1 DEF Service!AcknowledgeEscalation, Service!settings
    <2> QED BY <1>9, <1>11, <2>1 DEF Service!EscalationStep, Service!EscalateTicket,
                                      Service!ResolveEscalation
  <1>12. CASE Service!Begin \/ UNCHANGED Service!vars
    BY <1>1, <1>12 DEF Service!Begin, Service!vars, Service!settings
  <1> QED BY <1>8, <1>10, <1>11, <1>12 DEF Service!Next, Service!Step

(* What is sound stays so, as time passes and categories come.             *)
LEMMA SoundStays == ASSUME MinutesApart, ServiceInv, SettingsKept, NEW row, Sound(row) PROVE Sound(row)'
  <1>1. now \in Nat /\ now' \in Nat /\ now <= now'
    BY DEF SettingsKept, ServiceInv, MinutesApart
  <1> QED BY <1>1 DEF Sound, SettingsKept

(* The deadlines a view sets.                                              *)
LEMMA DeadlinesSet ==
    ASSUME MinutesApart, ServiceInv, NEW v \in Service!Views, NEW opened \in Nat,
           NEW c \in Category, NEW p \in Priority, NEW due, due = Service!ApplySla(v, opened, c, p)
    PROVE  /\ due \in DueRow
           /\ due.policy # None =>
                 /\ due.policy = <<c, p>>
                 /\ due.response \in Nat /\ due.resolution \in Nat
                 /\ opened <= due.response /\ due.response <= due.resolution
  <1> DEFINE minutes == v.policy[<<c, p>>].minutes
  <1>1. PoliciesOf(v)
    BY SettingsSeen DEF SettingsFaithful
  <1>2. CASE ~v.policy[<<c, p>>].active
    BY <1>2 DEF Service!ApplySla, Service!NoDeadlines, DueRow
  <1>3. CASE v.policy[<<c, p>>].active
    <2>1. v.policy[<<c, p>>] \in PolicyRow /\ minutes # None
      BY <1>1, <1>3 DEF PoliciesOf
    <2>2. minutes \in Minutes /\ minutes.response <= minutes.escalation
          /\ minutes.escalation <= minutes.resolution
      BY <2>1 DEF PolicyRow, Service!InOrder
    <2>3. minutes.response \in Nat /\ minutes.escalation \in Nat /\ minutes.resolution \in Nat
      BY <2>2 DEF MinutesApart
    <2>4. due = [policy |-> <<c, p>>, response |-> opened + minutes.response,
                 escalation |-> opened + minutes.escalation,
                 resolution |-> opened + minutes.resolution]
      BY <1>3 DEF Service!ApplySla
    <2> HIDE DEF minutes
    <2> QED BY <2>2, <2>3, <2>4 DEF DueRow
  <1> QED BY <1>2, <1>3

(* What becomes of the tickets.                                            *)
TicketsSound == ticket' \in [Ticket -> TicketRow] /\ \A s \in Ticket : Sound(ticket'[s])

LEMMA TicketSet ==
    ASSUME ServiceInv, NEW t \in Ticket, NEW row, Sound(row), Service!Set(t, row)
    PROVE  TicketsSound
  BY DEF Service!Set, TicketsSound, ServiceInv, Sound

LEMMA TicketCreated ==
    ASSUME MinutesApart, ServiceInv, NEW v \in Service!Views, NEW t \in Ticket,
           NEW c \in Category, NEW p \in Priority, NEW u \in Agent \cup {None},
           Service!CreateTicket(v, t, c, p, u)
    PROVE  TicketsSound
  <1>0. now \in Nat /\ now \in 0..now /\ category[c] # "NONE"
    BY SettingsSeen DEF MinutesApart, ServiceInv, Service!CreateTicket, SettingsFaithful
  <1>1. PICK due : due = Service!ApplySla(v, now, c, p)
    OBVIOUS
  <1> DEFINE row == [Service!NoTicket EXCEPT !.status = IF u = None THEN "OPEN" ELSE "ASSIGNED",
                        !.category = c, !.priority = p, !.assignee = u, !.opened = now, !.due = due]
  <1>2. Service!Set(t, row)
    BY <1>1 DEF Service!CreateTicket
  <1>3. /\ due \in DueRow
        /\ due.policy # None =>
              /\ due.policy = <<c, p>>
              /\ due.response \in Nat /\ due.resolution \in Nat
              /\ now <= due.response /\ due.response <= due.resolution
    BY <1>0, <1>1, DeadlinesSet
  <1>4. None \in Agent \cup {None} /\ Service!NoDeadlines \in DueRow
    BY DEF Service!NoDeadlines, DueRow
  <1>5. Service!NoTicket \in TicketRow
    BY <1>4 DEF Service!NoTicket, TicketRow, Service!Statuses
  <1>6. /\ row \in TicketRow
        /\ (row.status = "OPEN" /\ u = None) \/ (row.status = "ASSIGNED" /\ u # None)
        /\ row.category = c /\ row.priority = p /\ row.assignee = u /\ row.opened = now
        /\ row.due = due
        /\ row.responded = Service!NoTicket.responded /\ row.resolved = Service!NoTicket.resolved
        /\ row.rated = Service!NoTicket.rated
    BY <1>0, <1>3, <1>5 DEF TicketRow, Service!Statuses
  <1> HIDE DEF row
  <1>7. row.responded = None /\ row.resolved = None /\ ~row.rated /\ DueSound(row)
    BY <1>3, <1>6 DEF Service!NoTicket, DueSound
  <1>8. Sound(row)
    BY <1>0, <1>6, <1>7 DEF Sound, Service!Finished
  <1> QED BY <1>2, <1>8, TicketSet

LEMMA TicketUpdated ==
    ASSUME MinutesApart, ServiceInv, NEW v \in Service!Views, NEW t \in Ticket,
           NEW c \in Category, NEW p \in Priority, Service!UpdateTicket(v, t, c, p)
    PROVE  TicketsSound
  <1>0. Sound(ticket[t]) /\ ticket[t] \in TicketRow /\ ticket[t].status # "NONE"
    BY DEF ServiceInv, Sound, Service!UpdateTicket
  <1>1. ticket[t].opened \in 0..now /\ ticket[t].opened \in Nat /\ category[c] # "NONE"
    BY <1>0, SettingsSeen DEF Sound, MinutesApart, ServiceInv, Service!UpdateTicket, SettingsFaithful
  <1>2. PICK due : due = Service!ApplySla(v, ticket[t].opened, c, p)
    OBVIOUS
  <1>3. /\ due \in DueRow
        /\ due.policy # None =>
              /\ due.policy = <<c, p>>
              /\ due.response \in Nat /\ due.resolution \in Nat
              /\ ticket[t].opened <= due.response /\ due.response <= due.resolution
    BY <1>1, <1>2, DeadlinesSet
  <1> DEFINE row == [ticket[t] EXCEPT !.category = c, !.priority = p, !.due = due]
  <1>4. Service!Set(t, row)
    BY <1>2 DEF Service!UpdateTicket
  <1>5. /\ row \in TicketRow
        /\ row.category = c /\ row.priority = p /\ row.due = due
        /\ row.status = ticket[t].status /\ row.assignee = ticket[t].assignee
        /\ row.escalated = ticket[t].escalated /\ row.opened = ticket[t].opened
        /\ row.responded = ticket[t].responded /\ row.resolved = ticket[t].resolved
        /\ row.rated = ticket[t].rated
    BY <1>0, <1>3 DEF TicketRow
  <1> HIDE DEF row
  <1>6. DueSound(row)
    BY <1>3, <1>5 DEF DueSound
  <1>7. Sound(row)
    BY <1>0, <1>1, <1>5, <1>6 DEF Sound
  <1> QED BY <1>4, <1>7, TicketSet

(* The other handlers leave a ticket what it is about.                     *)
SameCase(row, r) ==
    /\ row \in TicketRow /\ r \in TicketRow
    /\ row.category = r.category /\ row.priority = r.priority /\ row.opened = r.opened
    /\ row.due = r.due

LEMMA SameCaseSound ==
    ASSUME MinutesApart, ServiceInv, NEW t \in Ticket, NEW row, SameCase(row, ticket[t]),
           ticket[t].status # "NONE", row.status # "NONE",
           row.status = "OPEN" <=> row.assignee = None,
           row.responded \in {ticket[t].responded, now}, row.resolved \in {ticket[t].resolved, now, None},
           row.resolved # None <=> row.status \in Service!Finished,
           row.status \notin {"OPEN", "ASSIGNED"} => row.responded # None,
           row.rated => row.status = "CLOSED",
           Service!Set(t, row)
    PROVE  TicketsSound
  <1>0. Sound(ticket[t])
    BY DEF ServiceInv
  <1>1. now \in Nat /\ now \in 0..now /\ ticket[t].opened \in 0..now
    BY <1>0 DEF ServiceInv, MinutesApart, Sound
  <1>2. DueSound(row)
    BY <1>0 DEF DueSound, SameCase, Sound
  <1>3. row.responded # None => row.responded \in 0..now /\ row.opened <= row.responded
    BY <1>0, <1>1 DEF SameCase, Sound
  <1>4. row.resolved # None => row.resolved \in 0..now /\ row.opened <= row.resolved
    BY <1>0, <1>1 DEF SameCase, Sound
  <1>5. Sound(row)
    BY <1>0, <1>2, <1>3, <1>4 DEF SameCase, Sound
  <1> QED BY <1>5, TicketSet

LEMMA TicketHandled ==
    ASSUME MinutesApart, ServiceInv, NEW v \in Service!Views, NEW t \in Ticket, NEW u \in Agent,
           Service!AssignTicket(v, t, u)
           \/ \E e \in Escalation : Service!EscalateTicket(v, t, e, u)
    PROVE  TicketsSound
  <1> DEFINE row(escalated, status) ==
         [ticket[t] EXCEPT !.assignee = u, !.escalated = escalated, !.status = status]
  <1>0. Sound(ticket[t]) /\ ticket[t] \in TicketRow /\ ticket[t].status # "NONE" /\ u # None
    BY DEF ServiceInv, Sound, Service!AssignTicket, Service!EscalateTicket, MinutesApart
  <1>1. PICK status : status = Service!TakenUp(ticket[t].status)
    OBVIOUS
  <1>2. /\ status \in Service!Statuses /\ status \notin {"NONE", "OPEN"}
        /\ ticket[t].status \notin {"OPEN", "ASSIGNED"} => status = ticket[t].status
        /\ ticket[t].status \in {"OPEN", "ASSIGNED"} => status = "ASSIGNED"
    BY <1>0, <1>1 DEF Service!TakenUp, TicketRow, Service!Statuses
  <1>3. \E escalated \in BOOLEAN : Service!Set(t, row(escalated, status))
    <2>1. CASE Service!AssignTicket(v, t, u)
      <3>1. ticket[t].escalated \in BOOLEAN
        BY <1>0 DEF TicketRow
      <3>2. [ticket[t] EXCEPT !.assignee = u, !.status = status] = row(ticket[t].escalated, status)
        BY <1>0, <1>2 DEF TicketRow
      <3>3. Service!Set(t, [ticket[t] EXCEPT !.assignee = u, !.status = status])
        BY <1>1, <2>1 DEF Service!AssignTicket
      <3> HIDE DEF row
      <3> QED BY <3>1, <3>2, <3>3
    <2>2. CASE \E e \in Escalation : Service!EscalateTicket(v, t, e, u)
      BY <1>1, <2>2 DEF Service!EscalateTicket
    <2> QED BY <2>1, <2>2
  <1>4. PICK escalated \in BOOLEAN : Service!Set(t, row(escalated, status))
    BY <1>3
  <1> DEFINE r == row(escalated, status)
  <1>5. /\ r \in TicketRow
        /\ r.category = ticket[t].category /\ r.priority = ticket[t].priority
        /\ r.opened = ticket[t].opened /\ r.due = ticket[t].due
        /\ r.assignee = u /\ r.status = status
        /\ r.responded = ticket[t].responded /\ r.resolved = ticket[t].resolved
        /\ r.rated = ticket[t].rated
    BY <1>0, <1>2 DEF TicketRow
  <1>6. Service!Set(t, r)
    BY <1>4
  <1> HIDE DEF r, row
  <1>7. SameCase(r, ticket[t])
    BY <1>0, <1>5 DEF SameCase
  <1>8. /\ r.resolved # None <=> r.status \in Service!Finished
        /\ r.status \notin {"OPEN", "ASSIGNED"} => r.responded # None
        /\ r.rated => r.status = "CLOSED"
    BY <1>0, <1>2, <1>5 DEF Sound, Service!Finished
  <1> QED BY <1>0, <1>2, <1>5, <1>6, <1>7, <1>8, SameCaseSound

LEMMA TicketMoved ==
    ASSUME MinutesApart, ServiceInv, NEW v \in Service!Views, NEW t \in Ticket,
           NEW target \in Service!Statuses, NEW agent \in BOOLEAN,
           Service!TransitionTicket(v, t, target, agent)
    PROVE  TicketsSound
  <1>0. Sound(ticket[t]) /\ ticket[t] \in TicketRow /\ now \in Nat /\ now # None
    BY DEF ServiceInv, Sound, MinutesApart
  <1>1. /\ ticket[t].status \in {"ASSIGNED", "IN_PROGRESS", "WAITING_FOR_CUSTOMER", "RESOLVED"}
        /\ target \in {"IN_PROGRESS", "WAITING_FOR_CUSTOMER", "RESOLVED", "CLOSED"}
        /\ target = "CLOSED" <=> ticket[t].status = "RESOLVED" /\ target # "IN_PROGRESS"
        /\ ticket[t].status = "ASSIGNED" => target = "IN_PROGRESS"
    BY DEF Service!TransitionTicket, Service!Moves
  <1> DEFINE responded == IF target = "IN_PROGRESS" THEN Service!Responded(t) ELSE ticket[t].responded
             resolved == CASE target = "RESOLVED" -> now
                           [] target = "IN_PROGRESS" /\ ticket[t].status = "RESOLVED" -> None
                           [] OTHER -> ticket[t].resolved
             escalated == ticket[t].escalated /\ target # "RESOLVED"
             r == [ticket[t] EXCEPT !.status = target, !.responded = responded, !.resolved = resolved,
                                    !.escalated = escalated]
  <1>2. Service!Set(t, r)
    BY DEF Service!TransitionTicket
  <1>3. /\ responded \in {ticket[t].responded, now} /\ responded \in Nat \cup {None}
        /\ target = "IN_PROGRESS" => responded # None
        /\ target # "IN_PROGRESS" => responded = ticket[t].responded
    BY <1>0 DEF Service!Responded, TicketRow
  <1>4. /\ resolved \in {ticket[t].resolved, now, None} /\ resolved \in Nat \cup {None}
        /\ target = "RESOLVED" => resolved = now
        /\ target = "IN_PROGRESS" /\ ticket[t].status = "RESOLVED" => resolved = None
        /\ target # "RESOLVED" /\ ~(target = "IN_PROGRESS" /\ ticket[t].status = "RESOLVED")
              => resolved = ticket[t].resolved
    BY <1>0 DEF TicketRow
  <1>5. /\ ticket[t] \in TicketRow /\ escalated \in BOOLEAN
        /\ responded \in Nat \cup {None} /\ resolved \in Nat \cup {None}
    BY <1>0, <1>3, <1>4
  <1> HIDE DEF responded, resolved, escalated
  <1>6. /\ r.status = target /\ r.assignee = ticket[t].assignee
        /\ r.responded = responded /\ r.resolved = resolved /\ r.rated = ticket[t].rated
    BY <1>5 DEF TicketRow
  <1>7. SameCase(r, ticket[t])
    <2>1. r \in TicketRow
      BY <1>5 DEF TicketRow
    <2>2. /\ r.category = ticket[t].category /\ r.priority = ticket[t].priority
          /\ r.opened = ticket[t].opened /\ r.due = ticket[t].due
      BY <1>5 DEF TicketRow
    <2> QED BY <1>5, <2>1, <2>2 DEF SameCase
  <1> HIDE DEF r
  <1>8. ticket[t].assignee # None /\ ~ticket[t].rated
    BY <1>0, <1>1 DEF Sound
  <1>9. r.resolved # None <=> r.status \in Service!Finished
    BY <1>0, <1>1, <1>4, <1>6 DEF Sound, Service!Finished
  <1>10. r.status \notin {"OPEN", "ASSIGNED"} => r.responded # None
    BY <1>0, <1>1, <1>3, <1>6 DEF Sound
  <1> QED BY <1>1, <1>2, <1>3, <1>4, <1>6, <1>7, <1>8, <1>9, <1>10, SameCaseSound

LEMMA TicketCommented ==
    ASSUME MinutesApart, ServiceInv, NEW t \in Ticket, NEW agent \in BOOLEAN, NEW internal \in BOOLEAN,
           Service!AddComment(t, agent, internal)
    PROVE  TicketsSound
  <1>0. /\ Sound(ticket[t]) /\ ticket[t] \in TicketRow /\ now \in Nat /\ now # None
        /\ ticket[t].status \notin {"NONE", "CLOSED"}
    BY DEF ServiceInv, Sound, MinutesApart, Service!AddComment
  <1> DEFINE responded == IF agent /\ ~internal THEN Service!Responded(t) ELSE ticket[t].responded
             status == IF ~agent /\ ticket[t].status = "WAITING_FOR_CUSTOMER" THEN "IN_PROGRESS"
                       ELSE ticket[t].status
             r == [ticket[t] EXCEPT !.responded = responded, !.status = status]
  <1>1. Service!Set(t, r)
    BY DEF Service!AddComment
  <1>2. /\ responded \in {ticket[t].responded, now} /\ responded \in Nat \cup {None}
        /\ ticket[t].responded # None => responded # None
    BY <1>0 DEF Service!Responded, TicketRow
  <1>3. /\ status \in Service!Statuses
        /\ status = ticket[t].status
           \/ (ticket[t].status = "WAITING_FOR_CUSTOMER" /\ status = "IN_PROGRESS")
    BY <1>0 DEF TicketRow, Service!Statuses
  <1> HIDE DEF responded, status
  <1>4. /\ SameCase(r, ticket[t]) /\ r.status = status /\ r.assignee = ticket[t].assignee
        /\ r.responded = responded /\ r.resolved = ticket[t].resolved /\ r.rated = ticket[t].rated
    BY <1>0, <1>2, <1>3 DEF SameCase, TicketRow
  <1> HIDE DEF r
  <1> QED BY <1>0, <1>1, <1>2, <1>3, <1>4, SameCaseSound DEF Sound, Service!Finished

LEMMA TicketRated ==
    ASSUME MinutesApart, ServiceInv, NEW t \in Ticket, Service!SubmitFeedback(t)
    PROVE  TicketsSound
  <1> DEFINE r == [ticket[t] EXCEPT !.rated = TRUE]
  <1>0. /\ Sound(ticket[t]) /\ ticket[t] \in TicketRow /\ ticket[t].status = "CLOSED"
        /\ Service!Set(t, r)
    BY DEF ServiceInv, Sound, Service!SubmitFeedback
  <1>1. /\ SameCase(r, ticket[t]) /\ r.status = ticket[t].status /\ r.assignee = ticket[t].assignee
        /\ r.responded = ticket[t].responded /\ r.resolved = ticket[t].resolved
    BY <1>0 DEF SameCase, TicketRow
  <1> HIDE DEF r
  <1> QED BY <1>0, <1>1, SameCaseSound DEF Sound

LEMMA TicketRelieved ==
    ASSUME MinutesApart, ServiceInv, NEW e \in Escalation, Service!ResolveEscalation(e)
    PROVE  TicketsSound
  <1> DEFINE t == escalation[e].ticket
             r == [ticket[t] EXCEPT !.escalated = FALSE]
  <1>0. t \in Ticket /\ Service!Set(t, r)
    BY DEF ServiceInv, EscalationRows, Service!ResolveEscalation, Service!Unsettled
  <1> HIDE DEF t
  <1>1. Sound(ticket[t]) /\ ticket[t] \in TicketRow
    BY <1>0 DEF ServiceInv
  <1>2. /\ r \in TicketRow /\ r.status = ticket[t].status /\ r.assignee = ticket[t].assignee
        /\ r.category = ticket[t].category /\ r.priority = ticket[t].priority
        /\ r.opened = ticket[t].opened /\ r.due = ticket[t].due
        /\ r.responded = ticket[t].responded /\ r.resolved = ticket[t].resolved
        /\ r.rated = ticket[t].rated /\ ~r.escalated
    BY <1>1 DEF TicketRow
  <1> HIDE DEF r
  <1>3. Sound(r)
    BY <1>1, <1>2 DEF Sound, DueSound
  <1> QED BY <1>0, <1>3, TicketSet

LEMMA TicketsStep ==
    ASSUME MinutesApart, ServiceInv, [Service!Next]_(Service!vars) PROVE TicketsSound
  <1>1. CASE UNCHANGED ticket
    BY <1>1 DEF TicketsSound, ServiceInv
  <1>2. CASE Service!SettingsStep
    BY <1>1, <1>2 DEF Service!SettingsStep, Service!Tick, Service!StaffChanges, Service!CreateCategory,
                      Service!UpdateCategory, Service!CreatePolicy, Service!UpdatePolicy
  <1>3. CASE Service!TicketStep
    BY <1>3, TicketCreated, TicketUpdated, TicketHandled, TicketMoved, TicketCommented, TicketRated
       DEF Service!TicketStep
  <1>4. CASE Service!EscalationStep
    <2>1. ASSUME NEW e \in Escalation, Service!AcknowledgeEscalation(e) PROVE TicketsSound
      BY <1>1, <2>1 DEF Service!AcknowledgeEscalation
    <2> QED BY <1>4, <2>1, TicketHandled, TicketRelieved DEF Service!EscalationStep
  <1>5. CASE Service!Begin \/ UNCHANGED Service!vars
    BY <1>1, <1>5 DEF Service!Begin, Service!vars
  <1> QED BY <1>2, <1>3, <1>4, <1>5 DEF Service!Next, Service!Step

(* Escalations come, never go, and stay with their tickets.                *)
EscalationsKept ==
    /\ EscalationRows'
    /\ \A e \in Escalation : escalation[e].status # "NONE" => escalation'[e].status # "NONE"

LEMMA EscalationsStep == ASSUME ServiceInv, [Service!Next]_(Service!vars) PROVE EscalationsKept
  <1> DEFINE Row == [status: Service!EscalationStatus, ticket: Ticket \cup {None}]
  <1>0. /\ escalation \in [Escalation -> Row]
        /\ \A e \in Escalation : escalation[e].status # "NONE" => escalation[e].ticket \in Ticket
    BY DEF ServiceInv, EscalationRows
  <1>1. CASE UNCHANGED escalation
    BY <1>0, <1>1 DEF EscalationRows, EscalationsKept
  <1>2. ASSUME NEW e \in Escalation, NEW row \in Row, escalation' = [escalation EXCEPT ![e] = row],
               row.ticket \in Ticket, row.status # "NONE"
        PROVE  EscalationsKept
    BY <1>0, <1>2 DEF EscalationRows, EscalationsKept
  <1>3. ASSUME NEW e \in Escalation, NEW status \in {"ACKNOWLEDGED", "RESOLVED"},
               escalation[e].status # "NONE"
        PROVE  /\ [escalation[e] EXCEPT !.status = status] \in Row
               /\ [escalation[e] EXCEPT !.status = status].ticket = escalation[e].ticket
               /\ [escalation[e] EXCEPT !.status = status].status = status
               /\ escalation[e].ticket \in Ticket
    BY <1>0, <1>3 DEF Service!EscalationStatus
  <1>4. ASSUME NEW e \in Escalation, NEW status \in {"ACKNOWLEDGED", "RESOLVED"},
               escalation[e].status \in Service!Unsettled,
               escalation' = [escalation EXCEPT ![e].status = status]
        PROVE  EscalationsKept
    <2> DEFINE row == [escalation[e] EXCEPT !.status = status]
    <2>1. escalation[e].status # "NONE"
      BY <1>4 DEF Service!Unsettled
    <2>2. row \in Row /\ row.ticket \in Ticket /\ row.status # "NONE"
      BY <1>3, <2>1
    <2>3. escalation' = [escalation EXCEPT ![e] = row]
      BY <1>4
    <2> HIDE DEF row
    <2> QED BY <1>2, <2>2, <2>3
  <1>5. ASSUME NEW e \in Escalation, Service!AcknowledgeEscalation(e) \/ Service!ResolveEscalation(e)
        PROVE  EscalationsKept
    BY <1>4, <1>5 DEF Service!AcknowledgeEscalation, Service!ResolveEscalation, Service!Unsettled
  <1>6. ASSUME NEW e \in Escalation, NEW t \in Ticket, NEW v, NEW u, Service!EscalateTicket(v, t, e, u)
        PROVE  EscalationsKept
    <2> DEFINE row == [status |-> "OPEN", ticket |-> t]
    <2>1. row \in Row /\ row.ticket \in Ticket /\ row.status # "NONE"
      BY DEF Service!EscalationStatus
    <2>2. escalation' = [escalation EXCEPT ![e] = row]
      BY <1>6 DEF Service!EscalateTicket
    <2> HIDE DEF row
    <2> QED BY <1>2, <2>1, <2>2
  <1>7. ASSUME NEW v \in Service!Views, NEW t \in Ticket, NEW target, NEW agent,
               Service!TransitionTicket(v, t, target, agent)
        PROVE  EscalationsKept
    <2>1. ASSUME NEW e \in Escalation
          PROVE  \/ escalation'[e] = escalation[e]
                 \/ /\ escalation[e].status # "NONE"
                    /\ escalation'[e] = [escalation[e] EXCEPT !.status = "RESOLVED"]
      <3>1. v.escalation[e].status \in Service!Unsettled => escalation[e].status # "NONE"
        BY <1>7, EscalationsSeen DEF EscalationsFaithful, Service!Unsettled
      <3> QED BY <1>7, <3>1 DEF Service!TransitionTicket
    <2>2. ASSUME NEW e \in Escalation
          PROVE  /\ escalation'[e] \in Row
                 /\ escalation'[e].status # "NONE" => escalation'[e].ticket \in Ticket
                 /\ escalation[e].status # "NONE" => escalation'[e].status # "NONE"
      <3>1. CASE escalation'[e] = escalation[e]
        BY <1>0, <3>1
      <3>2. CASE /\ escalation[e].status # "NONE"
                 /\ escalation'[e] = [escalation[e] EXCEPT !.status = "RESOLVED"]
        BY <1>3, <3>2
      <3> QED BY <2>1, <3>1, <3>2
    <2>3. escalation' \in [Escalation -> Row]
      <3>1. \E f : escalation' = [e \in Escalation |-> f[e]]
        <4> DEFINE g == [e \in Escalation |-> escalation'[e]]
        <4>1. escalation' = g
          BY <1>7 DEF Service!TransitionTicket
        <4> QED BY <4>1
      <3> QED BY <2>2, <3>1
    <2> QED BY <2>2, <2>3 DEF EscalationRows, EscalationsKept
  <1>8. CASE Service!EscalationStep
    BY <1>5, <1>6, <1>8 DEF Service!EscalationStep
  <1>9. CASE Service!TicketStep
    <2>1. ASSUME NEW v, NEW t, NEW c, NEW p,
                 \/ Service!UpdateTicket(v, t, c, p)
                 \/ \E u : Service!CreateTicket(v, t, c, p, u)
          PROVE  EscalationsKept
      BY <1>1, <2>1 DEF Service!UpdateTicket, Service!CreateTicket
    <2>2. ASSUME NEW v, NEW t, NEW u, Service!AssignTicket(v, t, u) PROVE EscalationsKept
      BY <1>1, <2>2 DEF Service!AssignTicket
    <2>3. ASSUME NEW t, NEW agent, NEW internal, Service!AddComment(t, agent, internal)
          PROVE  EscalationsKept
      BY <1>1, <2>3 DEF Service!AddComment
    <2>4. ASSUME NEW t, Service!SubmitFeedback(t) PROVE EscalationsKept
      BY <1>1, <2>4 DEF Service!SubmitFeedback
    <2> QED BY <1>7, <1>9, <2>1, <2>2, <2>3, <2>4 DEF Service!TicketStep
  <1>10. CASE Service!SettingsStep
    BY <1>1, <1>10 DEF Service!SettingsStep, Service!Tick, Service!StaffChanges, Service!CreateCategory,
                       Service!UpdateCategory, Service!CreatePolicy, Service!UpdatePolicy
  <1>11. CASE Service!Begin \/ UNCHANGED Service!vars
    BY <1>1, <1>11 DEF Service!Begin, Service!vars
  <1> QED BY <1>8, <1>9, <1>10, <1>11 DEF Service!Next, Service!Step

LEMMA TicketViewsSame == ASSUME Service!Step PROVE UNCHANGED tickets
  <1>2. CASE Service!SettingsStep
    BY <1>2 DEF Service!SettingsStep, Service!Tick, Service!StaffChanges, Service!CreateCategory,
                      Service!UpdateCategory, Service!CreatePolicy, Service!UpdatePolicy
  <1>1. ASSUME NEW t, NEW row, Service!Set(t, row) PROVE UNCHANGED tickets
    BY <1>1 DEF Service!Set
  <1>3. CASE Service!TicketStep
    <2>1. ASSUME NEW v, NEW t, NEW c, NEW p, Service!UpdateTicket(v, t, c, p) PROVE UNCHANGED tickets
      BY <1>1, <2>1 DEF Service!UpdateTicket
    <2>2. ASSUME NEW v, NEW t, NEW c, NEW p, NEW u, Service!CreateTicket(v, t, c, p, u)
          PROVE  UNCHANGED tickets
      BY <1>1, <2>2 DEF Service!CreateTicket
    <2>3. ASSUME NEW v, NEW t, NEW u, Service!AssignTicket(v, t, u) PROVE UNCHANGED tickets
      BY <1>1, <2>3 DEF Service!AssignTicket
    <2>4. ASSUME NEW v, NEW t, NEW target, NEW agent, Service!TransitionTicket(v, t, target, agent)
          PROVE  UNCHANGED tickets
      BY <1>1, <2>4 DEF Service!TransitionTicket
    <2>5. ASSUME NEW t, NEW agent, NEW internal, Service!AddComment(t, agent, internal)
          PROVE  UNCHANGED tickets
      BY <1>1, <2>5 DEF Service!AddComment
    <2>6. ASSUME NEW t, Service!SubmitFeedback(t) PROVE UNCHANGED tickets
      BY <1>1, <2>6 DEF Service!SubmitFeedback
    <2> QED BY <1>3, <2>1, <2>2, <2>3, <2>4, <2>5, <2>6 DEF Service!TicketStep
  <1>4. CASE Service!EscalationStep
    <2>1. ASSUME NEW e, Service!AcknowledgeEscalation(e) PROVE UNCHANGED tickets
      BY <2>1 DEF Service!AcknowledgeEscalation
    <2> QED BY <1>1, <1>4, <2>1 DEF Service!EscalationStep, Service!EscalateTicket,
                                     Service!ResolveEscalation
  <1> QED BY <1>2, <1>3, <1>4 DEF Service!Step

LEMMA TicketViewsOld == ASSUME [Service!Next]_(Service!vars) PROVE tickets' \subseteq Service!Views
  BY TicketViewsSame DEF Service!Next, Service!Begin, Service!Views, Service!vars

LEMMA ServiceStep == ASSUME MinutesApart, ServiceInv, [Service!Next]_(Service!vars) PROVE ServiceInv'
  <1>1. SettingsKept /\ TicketsSound /\ EscalationsKept
    BY SettingsStep, TicketsStep, EscalationsStep
  <1>2. ASSUME NEW v \in tickets' PROVE (SettingsFaithful(v) /\ EscalationsFaithful(v))'
    <2>1. v \in Service!Views
      BY TicketViewsOld
    <2>2. SettingsFaithful(v) /\ EscalationsFaithful(v)
      BY <2>1, SettingsSeen, EscalationsSeen
    <2> QED BY <1>1, <2>2 DEF SettingsKept, EscalationsKept, SettingsFaithful, EscalationsFaithful, PoliciesOf
  <1>3. ASSUME NEW t \in Ticket PROVE Sound(ticket[t])'
    <2>1. PICK row : row = ticket'[t]
      OBVIOUS
    <2>2. Sound(row)'
      BY <1>1, <2>1, SoundStays DEF TicketsSound
    <2> QED BY <2>1, <2>2 DEF Sound
  <1> QED BY <1>1, <1>2, <1>3 DEF ServiceInv, SettingsKept, TicketsSound, EscalationsKept

LEMMA ServiceStart == ASSUME MinutesApart, Service!Init PROVE ServiceInv
  <1>1. /\ Service!NoDeadlines \in DueRow
        /\ Service!NoDeadlines.policy = None
    BY DEF Service!NoDeadlines, DueRow
  <1>2. /\ Service!NoTicket \in TicketRow
        /\ Service!NoTicket.status = "NONE" /\ Service!NoTicket.opened = None
        /\ Service!NoTicket.responded = None /\ Service!NoTicket.resolved = None
        /\ Service!NoTicket.assignee = None
        /\ ~Service!NoTicket.escalated /\ ~Service!NoTicket.rated
        /\ Service!NoTicket.due.policy = None
    BY <1>1 DEF Service!NoTicket, TicketRow, Service!Statuses
  <1>3. Sound(Service!NoTicket)
    BY <1>2 DEF Sound, DueSound, Service!Finished
  <1>4. PoliciesOf([category |-> category, policy |-> policy, staff |-> staff])
    BY DEF Service!Init, PoliciesOf, PolicyRow, Service!CategoryStatus
  <1>5. EscalationRows
    BY DEF Service!Init, EscalationRows, Service!EscalationStatus
  <1> HIDE DEF Service!NoTicket
  <1>6. ticket \in [Ticket -> TicketRow] /\ \A t \in Ticket : Sound(ticket[t])
    BY <1>2, <1>3 DEF Service!Init
  <1> QED BY <1>4, <1>5, <1>6 DEF Service!Init, ServiceInv, MinutesApart

LEMMA ServiceShows == ASSUME ServiceInv PROVE Service!DeadlinesAgree
  <1> SUFFICES ASSUME NEW t \in Ticket
               PROVE  /\ Service!Breached(t, ticket[t].due.response, ticket[t].responded)
                         <=> Service!Late(ticket[t].due.response, ticket[t].responded)
                      /\ Service!Breached(t, ticket[t].due.resolution, ticket[t].resolved)
                         <=> Service!Late(ticket[t].due.resolution, ticket[t].resolved)
                      /\ ticket[t].due.policy # None =>
                            /\ ticket[t].due.policy = <<ticket[t].category, ticket[t].priority>>
                            /\ ticket[t].opened <= ticket[t].due.response
                            /\ ticket[t].due.response <= ticket[t].due.resolution
                      /\ ticket[t].resolved # None <=> ticket[t].status \in Service!Finished
    BY DEF Service!DeadlinesAgree
  <1>1. Sound(ticket[t])
    BY DEF ServiceInv
  <1>2. /\ ticket[t].responded = None => ticket[t].status \notin Service!Finished
        /\ ticket[t].resolved # None <=> ticket[t].status \in Service!Finished
    BY <1>1 DEF Sound, Service!Finished
  <1>3. /\ Service!Breached(t, ticket[t].due.response, ticket[t].responded)
           <=> Service!Late(ticket[t].due.response, ticket[t].responded)
        /\ Service!Breached(t, ticket[t].due.resolution, ticket[t].resolved)
           <=> Service!Late(ticket[t].due.resolution, ticket[t].resolved)
    BY <1>2 DEF Service!Breached, Service!Late
  <1> QED BY <1>1, <1>2, <1>3 DEF Sound, DueSound

(* The list of tickets in breach and the page of a ticket say the same, and *)
(* a ticket's deadlines are those of its category and its priority.         *)
THEOREM DeadlinesCorrect ==
    ASSUME MinutesApart
    PROVE  Service!Spec => []Service!DeadlinesAgree
  BY ServiceStart, ServiceStep, ServiceShows, PTL DEF Service!Spec

-----------------------------------------------------------------------------
LEMMA ServiceTyped == ASSUME MinutesApart, ServiceInv PROVE Service!TypeOK
  <1>1. \A t \in Ticket :
          /\ ticket[t].status \in Service!Statuses
          /\ ticket[t].assignee \in Agent \cup {None}
          /\ ticket[t].status # "NONE" => category[ticket[t].category] # "NONE"
          /\ ticket[t].status \in {"NONE", "OPEN"} <=> ticket[t].assignee = None
          /\ \A time \in {ticket[t].responded, ticket[t].resolved} \ {None} :
                 ticket[t].opened <= time
          /\ ticket[t].rated => ticket[t].status = "CLOSED"
    BY DEF ServiceInv, Sound, TicketRow
  <1>2. ASSUME NEW t \in Ticket
        PROVE  {ticket[t].opened, ticket[t].responded, ticket[t].resolved} \subseteq Service!Time
    <2>1. 0..now \subseteq Service!Time /\ None \in Service!Time
      BY DEF ServiceInv, Service!Time, MinutesApart
    <2>2. Sound(ticket[t])
      BY DEF ServiceInv
    <2> QED BY <2>1, <2>2 DEF Sound
  <1> QED BY <1>1, <1>2 DEF ServiceInv, PoliciesOf, PolicyRow, EscalationRows, Service!TypeOK

(* A ticket that was taken up has somebody to see to it, and is dated in   *)
(* order, whatever the age of what requests read.                          *)
THEOREM TicketsCorrect == ASSUME MinutesApart PROVE Service!Spec => []Service!TypeOK
  <1>1. Service!Init => ServiceInv
    BY ServiceStart
  <1>2. ServiceInv /\ [Service!Next]_(Service!vars) => ServiceInv'
    BY ServiceStep
  <1>3. ServiceInv => Service!TypeOK
    BY ServiceTyped
  <1> QED BY <1>1, <1>2, <1>3, PTL DEF Service!Spec

(***************************************************************************)
(* Escalations, by requests that follow one another.                       *)
(***************************************************************************)
Awaits(e, t) == escalation[e].ticket = t /\ escalation[e].status \in Service!Unsettled

Agrees(t) ==
    /\ ticket[t].escalated <=> \E e \in Escalation : Awaits(e, t)
    /\ \A e, f \in Escalation : Awaits(e, t) /\ Awaits(f, t) => e = f
    /\ ticket[t].status \in Service!Finished => ~ticket[t].escalated

SerialInv == ServiceInv /\ tickets = {} /\ \A t \in Ticket : Agrees(t)

LEMMA AgreeingStays ==
    ASSUME ServiceInv, NEW t \in Ticket, NEW row, Service!Set(t, row), \A s \in Ticket : Agrees(s),
           \A e \in Escalation, s \in Ticket : s # t => (Awaits(e, s)' <=> Awaits(e, s)),
           row.escalated <=> \E e \in Escalation : Awaits(e, t)',
           \A e, f \in Escalation : Awaits(e, t)' /\ Awaits(f, t)' => e = f,
           row.status \in Service!Finished => ~row.escalated
    PROVE  \A s \in Ticket : Agrees(s)'
  <1>1. ticket \in [Ticket -> TicketRow] /\ ticket' = [ticket EXCEPT ![t] = row]
    BY DEF ServiceInv, Service!Set
  <1>2. Agrees(t)'
    <2>1. ticket'[t] = row
      BY <1>1
    <2> QED BY <2>1 DEF Agrees
  <1>3. ASSUME NEW s \in Ticket, s # t PROVE Agrees(s)'
    <2>1. ticket'[s] = ticket[s]
      BY <1>1, <1>3
    <2>2. \A e \in Escalation : Awaits(e, s)' <=> Awaits(e, s)
      BY <1>3
    <2> QED BY <2>1, <2>2 DEF Agrees
  <1> QED BY <1>2, <1>3

(* Handlers that leave the escalations.                                    *)
LEMMA EscalatedKept ==
    ASSUME ServiceInv, NEW t \in Ticket, NEW row, Service!Set(t, row), \A s \in Ticket : Agrees(s),
           UNCHANGED escalation, row.escalated = ticket[t].escalated,
           row.status \in Service!Finished => ticket[t].status \in Service!Finished
    PROVE  \A s \in Ticket : Agrees(s)'
  <1>1. \A e \in Escalation, s \in Ticket : Awaits(e, s)' <=> Awaits(e, s)
    BY DEF Awaits
  <1>2. Agrees(t)
    OBVIOUS
  <1>3. row.escalated <=> \E e \in Escalation : Awaits(e, t)'
    BY <1>1, <1>2 DEF Agrees
  <1>4. \A e, f \in Escalation : Awaits(e, t)' /\ Awaits(f, t)' => e = f
    BY <1>1, <1>2 DEF Agrees
  <1> QED BY <1>1, <1>2, <1>3, <1>4, AgreeingStays DEF Agrees

(* What a handler makes of the fields that escalations are about.          *)
LEMMA TicketFields ==
    ASSUME MinutesApart, ServiceInv, NEW t \in Ticket
    PROVE  /\ \A c, p, due : LET row == [ticket[t] EXCEPT !.category = c, !.priority = p, !.due = due]
                             IN  row.escalated = ticket[t].escalated /\ row.status = ticket[t].status
           /\ \A u, status : LET row == [ticket[t] EXCEPT !.assignee = u, !.status = status]
                             IN  row.escalated = ticket[t].escalated /\ row.status = status
           /\ \A r, status : LET row == [ticket[t] EXCEPT !.responded = r, !.status = status]
                             IN  row.escalated = ticket[t].escalated /\ row.status = status
           /\ \A rated : LET row == [ticket[t] EXCEPT !.rated = rated]
                         IN  row.escalated = ticket[t].escalated /\ row.status = ticket[t].status
           /\ \A u, e, status :
                 LET row == [ticket[t] EXCEPT !.assignee = u, !.escalated = e, !.status = status]
                 IN  row.escalated = e /\ row.status = status
           /\ \A e : LET row == [ticket[t] EXCEPT !.escalated = e]
                     IN  row.escalated = e /\ row.status = ticket[t].status
           /\ \A status, p, d, e :
                 LET row == [ticket[t] EXCEPT !.status = status, !.responded = p, !.resolved = d,
                                              !.escalated = e]
                 IN  row.escalated = e /\ row.status = status
  <1>1. ticket[t] \in TicketRow
    BY DEF ServiceInv
  <1> QED BY <1>1 DEF TicketRow

LEMMA TicketStepAgrees ==
    ASSUME MinutesApart, SerialInv, Service!TicketStep PROVE \A s \in Ticket : Agrees(s)'
  <1>0. ServiceInv /\ \A s \in Ticket : Agrees(s)
    BY DEF SerialInv
  <1>1. ASSUME NEW v, NEW t \in Ticket, NEW c, NEW p, Service!UpdateTicket(v, t, c, p)
        PROVE  \A s \in Ticket : Agrees(s)'
    <2>1. PICK due : Service!Set(t, [ticket[t] EXCEPT !.category = c, !.priority = p, !.due = due])
      BY <1>1 DEF Service!UpdateTicket
    <2>2. UNCHANGED escalation
      BY <1>1 DEF Service!UpdateTicket
    <2> DEFINE row == [ticket[t] EXCEPT !.category = c, !.priority = p, !.due = due]
    <2>4. row.escalated = ticket[t].escalated /\ row.status = ticket[t].status
      BY <1>0, TicketFields
    <2>5. Service!Set(t, row)
      BY <2>1
    <2> HIDE DEF row
    <2> QED BY <1>0, <2>2, <2>4, <2>5, EscalatedKept
  <1>2. ASSUME NEW v, NEW t \in Ticket, NEW c, NEW p, NEW u, Service!CreateTicket(v, t, c, p, u)
        PROVE  \A s \in Ticket : Agrees(s)'
    <2> DEFINE status == IF u = None THEN "OPEN" ELSE "ASSIGNED"
    <2>1. PICK due : Service!Set(t, [Service!NoTicket EXCEPT !.status = status, !.category = c,
                                        !.priority = p, !.assignee = u, !.opened = now, !.due = due])
      BY <1>2 DEF Service!CreateTicket
    <2> DEFINE row == [Service!NoTicket EXCEPT !.status = status, !.category = c,
                                        !.priority = p, !.assignee = u, !.opened = now, !.due = due]
    <2>2. row.status = status /\ row.escalated = FALSE
      BY DEF Service!NoTicket
    <2>3. status \notin Service!Finished
      BY DEF Service!Finished
    <2>4. UNCHANGED escalation /\ ~ticket[t].escalated /\ ticket[t].escalated \in BOOLEAN
      BY <1>0, <1>2 DEF Service!CreateTicket, ServiceInv, Sound, TicketRow
    <2>5. Service!Set(t, row)
      BY <2>1
    <2> HIDE DEF row, status
    <2> QED BY <1>0, <2>2, <2>3, <2>4, <2>5, EscalatedKept
  <1>3. ASSUME NEW v, NEW t \in Ticket, NEW u, Service!AssignTicket(v, t, u)
        PROVE  \A s \in Ticket : Agrees(s)'
    <2>1. PICK status : status = Service!TakenUp(ticket[t].status)
      OBVIOUS
    <2>2. Service!Set(t, [ticket[t] EXCEPT !.assignee = u, !.status = status]) /\ UNCHANGED escalation
      BY <1>3, <2>1 DEF Service!AssignTicket
    <2>3. status \in Service!Finished => ticket[t].status \in Service!Finished
      BY <2>1 DEF Service!TakenUp, Service!Finished
    <2> DEFINE row == [ticket[t] EXCEPT !.assignee = u, !.status = status]
    <2>4. row.escalated = ticket[t].escalated /\ row.status = status
      BY <1>0, TicketFields
    <2>5. Service!Set(t, row)
      BY <2>2
    <2> HIDE DEF row
    <2> QED BY <1>0, <2>2, <2>3, <2>4, <2>5, EscalatedKept
  <1>4. ASSUME NEW t \in Ticket, NEW agent \in BOOLEAN, NEW internal \in BOOLEAN,
               Service!AddComment(t, agent, internal)
        PROVE  \A s \in Ticket : Agrees(s)'
    <2>1. PICK r, status :
             /\ r = (IF agent /\ ~internal THEN Service!Responded(t) ELSE ticket[t].responded)
             /\ status = (IF ~agent /\ ticket[t].status = "WAITING_FOR_CUSTOMER" THEN "IN_PROGRESS"
                          ELSE ticket[t].status)
      OBVIOUS
    <2>2. Service!Set(t, [ticket[t] EXCEPT !.responded = r, !.status = status]) /\ UNCHANGED escalation
      BY <1>4, <2>1 DEF Service!AddComment
    <2>3. status \in Service!Finished => ticket[t].status \in Service!Finished
      BY <2>1 DEF Service!Finished
    <2> DEFINE row == [ticket[t] EXCEPT !.responded = r, !.status = status]
    <2>4. row.escalated = ticket[t].escalated /\ row.status = status
      BY <1>0, TicketFields
    <2>5. Service!Set(t, row)
      BY <2>2
    <2> HIDE DEF row
    <2> QED BY <1>0, <2>2, <2>3, <2>4, <2>5, EscalatedKept
  <1>5. ASSUME NEW t \in Ticket, Service!SubmitFeedback(t) PROVE \A s \in Ticket : Agrees(s)'
    <2>1. Service!Set(t, [ticket[t] EXCEPT !.rated = TRUE]) /\ UNCHANGED escalation
      BY <1>5 DEF Service!SubmitFeedback
    <2> DEFINE row == [ticket[t] EXCEPT !.rated = TRUE]
    <2>4. row.escalated = ticket[t].escalated /\ row.status = ticket[t].status
      BY <1>0, TicketFields
    <2>5. Service!Set(t, row)
      BY <2>1
    <2> HIDE DEF row
    <2> QED BY <1>0, <2>1, <2>4, <2>5, EscalatedKept
  <1>6. ASSUME NEW v \in Service!Views, NEW t \in Ticket, NEW target, NEW agent,
               Service!TransitionTicket(v, t, target, agent)
        PROVE  \A s \in Ticket : Agrees(s)'
    <2>1. v.escalation = escalation
      BY <1>6 DEF SerialInv, Service!Views, Service!Snapshot
    <2>2. PICK p, d, e : /\ Service!Set(t, [ticket[t] EXCEPT !.status = target, !.responded = p,
                                               !.resolved = d, !.escalated = e])
                         /\ e = (ticket[t].escalated /\ target # "RESOLVED")
      BY <1>6 DEF Service!TransitionTicket
    <2> DEFINE row == [ticket[t] EXCEPT !.status = target, !.responded = p, !.resolved = d, !.escalated = e]
    <2>3. row.status = target /\ row.escalated = e
      BY <1>0, TicketFields
    <2>4. Service!Set(t, row)
      BY <2>2
    <2> HIDE DEF row
    <2>5. target = "CLOSED" => ticket[t].status = "RESOLVED"
      BY <1>6 DEF Service!TransitionTicket, Service!Moves
    <2>6. \A f \in Escalation :
             escalation'[f] = IF target = "RESOLVED" /\ Awaits(f, t)
                              THEN [escalation[f] EXCEPT !.status = "RESOLVED"] ELSE escalation[f]
      BY <1>6, <2>1 DEF Service!TransitionTicket, Awaits
    <2>7. CASE target # "RESOLVED"
      <3>1. \A f \in Escalation, s \in Ticket : Awaits(f, s)' <=> Awaits(f, s)
        BY <2>6, <2>7 DEF Awaits
      <3>2. Agrees(t) /\ row.escalated = ticket[t].escalated
        BY <1>0, <2>2, <2>3, <2>7 DEF ServiceInv, TicketRow
      <3>3. row.escalated <=> \E f \in Escalation : Awaits(f, t)'
        BY <3>1, <3>2 DEF Agrees
      <3>4. \A f, g \in Escalation : Awaits(f, t)' /\ Awaits(g, t)' => f = g
        BY <3>1, <3>2 DEF Agrees
      <3>5. row.status \in Service!Finished => ~row.escalated
        BY <2>3, <2>5, <2>7, <3>2 DEF Agrees, Service!Finished
      <3> QED BY <1>0, <2>4, <3>1, <3>3, <3>4, <3>5, AgreeingStays
    <2>8. CASE target = "RESOLVED"
      <3>1. \A f \in Escalation : /\ escalation[f].status \in Service!EscalationStatus
                                  /\ [escalation[f] EXCEPT !.status = "RESOLVED"].status = "RESOLVED"
                                  /\ [escalation[f] EXCEPT !.status = "RESOLVED"].ticket
                                        = escalation[f].ticket
        BY <1>0 DEF ServiceInv, EscalationRows
      <3>2. \A f \in Escalation : ~Awaits(f, t)'
        BY <2>6, <2>8, <3>1 DEF Awaits, Service!Unsettled
      <3>3. \A f \in Escalation, s \in Ticket : s # t => (Awaits(f, s)' <=> Awaits(f, s))
        BY <2>6, <2>8, <3>1 DEF Awaits, Service!Unsettled
      <3>4. ~row.escalated
        BY <2>2, <2>3, <2>8
      <3> QED BY <1>0, <2>4, <3>2, <3>3, <3>4, AgreeingStays
    <2> QED BY <2>7, <2>8
  <1> QED BY <1>1, <1>2, <1>3, <1>4, <1>5, <1>6 DEF Service!TicketStep

LEMMA EscalationStepAgrees ==
    ASSUME MinutesApart, SerialInv, Service!EscalationStep PROVE \A s \in Ticket : Agrees(s)'
  <1>0. /\ ServiceInv /\ \A s \in Ticket : Agrees(s)
        /\ escalation \in [Escalation -> [status: Service!EscalationStatus, ticket: Ticket \cup {None}]]
        /\ \A e \in Escalation : escalation[e].status # "NONE" => escalation[e].ticket \in Ticket
    BY DEF SerialInv, ServiceInv, EscalationRows
  <1>1. ASSUME NEW v \in Service!Views, NEW t \in Ticket, NEW e \in Escalation, NEW u,
               Service!EscalateTicket(v, t, e, u)
        PROVE  \A s \in Ticket : Agrees(s)'
    <2>1. v.escalation = escalation
      BY <1>1 DEF SerialInv, Service!Views, Service!Snapshot
    <2>2. \A f \in Escalation : ~Awaits(f, t)
      BY <1>1, <2>1 DEF Service!EscalateTicket, Awaits
    <2>3. PICK status : status = Service!TakenUp(ticket[t].status)
      OBVIOUS
    <2> DEFINE row == [ticket[t] EXCEPT !.assignee = u, !.escalated = TRUE, !.status = status]
    <2>4. Service!Set(t, row)
      BY <1>1, <2>3 DEF Service!EscalateTicket
    <2>5. row.escalated = TRUE /\ row.status = status
      BY <1>0, TicketFields
    <2> HIDE DEF row
    <2>6. status \notin Service!Finished
      BY <1>1, <2>3 DEF Service!EscalateTicket, Service!TakenUp, Service!Finished
    <2>7. /\ escalation'[e] = [status |-> "OPEN", ticket |-> t]
          /\ \A f \in Escalation : f # e => escalation'[f] = escalation[f]
          /\ escalation[e].status = "NONE"
      BY <1>0, <1>1 DEF Service!EscalateTicket
    <2>8. Awaits(e, t)' /\ \A s \in Ticket : s # t => ~Awaits(e, s)' /\ ~Awaits(e, s)
      BY <2>7 DEF Awaits, Service!Unsettled
    <2>9. \A f \in Escalation, s \in Ticket : f # e => (Awaits(f, s)' <=> Awaits(f, s))
      BY <2>7 DEF Awaits
    <2> QED BY <1>0, <2>2, <2>4, <2>5, <2>6, <2>8, <2>9, AgreeingStays
  <1>2. ASSUME NEW e \in Escalation, NEW status \in {"ACKNOWLEDGED", "RESOLVED"},
               escalation' = [escalation EXCEPT ![e].status = status]
        PROVE  /\ escalation'[e].status = status /\ escalation'[e].ticket = escalation[e].ticket
               /\ \A f \in Escalation : f # e => escalation'[f] = escalation[f]
    BY <1>0, <1>2
  <1>3. ASSUME NEW e \in Escalation, Service!AcknowledgeEscalation(e)
        PROVE  \A s \in Ticket : Agrees(s)'
    <2>1. /\ escalation'[e].status = "ACKNOWLEDGED" /\ escalation'[e].ticket = escalation[e].ticket
          /\ \A f \in Escalation : f # e => escalation'[f] = escalation[f]
          /\ escalation[e].status = "OPEN" /\ UNCHANGED ticket
      BY <1>2, <1>3 DEF Service!AcknowledgeEscalation
    <2>2. \A f \in Escalation, s \in Ticket : Awaits(f, s)' <=> Awaits(f, s)
      BY <2>1 DEF Awaits, Service!Unsettled
    <2>3. ASSUME NEW s \in Ticket PROVE Agrees(s)'
      BY <1>0, <2>1, <2>2 DEF Agrees
    <2> QED BY <2>3
  <1>4. ASSUME NEW e \in Escalation, Service!ResolveEscalation(e)
        PROVE  \A s \in Ticket : Agrees(s)'
    <2>0. PICK t : t = escalation[e].ticket
      OBVIOUS
    <2> DEFINE row == [ticket[t] EXCEPT !.escalated = FALSE]
    <2>1. /\ escalation'[e].status = "RESOLVED" /\ escalation'[e].ticket = t
          /\ \A f \in Escalation : f # e => escalation'[f] = escalation[f]
          /\ Awaits(e, t) /\ t \in Ticket /\ Service!Set(t, row)
      BY <1>0, <1>2, <1>4, <2>0 DEF Service!ResolveEscalation, Awaits, Service!Unsettled
    <2>2. row.escalated = FALSE /\ row.status = ticket[t].status
      BY <1>0, <2>1, TicketFields
    <2> HIDE DEF row
    <2>3. \A f \in Escalation, s \in Ticket : f # e => (Awaits(f, s)' <=> Awaits(f, s))
      BY <2>1 DEF Awaits
    <2>4. ~Awaits(e, t)' /\ \A s \in Ticket : ~Awaits(e, s)' /\ (s # t => ~Awaits(e, s))
      BY <2>1 DEF Awaits, Service!Unsettled
    <2>5. \A f \in Escalation : ~Awaits(f, t)'
      BY <1>0, <2>1, <2>3, <2>4 DEF Agrees
    <2>6. \A f \in Escalation, s \in Ticket : s # t => (Awaits(f, s)' <=> Awaits(f, s))
      BY <2>3, <2>4
    <2> QED BY <1>0, <2>1, <2>2, <2>5, <2>6, AgreeingStays
  <1> QED BY <1>1, <1>3, <1>4 DEF Service!EscalationStep

LEMMA SerialStep == ASSUME MinutesApart, SerialInv, [Service!Step]_(Service!vars) PROVE SerialInv'
  <1>1. ServiceInv'
    BY ServiceStep DEF SerialInv, Service!Next
  <1>2. CASE UNCHANGED <<ticket, escalation, tickets>>
    BY <1>1, <1>2 DEF SerialInv, Agrees, Awaits
  <1>3. CASE Service!SettingsStep
    BY <1>2, <1>3 DEF Service!SettingsStep, Service!Tick, Service!StaffChanges, Service!CreateCategory,
                      Service!UpdateCategory, Service!CreatePolicy, Service!UpdatePolicy
  <1>4. CASE Service!TicketStep \/ Service!EscalationStep
    <2>1. \A s \in Ticket : Agrees(s)'
      BY <1>4, TicketStepAgrees, EscalationStepAgrees
    <2>2. tickets' = {}
      BY <1>4, TicketViewsSame DEF SerialInv, Service!Step
    <2> QED BY <1>1, <2>1, <2>2 DEF SerialInv
  <1>5. CASE UNCHANGED Service!vars
    BY <1>2, <1>5 DEF Service!vars
  <1> QED BY <1>3, <1>4, <1>5 DEF Service!Step

LEMMA SerialStart == ASSUME MinutesApart, Service!Init PROVE SerialInv
  <1>1. \A e \in Escalation, t \in Ticket : ~Awaits(e, t)
    BY DEF Service!Init, Awaits, Service!Unsettled
  <1>2. \A t \in Ticket : ticket[t].status = "NONE" /\ ~ticket[t].escalated
    BY DEF Service!Init, Service!NoTicket
  <1>3. \A t \in Ticket : Agrees(t)
    BY <1>1, <1>2 DEF Agrees, Service!Finished
  <1> QED BY <1>3, ServiceStart DEF SerialInv, Service!Init

LEMMA SerialShows == ASSUME SerialInv PROVE Service!EscalationsAgree
  <1> SUFFICES ASSUME NEW t \in Ticket
               PROVE  LET active == {e \in Escalation : Awaits(e, t)}
                      IN  /\ ticket[t].escalated <=> active # {}
                          /\ \A e, f \in active : e = f
                          /\ ticket[t].status \in Service!Finished => active = {}
    BY DEF Service!EscalationsAgree, Awaits
  <1> QED BY DEF SerialInv, Agrees

(* One request after the other, a ticket shows as escalated exactly while  *)
(* one escalation of it awaits its end, and none outlives the ticket.      *)
THEOREM EscalationsCorrect ==
    ASSUME MinutesApart
    PROVE  Service!Init /\ [][Service!Step]_(Service!vars) => []Service!EscalationsAgree
  BY SerialStart, SerialStep, SerialShows, PTL

-----------------------------------------------------------------------------
(***************************************************************************)
(* Who occupies a rental property, by requests that follow one another:    *)
(* for any properties, tenants, leases, terms, renewals and moves.         *)
(***************************************************************************)
CONSTANTS Property, Tenant, Lease, Paper, Payment, Renewal, Move, Calendar, Terms, EndDates, Rent
VARIABLES property, tenant, lease, paper, schedule, payment, renewal, move, leases

Rental == INSTANCE Rentals WITH Document <- Paper, document <- paper, old <- leases

(* Terms are dates.                                                        *)
TermsDated == Terms \subseteq [start: Int, end: Int, due_day: Int] /\ EndDates \subseteq Int

LeaseRow == [status: Rental!LeaseStatus \cup {"NONE"}, property: Property \cup {None}, holds: BOOLEAN,
             start: Int, end: Int, due_day: Int]
RenewalRow == [lease: Lease \cup {None}, end: Int, status: Rental!WorkflowStatus]
MoveRow == [lease: Lease \cup {None}, type: {"NONE", "MOVE_IN", "MOVE_OUT"},
            status: Rental!WorkflowStatus]

Pending(row) == row.status \in {"REQUESTED", "APPROVED"}

(* What a lease is at while a move of it is under way.                     *)
Expected(row) ==
    IF row.type = "MOVE_IN" THEN "MOVE_IN_PENDING"
    ELSE IF row.status = "REQUESTED" THEN "NOTICE_GIVEN" ELSE "MOVE_OUT_PENDING"

RentalRows ==
    /\ property \in [Property -> Rental!PropertyStatus]
    /\ lease \in [Lease -> LeaseRow]
    /\ renewal \in [Renewal -> RenewalRow]
    /\ move \in [Move -> MoveRow]
    /\ leases = {}

Let ==
    \A l \in Lease :
        /\ lease[l].status # "NONE" => lease[l].property \in Property
        /\ lease[l].holds <=> lease[l].status \in Rental!Living
        /\ lease[l].status \in Rental!Living \ {"MOVE_IN_PENDING"}
              => property[lease[l].property] = "OCCUPIED"

Alone ==
    \A l, m \in Lease : lease[l].holds /\ lease[m].holds /\ lease[l].property = lease[m].property => l = m

(* The moves under way fit their leases, one to each.                      *)
UnderWay ==
    /\ \A m \in Move : Pending(move[m]) => /\ move[m].type # "NONE" /\ move[m].lease \in Lease
                                           /\ lease[move[m].lease].status = Expected(move[m])
    /\ \A m, n \in Move :
          Pending(move[m]) /\ Pending(move[n]) /\ move[m].lease = move[n].lease => m = n

RentalInv == RentalRows /\ Let /\ Alone /\ UnderWay

-----------------------------------------------------------------------------
(* Requests that touch no lease's status, no move and no property.         *)
LEMMA OccupancyKept ==
    ASSUME RentalInv, UNCHANGED <<property, move, leases>>, renewal' \in [Renewal -> RenewalRow],
           lease' \in [Lease -> LeaseRow],
           \A l \in Lease : /\ lease'[l].status = lease[l].status /\ lease'[l].holds = lease[l].holds
                            /\ lease'[l].property = lease[l].property
    PROVE  RentalInv'
  <1>1. RentalRows'
    BY DEF RentalInv, RentalRows
  <1>2. Let' /\ Alone'
    BY DEF RentalInv, Let, Alone
  <1>3. UnderWay'
    BY DEF RentalInv, UnderWay, Pending, Expected
  <1> QED BY <1>1, <1>2, <1>3 DEF RentalInv

LEMMA RentalUnchanged ==
    ASSUME RentalInv, UNCHANGED <<property, lease, renewal, move, leases>> PROVE RentalInv'
  BY OccupancyKept DEF RentalInv, RentalRows

(* A row is replaced.                                                      *)
Becomes(f, g, i, row) == g = [f EXCEPT ![i] = row]

(* One lease is at another status, and its property with it.               *)
LEMMA LeaseMoves ==
    ASSUME RentalInv, NEW l \in Lease, NEW row \in LeaseRow, Becomes(lease, lease', l, row),
           property' \in [Property -> Rental!PropertyStatus],
           \A p \in Property : property'[p] = property[p] \/ p = row.property,
           row.status # "NONE" => row.property \in Property,
           row.holds <=> row.status \in Rental!Living,
           row.status \in Rental!Living \ {"MOVE_IN_PENDING"} => property'[row.property] = "OCCUPIED",
           (* nobody else is there, or nothing changes for him *)
           \/ \A k \in Lease \ {l} : lease[k].holds => lease[k].property # row.property
           \/ /\ ~row.holds
              /\ property' = property
    PROVE  Let' /\ Alone'
  <1>1. /\ lease'[l] = row
        /\ \A k \in Lease : k # l => lease'[k] = lease[k]
    BY DEF RentalInv, RentalRows, Becomes
  <1>2. ASSUME NEW k \in Lease, k # l, lease[k].status \in Rental!Living \ {"MOVE_IN_PENDING"}
        PROVE  property'[lease[k].property] = "OCCUPIED"
    <2>1. lease[k].holds /\ lease[k].property \in Property /\ property[lease[k].property] = "OCCUPIED"
      BY <1>2 DEF RentalInv, Let, Rental!Living
    <2> QED BY <1>2, <2>1
  <1>3. Let'
    BY <1>1, <1>2 DEF RentalInv, Let
  <1>4. Alone'
    BY <1>1 DEF RentalInv, Alone
  <1> QED BY <1>3, <1>4

LEMMA LettingOccupies == ASSUME TermsDated, RentalInv, Rental!LettingStep PROVE RentalInv'
  <1>0. RentalRows /\ Let /\ Alone /\ UnderWay
    BY DEF RentalInv
  <1>1. ASSUME NEW p \in Property, NEW status \in Rental!PropertyStatus, Rental!UpdateProperty(p, status)
        PROVE  RentalInv'
    <2>1. /\ property' \in [Property -> Rental!PropertyStatus]
          /\ \A q \in Property : property[q] = "OCCUPIED" => property'[q] = "OCCUPIED"
          /\ UNCHANGED <<lease, renewal, move, leases>>
      BY <1>0, <1>1 DEF Rental!UpdateProperty, RentalRows, Rental!workflow
    <2>2. RentalRows' /\ Alone' /\ UnderWay'
      BY <1>0, <2>1 DEF RentalRows, Alone, UnderWay
    <2>3. Let'
      BY <1>0, <2>1 DEF Let, Rental!Living
    <2> QED BY <2>2, <2>3 DEF RentalInv
  <1>2. ASSUME NEW t \in Tenant, NEW active, Rental!UpdateTenant(t, active) PROVE RentalInv'
    BY <1>2, RentalUnchanged DEF Rental!UpdateTenant, Rental!workflow
  <1>3. ASSUME NEW v, NEW l \in Lease, NEW t, NEW p \in Property, NEW d, NEW terms \in Terms,
               Rental!CreateLease(v, l, t, p, d, terms)
        PROVE  RentalInv'
    <2> DEFINE row == [status |-> "DRAFT", property |-> p, holds |-> FALSE, start |-> terms.start,
                       end |-> terms.end, due_day |-> terms.due_day]
    <2>1. row \in LeaseRow
      BY DEF TermsDated, LeaseRow, Rental!LeaseStatus
    <2>2. row.status = "DRAFT" /\ ~row.holds /\ row.property = p
      OBVIOUS
    <2>3. /\ lease' = [lease EXCEPT ![l] = row] /\ lease[l].status = "NONE"
          /\ UNCHANGED <<property, renewal, move, leases>>
      BY <1>3 DEF Rental!CreateLease, Rental!workflow
    <2> HIDE DEF row
    <2>4. Let' /\ Alone'
      BY <1>0, <2>1, <2>2, <2>3, LeaseMoves DEF RentalRows, Rental!Living, Becomes
    <2>5. RentalRows'
      BY <1>0, <2>1, <2>3 DEF RentalRows
    <2>6. UnderWay'
      BY <1>0, <2>3 DEF UnderWay, RentalRows, Expected
    <2> QED BY <2>4, <2>5, <2>6 DEF RentalInv
  <1>4. ASSUME NEW d, NEW row, Rental!SetDocument(d, row) PROVE RentalInv'
    BY <1>4, RentalUnchanged DEF Rental!SetDocument, Rental!workflow
  <1>5. ASSUME NEW l \in Lease, Rental!IssueLease(l) PROVE RentalInv'
    <2> DEFINE row == [lease[l] EXCEPT !.status = "PENDING_SIGNATURE"]
    <2>1. /\ row \in LeaseRow /\ row.status = "PENDING_SIGNATURE" /\ row.holds = lease[l].holds
          /\ row.property = lease[l].property
      BY <1>0 DEF RentalRows, LeaseRow, Rental!LeaseStatus
    <2>2. /\ lease' = [lease EXCEPT ![l] = row] /\ lease[l].status = "DRAFT"
          /\ UNCHANGED <<property, renewal, move, leases>>
      BY <1>5 DEF Rental!IssueLease, Rental!workflow
    <2> HIDE DEF row
    <2>3. lease[l].property \in Property /\ ~lease[l].holds
      BY <1>0, <2>2 DEF Let, Rental!Living
    <2>4. Let' /\ Alone'
      BY <1>0, <2>1, <2>2, <2>3, LeaseMoves DEF RentalRows, Rental!Living, Becomes
    <2>5. RentalRows'
      BY <1>0, <2>1, <2>2 DEF RentalRows
    <2>6. UnderWay'
      BY <1>0, <2>2 DEF UnderWay, RentalRows, Expected
    <2> QED BY <2>4, <2>5, <2>6 DEF RentalInv
  <1>6. ASSUME NEW v, NEW l \in Lease, Rental!SignLease(v, l) PROVE RentalInv'
    <2> DEFINE row == [lease[l] EXCEPT !.status = "MOVE_IN_PENDING", !.holds = TRUE]
    <2>1. /\ row \in LeaseRow /\ row.status = "MOVE_IN_PENDING" /\ row.holds
          /\ row.property = lease[l].property
      BY <1>0 DEF RentalRows, LeaseRow, Rental!LeaseStatus
    <2>2. /\ lease' = [lease EXCEPT ![l] = row] /\ lease[l].status = "PENDING_SIGNATURE"
          /\ property' = [property EXCEPT ![lease[l].property] = "RESERVED"]
          /\ \A k \in Lease : ~(lease[k].holds /\ lease[k].property = lease[l].property)
          /\ UNCHANGED <<renewal, move, leases>>
      BY <1>6 DEF Rental!SignLease, Rental!workflow
    <2> HIDE DEF row
    <2>3. lease[l].property \in Property
      BY <1>0, <2>2 DEF Let
    <2>4. /\ property' \in [Property -> Rental!PropertyStatus]
          /\ \A p \in Property : property'[p] = property[p] \/ p = row.property
      BY <1>0, <2>1, <2>2, <2>3 DEF RentalRows, Rental!PropertyStatus
    <2>5. /\ \A k \in Lease \ {l} : lease[k].holds => lease[k].property # row.property
          /\ row.holds <=> row.status \in Rental!Living
          /\ row.status \notin Rental!Living \ {"MOVE_IN_PENDING"}
      BY <2>1, <2>2 DEF Rental!Living
    <2>6. Let' /\ Alone'
      BY <2>1, <2>2, <2>3, <2>4, <2>5, LeaseMoves DEF Becomes
    <2>7. RentalRows'
      BY <1>0, <2>1, <2>2, <2>4 DEF RentalRows
    <2>8. UnderWay'
      BY <1>0, <2>2 DEF UnderWay, RentalRows, Expected
    <2> QED BY <2>6, <2>7, <2>8 DEF RentalInv
  <1> QED BY <1>1, <1>2, <1>3, <1>4, <1>5, <1>6 DEF Rental!LettingStep, Rental!AddDocument,
                                           Rental!UploadDocument, Rental!DecideDocument

LEMMA CollectingOccupies == ASSUME RentalInv, Rental!CollectingStep PROVE RentalInv'
  <1>1. ASSUME NEW l, NEW i, Rental!IssueInvoice(l, i) PROVE RentalInv'
    BY <1>1, RentalUnchanged DEF Rental!IssueInvoice, Rental!workflow
  <1>2. ASSUME NEW l, NEW i, Rental!FallsDue(l, i) PROVE RentalInv'
    BY <1>2, RentalUnchanged DEF Rental!FallsDue, Rental!workflow
  <1>3. ASSUME NEW v, NEW k, NEW l, NEW i, NEW amount, Rental!SubmitPayment(v, k, l, i, amount)
        PROVE  RentalInv'
    BY <1>3, RentalUnchanged DEF Rental!SubmitPayment, Rental!workflow
  <1>4. ASSUME NEW k, Rental!FailPayment(k) PROVE RentalInv'
    BY <1>4, RentalUnchanged DEF Rental!FailPayment, Rental!workflow
  <1>5. ASSUME NEW k, Rental!CompletePayment(k) PROVE RentalInv'
    BY <1>5, RentalUnchanged DEF Rental!CompletePayment, Rental!workflow
  <1>6. ASSUME NEW v, Rental!ExpireOverdue(v) PROVE RentalInv'
    BY <1>6, RentalUnchanged DEF Rental!ExpireOverdue, Rental!workflow
  <1> QED BY <1>1, <1>2, <1>3, <1>4, <1>5, <1>6 DEF Rental!CollectingStep

LEMMA RenewalOccupies == ASSUME TermsDated, RentalInv, Rental!RenewalStep PROVE RentalInv'
  <1>0. RentalRows
    BY DEF RentalInv
  <1>1. ASSUME NEW v, NEW r \in Renewal, NEW l \in Lease, NEW end \in EndDates,
               Rental!RequestRenewal(v, r, l, end)
        PROVE  RentalInv'
    <2>1. [lease |-> l, end |-> end, status |-> "REQUESTED"] \in RenewalRow
      BY DEF TermsDated, RenewalRow, Rental!WorkflowStatus
    <2>2. renewal' \in [Renewal -> RenewalRow] /\ UNCHANGED <<property, lease, move, leases>>
      BY <1>0, <1>1, <2>1 DEF Rental!RequestRenewal, RentalRows
    <2> QED BY <1>0, <2>2, OccupancyKept DEF RentalRows
  <1>2. ASSUME NEW r \in Renewal, NEW status \in {"REJECTED", "COMPLETED"},
               renewal' = [renewal EXCEPT ![r].status = status]
        PROVE  renewal' \in [Renewal -> RenewalRow]
    <2>1. [renewal[r] EXCEPT !.status = status] \in RenewalRow
      BY <1>0 DEF RentalRows, RenewalRow, Rental!WorkflowStatus
    <2> QED BY <1>0, <1>2, <2>1 DEF RentalRows
  <1>3. ASSUME NEW r \in Renewal, Rental!RejectRenewal(r) PROVE RentalInv'
    BY <1>0, <1>2, <1>3, OccupancyKept DEF Rental!RejectRenewal, RentalRows
  <1>4. ASSUME NEW r \in Renewal, Rental!ApproveRenewal(r) PROVE RentalInv'
    <2>1. PICK l, end : /\ l = renewal[r].lease /\ end = renewal[r].end
                        /\ lease' = [lease EXCEPT ![l].end = end]
                        /\ renewal' = [renewal EXCEPT ![r].status = "COMPLETED"]
                        /\ UNCHANGED <<property, move, leases>>
      BY <1>4 DEF Rental!ApproveRenewal
    <2>2. end \in Int
      BY <1>0, <2>1 DEF RentalRows, RenewalRow
    <2>3. ASSUME NEW k \in Lease
          PROVE  /\ lease'[k] \in LeaseRow
                 /\ lease'[k].status = lease[k].status /\ lease'[k].holds = lease[k].holds
                 /\ lease'[k].property = lease[k].property
      <3>1. /\ [lease[k] EXCEPT !.end = end] \in LeaseRow
            /\ [lease[k] EXCEPT !.end = end].status = lease[k].status
            /\ [lease[k] EXCEPT !.end = end].holds = lease[k].holds
            /\ [lease[k] EXCEPT !.end = end].property = lease[k].property
        BY <1>0, <2>2 DEF RentalRows, LeaseRow
      <3>2. lease'[k] = lease[k] \/ lease'[k] = [lease[k] EXCEPT !.end = end]
        BY <1>0, <2>1 DEF RentalRows
      <3> QED BY <1>0, <3>1, <3>2 DEF RentalRows
    <2>4. lease' \in [Lease -> LeaseRow]
      BY <1>0, <2>1, <2>3 DEF RentalRows
    <2> QED BY <1>2, <2>1, <2>3, <2>4, OccupancyKept
  <1> QED BY <1>1, <1>3, <1>4 DEF Rental!RenewalStep

(* A move and its lease go on together.                                    *)
LEMMA MoveGoesOn ==
    ASSUME RentalInv, NEW m \in Move, NEW step \in MoveRow, Becomes(move, move', m, step),
           NEW l \in Lease, step.lease = l, NEW row \in LeaseRow, Becomes(lease, lease', l, row),
           Pending(step) => step.type # "NONE" /\ row.status = Expected(step),
           (* no other move of the lease is under way *)
           \A n \in Move \ {m} : ~(Pending(move[n]) /\ move[n].lease = l)
    PROVE  UnderWay'
  <1>0. RentalRows /\ UnderWay
    BY DEF RentalInv
  <1>1. /\ move'[m] = step /\ \A n \in Move \ {m} : move'[n] = move[n]
        /\ lease'[l] = row /\ \A k \in Lease \ {l} : lease'[k] = lease[k]
    BY <1>0 DEF RentalRows, Becomes
  <1>2. ASSUME NEW n \in Move, Pending(move'[n])
        PROVE  /\ move'[n].type # "NONE" /\ move'[n].lease \in Lease
               /\ lease'[move'[n].lease].status = Expected(move'[n])
    <2>1. CASE n = m
      BY <1>1, <1>2, <2>1
    <2>2. CASE n # m
      <3>1. move'[n] = move[n] /\ Pending(move[n])
        BY <1>1, <1>2, <2>2
      <3>2. move[n].lease \in Lease \ {l} /\ move[n].type # "NONE"
            /\ lease[move[n].lease].status = Expected(move[n])
        BY <1>0, <2>2, <3>1 DEF UnderWay
      <3> QED BY <1>1, <3>1, <3>2
    <2> QED BY <2>1, <2>2
  <1>3. ASSUME NEW n \in Move, NEW k \in Move, Pending(move'[n]), Pending(move'[k]),
               move'[n].lease = move'[k].lease
        PROVE  n = k
    BY <1>0, <1>1, <1>3 DEF UnderWay
  <1> QED BY <1>2, <1>3 DEF UnderWay, Pending

(* A lease's status changes among those in which it holds its property.    *)
LEMMA TenantStays ==
    ASSUME RentalInv, NEW m \in Move, NEW step \in MoveRow, Becomes(move, move', m, step),
           NEW l \in Lease, step.lease = l, NEW row \in LeaseRow, Becomes(lease, lease', l, row),
           row.status \in Rental!Living, lease[l].status \in Rental!Living,
           row.holds = lease[l].holds, row.property = lease[l].property,
           Pending(step) => step.type # "NONE" /\ row.status = Expected(step),
           \A n \in Move \ {m} : ~(Pending(move[n]) /\ move[n].lease = l),
           property' \in [Property -> Rental!PropertyStatus],
           \A p \in Property : property'[p] = property[p] \/ p = lease[l].property,
           row.status # "MOVE_IN_PENDING" => property'[lease[l].property] = "OCCUPIED",
           UNCHANGED <<renewal, leases>>
    PROVE  RentalInv'
  <1>0. RentalRows /\ Let /\ Alone
    BY DEF RentalInv
  <1>1. lease[l].property \in Property /\ lease[l].holds
    BY <1>0 DEF Let, Rental!Living
  <1>2. \A p \in Property : property'[p] = property[p] \/ p = row.property
    OBVIOUS
  <1>3. \A k \in Lease \ {l} : lease[k].holds => lease[k].property # row.property
    BY <1>0, <1>1 DEF Alone
  <1>4. /\ row.holds /\ row.property \in Property
        /\ row.status # "MOVE_IN_PENDING" => property'[row.property] = "OCCUPIED"
    BY <1>1
  <1>5. Let' /\ Alone'
    BY <1>2, <1>3, <1>4, LeaseMoves
  <1>6. UnderWay'
    BY MoveGoesOn
  <1>7. RentalRows'
    BY <1>0, <1>2 DEF RentalRows, Becomes
  <1> QED BY <1>5, <1>6, <1>7 DEF RentalInv

LEMMA MoveOccupies == ASSUME RentalInv, Rental!MoveStep PROVE RentalInv'
  <1>0. RentalRows /\ Let /\ Alone /\ UnderWay
    BY DEF RentalInv
  <1>1. ASSUME NEW l \in Lease, NEW status \in Rental!LeaseStatus, NEW holds \in BOOLEAN
        PROVE  LET row == [lease[l] EXCEPT !.status = status, !.holds = holds]
               IN  /\ row \in LeaseRow /\ row.status = status /\ row.holds = holds
                   /\ row.property = lease[l].property
    BY <1>0 DEF RentalRows, LeaseRow
  <1>2. ASSUME NEW l \in Lease, NEW status \in Rental!Living
        PROVE  LET row == [lease[l] EXCEPT !.status = status]
               IN  /\ row \in LeaseRow /\ row.status = status /\ row.holds = lease[l].holds
                   /\ row.property = lease[l].property
    BY <1>0 DEF RentalRows, LeaseRow, Rental!Living, Rental!LeaseStatus
  <1>3. ASSUME NEW m \in Move, NEW status \in Rental!WorkflowStatus
        PROVE  LET step == [move[m] EXCEPT !.status = status]
               IN  /\ step \in MoveRow /\ step.status = status /\ step.type = move[m].type
                   /\ step.lease = move[m].lease
    BY <1>0 DEF RentalRows, MoveRow
  <1>4. ASSUME NEW m \in Move, Pending(move[m])
        PROVE  /\ move[m].lease \in Lease /\ move[m].type \in {"MOVE_IN", "MOVE_OUT"}
               /\ lease[move[m].lease].status = Expected(move[m])
               /\ lease[move[m].lease].status \in Rental!Living
               /\ lease[move[m].lease].property \in Property
               /\ lease[move[m].lease].holds
               /\ \A n \in Move \ {m} : ~(Pending(move[n]) /\ move[n].lease = move[m].lease)
    <2>1. move[m] \in MoveRow /\ move[m].lease \in Lease /\ move[m].type # "NONE"
      BY <1>0, <1>4 DEF RentalRows, UnderWay
    <2>2. lease[move[m].lease].status = Expected(move[m])
      BY <1>0, <1>4 DEF UnderWay
    <2>3. lease[move[m].lease].status \in Rental!Living
      BY <2>2 DEF Expected, Rental!Living
    <2>4. \A n \in Move \ {m} : ~(Pending(move[n]) /\ move[n].lease = move[m].lease)
      BY <1>0, <1>4 DEF UnderWay
    <2> QED BY <1>0, <2>1, <2>2, <2>3, <2>4 DEF MoveRow, Let, Rental!Living
  <1>5. ASSUME NEW v \in Rental!Views, NEW m \in Move, NEW l \in Lease,
               NEW type \in {"MOVE_IN", "MOVE_OUT"}, Rental!RequestMove(v, m, l, type)
        PROVE  RentalInv'
    <2>1. v.move = move
      BY <1>0, <1>5 DEF RentalRows, Rental!Views, Rental!Snapshot
    <2> DEFINE step == [lease |-> l, type |-> type, status |-> "REQUESTED"]
               status == IF type = "MOVE_OUT" THEN "NOTICE_GIVEN" ELSE lease[l].status
    <2>2. /\ move' = [move EXCEPT ![m] = step] /\ lease' = [lease EXCEPT ![l].status = status]
          /\ UNCHANGED <<property, renewal, leases>>
      BY <1>5 DEF Rental!RequestMove
    <2>3. lease[l].status = IF type = "MOVE_IN" THEN "MOVE_IN_PENDING" ELSE "ACTIVE"
      BY <1>5 DEF Rental!RequestMove
    <2>4. \A n \in Move : ~(/\ move[n].lease = l /\ move[n].type = type
                            /\ move[n].status \in {"REQUESTED", "APPROVED"})
      BY <1>5, <2>1 DEF Rental!RequestMove
    <2>5. /\ step \in MoveRow /\ step.lease = l /\ step.type = type /\ step.status = "REQUESTED"
      BY DEF MoveRow, Rental!WorkflowStatus
    <2>6. status = Expected(step) /\ status \in Rental!Living /\ lease[l].status \in Rental!Living
      BY <2>3, <2>5 DEF Expected, Rental!Living
    <2>7. ASSUME NEW n \in Move, Pending(move[n]), move[n].lease = l PROVE FALSE
      <3>1. move[n].type # type
        BY <2>4, <2>7 DEF Pending
      <3> QED BY <1>4, <2>3, <2>7, <3>1 DEF Expected
    <2>8. status # "MOVE_IN_PENDING" => property'[lease[l].property] = "OCCUPIED"
      BY <1>0, <2>2, <2>3 DEF Let, Rental!Living
    <2>9. /\ \A n \in Move \ {m} : ~(Pending(move[n]) /\ move[n].lease = l)
          /\ Pending(step) => step.type # "NONE" /\ status = Expected(step)
      BY <2>5, <2>6, <2>7
    <2> HIDE DEF step, status
    <2> DEFINE row == [lease[l] EXCEPT !.status = status]
    <2>10. /\ row \in LeaseRow /\ row.status = status /\ row.holds = lease[l].holds
           /\ row.property = lease[l].property
      BY <1>2, <2>6
    <2>11. Becomes(lease, lease', l, row) /\ Becomes(move, move', m, step)
      BY <2>2 DEF Becomes
    <2> HIDE DEF row
    <2>12. /\ property' \in [Property -> Rental!PropertyStatus] /\ UNCHANGED <<property, renewal, leases>>
           /\ lease[l].status \in Rental!Living /\ step \in MoveRow /\ step.lease = l
      BY <1>0, <2>2, <2>5, <2>6 DEF RentalRows
    <2> QED BY <2>6, <2>8, <2>9, <2>10, <2>11, <2>12, TenantStays
  <1>6. ASSUME NEW m \in Move, NEW verdict \in {"APPROVED", "REJECTED"}, Rental!DecideMove(m, verdict)
        PROVE  RentalInv'
    <2>1. PICK l : l = move[m].lease
      OBVIOUS
    <2> DEFINE step == [move[m] EXCEPT !.status = verdict]
               status == IF move[m].type = "MOVE_IN" THEN lease[l].status
                         ELSE IF verdict = "APPROVED" THEN "MOVE_OUT_PENDING" ELSE "ACTIVE"
    <2>2. /\ move' = [move EXCEPT ![m] = step] /\ lease' = [lease EXCEPT ![l].status = status]
          /\ move[m].status = "REQUESTED" /\ UNCHANGED <<property, renewal, leases>>
      BY <1>6, <2>1 DEF Rental!DecideMove
    <2>3. /\ l \in Lease /\ move[m].type \in {"MOVE_IN", "MOVE_OUT"} /\ lease[l].status = Expected(move[m])
          /\ lease[l].status \in Rental!Living
          /\ \A n \in Move \ {m} : ~(Pending(move[n]) /\ move[n].lease = l)
      BY <1>4, <2>1, <2>2 DEF Pending
    <2>4. /\ step \in MoveRow /\ step.lease = l /\ step.type = move[m].type /\ step.status = verdict
      <3>1. verdict \in Rental!WorkflowStatus
        BY DEF Rental!WorkflowStatus
      <3> QED BY <1>3, <2>1, <3>1
    <2>5. /\ status \in Rental!Living
          /\ verdict = "APPROVED" => status = Expected(step)
          /\ status # "MOVE_IN_PENDING" => lease[l].status # "MOVE_IN_PENDING"
      BY <2>2, <2>3, <2>4 DEF Expected, Rental!Living
    <2>6. status # "MOVE_IN_PENDING" => property'[lease[l].property] = "OCCUPIED"
      BY <1>0, <2>2, <2>3, <2>5 DEF Let
    <2>7. Pending(step) => step.type # "NONE" /\ status = Expected(step)
      BY <2>3, <2>4, <2>5 DEF Pending
    <2> HIDE DEF step, status
    <2> DEFINE row == [lease[l] EXCEPT !.status = status]
    <2>8. /\ row \in LeaseRow /\ row.status = status /\ row.holds = lease[l].holds
          /\ row.property = lease[l].property
      BY <1>2, <2>3, <2>5
    <2>9. Becomes(lease, lease', l, row) /\ Becomes(move, move', m, step)
      BY <2>2 DEF Becomes
    <2> HIDE DEF row
    <2>10. property' \in [Property -> Rental!PropertyStatus] /\ UNCHANGED <<property, renewal, leases>>
      BY <1>0, <2>2 DEF RentalRows
    <2> QED BY <2>3, <2>4, <2>5, <2>6, <2>7, <2>8, <2>9, <2>10, TenantStays
  <1>7. ASSUME NEW m \in Move, Rental!CompleteMoveIn(m) PROVE RentalInv'
    <2>1. PICK l : l = move[m].lease
      OBVIOUS
    <2> DEFINE step == [move[m] EXCEPT !.status = "COMPLETED"]
    <2>2. /\ move' = [move EXCEPT ![m] = step] /\ lease' = [lease EXCEPT ![l].status = "ACTIVE"]
          /\ property' = [property EXCEPT ![lease[l].property] = "OCCUPIED"]
          /\ move[m].status = "APPROVED" /\ UNCHANGED <<renewal, leases>>
      BY <1>7, <2>1 DEF Rental!CompleteMoveIn
    <2>3. /\ l \in Lease /\ lease[l].status \in Rental!Living /\ lease[l].property \in Property
          /\ \A n \in Move \ {m} : ~(Pending(move[n]) /\ move[n].lease = l)
      BY <1>4, <2>1, <2>2 DEF Pending
    <2>4. /\ step \in MoveRow /\ step.lease = l /\ step.status = "COMPLETED"
      BY <1>3, <2>1 DEF Rental!WorkflowStatus
    <2> HIDE DEF step
    <2>5. property'[lease[l].property] = "OCCUPIED" /\ "ACTIVE" \in Rental!Living /\ ~Pending(step)
      BY <1>0, <2>2, <2>3, <2>4 DEF RentalRows, Rental!Living, Pending
    <2> DEFINE row == [lease[l] EXCEPT !.status = "ACTIVE"]
    <2>6. /\ row \in LeaseRow /\ row.status = "ACTIVE" /\ row.holds = lease[l].holds
          /\ row.property = lease[l].property
      BY <1>2, <2>3, <2>5
    <2>7. Becomes(lease, lease', l, row) /\ Becomes(move, move', m, step)
      BY <2>2 DEF Becomes
    <2> HIDE DEF row
    <2>8. /\ property' \in [Property -> Rental!PropertyStatus] /\ UNCHANGED <<renewal, leases>>
          /\ \A p \in Property : property'[p] = property[p] \/ p = lease[l].property
      BY <1>0, <2>2, <2>3 DEF RentalRows, Rental!PropertyStatus
    <2> QED BY <2>3, <2>4, <2>5, <2>6, <2>7, <2>8, TenantStays
  <1>8. ASSUME NEW v, NEW m \in Move, Rental!CompleteMoveOut(v, m) PROVE RentalInv'
    <2>1. PICK l : l = move[m].lease
      OBVIOUS
    <2> DEFINE step == [move[m] EXCEPT !.status = "COMPLETED"]
               row == [lease[l] EXCEPT !.status = "TERMINATED", !.holds = FALSE]
    <2>2. /\ move' = [move EXCEPT ![m] = step] /\ lease' = [lease EXCEPT ![l] = row]
          /\ property' = [property EXCEPT ![lease[l].property] = "AVAILABLE"]
          /\ move[m].status = "APPROVED" /\ UNCHANGED <<renewal, leases>>
      BY <1>8, <2>1 DEF Rental!CompleteMoveOut
    <2>3. /\ l \in Lease /\ lease[l].property \in Property /\ lease[l].holds
          /\ \A n \in Move \ {m} : ~(Pending(move[n]) /\ move[n].lease = l)
      BY <1>4, <2>1, <2>2 DEF Pending
    <2>4. /\ step \in MoveRow /\ step.lease = l /\ step.status = "COMPLETED"
      BY <1>3, <2>1 DEF Rental!WorkflowStatus
    <2>5. /\ row \in LeaseRow /\ row.status = "TERMINATED" /\ row.holds = FALSE
          /\ row.property = lease[l].property
      BY <1>1, <2>3 DEF Rental!LeaseStatus
    <2> HIDE DEF step, row
    <2>6. /\ property' \in [Property -> Rental!PropertyStatus]
          /\ \A p \in Property : property'[p] = property[p] \/ p = row.property
      BY <1>0, <2>2, <2>3, <2>5 DEF RentalRows, Rental!PropertyStatus
    <2>7. \A k \in Lease \ {l} : lease[k].holds => lease[k].property # row.property
      BY <1>0, <2>3, <2>5 DEF Alone
    <2>8. Let' /\ Alone'
      BY <2>2, <2>3, <2>5, <2>6, <2>7, LeaseMoves DEF Rental!Living, Becomes
    <2>9. UnderWay'
      BY <2>2, <2>3, <2>4, <2>5, MoveGoesOn DEF Pending, Becomes
    <2>10. RentalRows'
      BY <1>0, <2>2, <2>3, <2>4, <2>5, <2>6 DEF RentalRows
    <2> QED BY <2>8, <2>9, <2>10 DEF RentalInv
  <1> QED BY <1>5, <1>6, <1>7, <1>8 DEF Rental!MoveStep

LEMMA RentalStart == ASSUME Rental!Init PROVE RentalInv
  <1>1. RentalRows
    BY DEF Rental!Init, RentalRows, LeaseRow, RenewalRow, MoveRow, Rental!NoLease, Rental!NoRenewal,
           Rental!NoMove, Rental!WorkflowStatus, Rental!PropertyStatus
  <1>2. Let /\ Alone
    BY DEF Rental!Init, Let, Alone, Rental!NoLease, Rental!Living
  <1>3. UnderWay
    BY DEF Rental!Init, UnderWay, Pending, Rental!NoMove
  <1> QED BY <1>1, <1>2, <1>3 DEF RentalInv

LEMMA RentalStep == ASSUME TermsDated, RentalInv, [Rental!Step]_(Rental!vars) PROVE RentalInv'
  <1>1. CASE UNCHANGED Rental!vars
    BY <1>1, RentalUnchanged DEF Rental!vars, Rental!workflow
  <1> QED BY <1>1, LettingOccupies, CollectingOccupies, RenewalOccupies, MoveOccupies
          DEF Rental!Step

LEMMA RentalShows == RentalInv => Rental!OccupantsAgree
  BY DEF RentalInv, Let, Alone, Rental!OccupantsAgree

(* One request after the other, a property is let to one lease at a time   *)
(* and does not look free while somebody lives in it.                      *)
THEOREM OccupantsCorrect ==
    ASSUME TermsDated
    PROVE  Rental!Init /\ [][Rental!Step]_(Rental!vars) => []Rental!OccupantsAgree
  BY RentalStart, RentalStep, RentalShows, PTL

-----------------------------------------------------------------------------
(***************************************************************************)
(* The rent of a lease: for any calendar, terms, renewals and payments.    *)
(***************************************************************************)
(* The months follow one another, and the first day is the first of them.  *)
CalendarRuns ==
    /\ Calendar \in Seq(Nat) /\ Len(Calendar) > 1 /\ Calendar[1] = 0
    /\ \A m, n \in DOMAIN Calendar : m < n => Calendar[m] < Calendar[n]

(* The last day of the last month but one.                                 *)
Horizon == Calendar[Len(Calendar) - 1]

Calendared ==
    /\ CalendarRuns
    /\ Terms \subseteq [start: Nat \ {0}, end: Nat, due_day: Nat]
    /\ \A terms \in Terms : terms.start <= terms.end /\ terms.end <= Horizon
    /\ EndDates \subseteq 0..Horizon

LEMMA Day ==
    ASSUME CalendarRuns, NEW m \in 1..Len(Calendar)
    PROVE  /\ Calendar[m] \in Nat
           /\ \A n \in 1..Len(Calendar) : /\ m < n => Calendar[m] < Calendar[n]
                                          /\ m <= n => Calendar[m] <= Calendar[n]
  <1>1. \A n \in 1..Len(Calendar) : Calendar[n] \in Nat
    BY DEF CalendarRuns
  <1>2. \A n \in 1..Len(Calendar) : m < n => Calendar[m] < Calendar[n]
    BY DEF CalendarRuns
  <1> QED BY <1>1, <1>2

(* Of a set of numbers that is not empty one is the least.                 *)
LEMMA LeastOf ==
    ASSUME NEW T \in SUBSET Nat, T # {}
    PROVE  \E n \in T : \A k \in T : n <= k
  <1>1. PICK n \in T : \A k \in T : <<k, n>> \notin OpToRel(<, Nat)
    BY NatLessThanWellFounded, WFMin
  <1>2. \A k \in T : ~(k < n)
    BY <1>1 DEF OpToRel
  <1>3. \A k \in T : n <= k
    BY <1>2
  <1> QED BY <1>3

LEMMA MonthIs ==
    ASSUME CalendarRuns, NEW date \in Nat, 1 <= date, date <= Calendar[Len(Calendar)]
    PROVE  LET m == Rental!MonthOf(date)
           IN  m \in 1..(Len(Calendar) - 1) /\ Calendar[m] < date /\ date <= Calendar[m + 1]
  <1> DEFINE T == {n \in 1..Len(Calendar) : date <= Calendar[n]}
             In(m) == Calendar[m] < date /\ date <= Calendar[m + 1]
  <1>1. Len(Calendar) \in Nat /\ Len(Calendar) > 1 /\ Calendar[1] = 0
    BY DEF CalendarRuns
  <1>2. T # {} /\ T \in SUBSET Nat
    BY <1>1
  <1>3. PICK n \in T : \A k \in T : n <= k
    <2> HIDE DEF T
    <2> QED BY <1>2, LeastOf
  <1>4. n # 1
    BY <1>1, <1>3
  <1>5. n - 1 \in 1..(Len(Calendar) - 1) /\ n - 1 \notin T /\ (n - 1) + 1 = n
    BY <1>1, <1>3, <1>4
  <1>6. Calendar[n - 1] \in Nat /\ ~(date <= Calendar[n - 1])
    BY <1>1, <1>5, Day
  <1>7. In(n - 1)
    BY <1>3, <1>5, <1>6
  <1>8. \E m \in 1..(Len(Calendar) - 1) : In(m)
    BY <1>5, <1>7
  <1>9. Rental!MonthOf(date) = CHOOSE m \in 1..(Len(Calendar) - 1) : In(m)
    BY DEF Rental!MonthOf
  <1> QED BY <1>8, <1>9

(* A month's months later are that many months later.                      *)
LEMMA MonthsLater ==
    ASSUME CalendarRuns, NEW date \in Nat, 1 <= date, date <= Horizon,
           NEW i \in Nat, Rental!MonthOf(date) + i <= Len(Calendar) - 1
    PROVE  LET m == Rental!MonthOf(date)
           IN  /\ Rental!AddMonths(date, i) \in Nat
               /\ Calendar[m + i] < Rental!AddMonths(date, i)
               /\ Rental!AddMonths(date, i) <= Calendar[m + i + 1]
  <1> DEFINE m == Rental!MonthOf(date)
             L == Len(Calendar)
  <1>1. L \in Nat /\ L > 1
    BY DEF CalendarRuns
  <1>2. Calendar[L - 1] <= Calendar[L] /\ Calendar[L] \in Nat /\ Calendar[L - 1] \in Nat
    BY <1>1, Day
  <1>3. date <= Calendar[L]
    BY <1>2 DEF Horizon
  <1>4. m \in 1..(L - 1) /\ Calendar[m] < date /\ date <= Calendar[m + 1]
    BY <1>3, MonthIs
  <1> HIDE DEF m, L
  <1>5. m + i \in 1..L /\ m + i + 1 \in 1..L /\ m \in 1..L /\ m + i < m + i + 1
    BY <1>1, <1>4 DEF m, L
  <1>6. Calendar[m] \in Nat /\ Calendar[m + i] \in Nat /\ Calendar[m + i + 1] \in Nat
        /\ Calendar[m + i] < Calendar[m + i + 1]
    BY <1>5, Day DEF L
  <1>7. Rental!AddMonths(date, i)
            = Calendar[m + i] + Rental!Least(date - Calendar[m], Calendar[m + i + 1] - Calendar[m + i])
    BY DEF Rental!AddMonths, Rental!Date, Rental!MonthLength, m
  <1>8. 1 <= date - Calendar[m] /\ 1 <= Calendar[m + i + 1] - Calendar[m + i]
    BY <1>4, <1>6
  <1>9. LET x == Rental!Least(date - Calendar[m], Calendar[m + i + 1] - Calendar[m + i])
        IN  x \in Nat /\ 1 <= x /\ x <= Calendar[m + i + 1] - Calendar[m + i]
    BY <1>6, <1>8 DEF Rental!Least
  <1> QED BY <1>6, <1>7, <1>9 DEF m

(* The last days of the periods, and how many there are.                   *)
PeriodEnd(start, end, i) == Rental!Least(Rental!AddMonths(start, i) - 1, end)
Covers(start, end, n) ==
    PeriodEnd(start, end, n) = end /\ \A k \in 1..(n - 1) : PeriodEnd(start, end, k) < end
Count(start, end) == CHOOSE n \in 1..Len(Calendar) : Covers(start, end, n)
PeriodStart(start, end, i) == IF i = 1 THEN start ELSE PeriodEnd(start, end, i - 1) + 1

LEMMA PeriodsAre ==
    ASSUME NEW start \in Nat, NEW end \in Nat, start <= end, NEW due_day
    PROVE  Rental!Periods(start, end, due_day) =
              [i \in 1..Count(start, end) |->
                  Rental!Scheduled(PeriodStart(start, end, i), PeriodEnd(start, end, i), due_day)]
  <1>1. ~(start > end)
    OBVIOUS
  <1> QED BY <1>1, Zenon DEF Rental!Periods, Count, Covers, PeriodEnd, PeriodStart

LEMMA NoPeriods ==
    ASSUME NEW start \in Nat, NEW end \in Nat, ~(start <= end), NEW due_day
    PROVE  Rental!Periods(start, end, due_day) = <<>>
  <1>1. start > end
    OBVIOUS
  <1>2. Rental!Periods(start, end, due_day) =
            [i \in 1..0 |-> Rental!Scheduled(PeriodStart(start, end, i), PeriodEnd(start, end, i), due_day)]
    BY <1>1, Zenon DEF Rental!Periods, PeriodEnd, PeriodStart
  <1> QED BY <1>2

(* A period's last day is in the calendar, up to the count.                *)
LEMMA PeriodEnds ==
    ASSUME CalendarRuns, NEW start \in Nat, NEW end \in Nat, 1 <= start, start <= end,
           end <= Horizon, NEW i \in Nat, Rental!MonthOf(start) + i <= Len(Calendar) - 1
    PROVE  LET m == Rental!MonthOf(start)
               x == PeriodEnd(start, end, i)
           IN  /\ x \in Nat /\ x <= end
               /\ Calendar[m + i] <= x \/ x = end
               /\ x < Calendar[m + i + 1]
  <1> DEFINE m == Rental!MonthOf(start)
             a == Rental!AddMonths(start, i)
  <1>1. Horizon \in Nat
    <2>1. Len(Calendar) - 1 \in 1..Len(Calendar)
      BY DEF CalendarRuns
    <2> QED BY <2>1, Day DEF Horizon
  <1>2. start <= Horizon
    BY <1>1
  <1>3. a \in Nat /\ Calendar[m + i] < a /\ a <= Calendar[m + i + 1]
    BY <1>2, MonthsLater
  <1>4. start <= Calendar[Len(Calendar)] /\ Len(Calendar) \in Nat /\ Len(Calendar) > 1
    <2>1. Len(Calendar) \in Nat /\ Len(Calendar) > 1
      BY DEF CalendarRuns
    <2>2. Calendar[Len(Calendar) - 1] <= Calendar[Len(Calendar)] /\ Calendar[Len(Calendar)] \in Nat
      BY <2>1, Day
    <2> QED BY <1>1, <1>2, <2>1, <2>2 DEF Horizon
  <1>5. m \in 1..(Len(Calendar) - 1)
    BY <1>4, MonthIs
  <1>6. Calendar[m + i] \in Nat /\ Calendar[m + i + 1] \in Nat
    <2>1. m + i \in 1..Len(Calendar) /\ m + i + 1 \in 1..Len(Calendar)
      BY <1>4, <1>5
    <2> QED BY <2>1, Day
  <1> HIDE DEF m, a
  <1>7. PeriodEnd(start, end, i) = IF a - 1 <= end THEN a - 1 ELSE end
    BY DEF PeriodEnd, Rental!Least, a
  <1> QED BY <1>3, <1>6, <1>7 DEF m

LEMMA CountIs ==
    ASSUME CalendarRuns, NEW start \in Nat, NEW end \in Nat, 1 <= start, start <= end,
           end <= Horizon
    PROVE  /\ Count(start, end) \in Nat \ {0} /\ Covers(start, end, Count(start, end))
           /\ Rental!MonthOf(start) \in Nat
           /\ Rental!MonthOf(start) + Count(start, end) <= Len(Calendar) - 1
  <1> DEFINE L == Len(Calendar)
             m == Rental!MonthOf(start)
             z == Rental!MonthOf(end)
             N == z - m + 1
  <1>1. L \in Nat /\ L > 1 /\ Horizon \in Nat /\ Horizon = Calendar[L - 1] /\ Calendar[L] \in Nat
        /\ Horizon < Calendar[L]
    <2>1. L \in Nat /\ L > 1
      BY DEF CalendarRuns
    <2>2. L - 1 \in 1..L /\ L \in 1..L /\ L - 1 < L
      BY <2>1
    <2> QED BY <2>1, <2>2, Day DEF Horizon
  <1>2. /\ m \in 1..(L - 1) /\ Calendar[m] < start /\ start <= Calendar[m + 1]
        /\ z \in 1..(L - 1) /\ Calendar[z] < end /\ end <= Calendar[z + 1]
    <2>1. start <= Calendar[L] /\ end <= Calendar[L] /\ 1 <= end
      BY <1>1
    <2> HIDE DEF L
    <2> USE DEF L
    <2> QED BY <2>1, MonthIs
  <1> HIDE DEF m, z, L
  <1>3. z < L - 1
    <2>1. SUFFICES ASSUME z = L - 1 PROVE FALSE
      BY <1>1, <1>2
    <2> QED BY <1>1, <1>2, <2>1
  <1>4. m <= z
    <2> SUFFICES ASSUME z < m PROVE FALSE
      BY <1>1, <1>2
    <2>1. z + 1 <= m /\ z + 1 \in 1..Len(Calendar) /\ m \in 1..Len(Calendar)
      BY <1>1, <1>2 DEF L
    <2>2. Calendar[z + 1] <= Calendar[m] /\ Calendar[z + 1] \in Nat /\ Calendar[m] \in Nat
      BY <2>1, Day
    <2> QED BY <1>2, <2>2
  <1>5. N \in 1..L /\ m + N = z + 1 /\ m + N <= L - 1
    BY <1>1, <1>2, <1>3, <1>4
  <1> HIDE DEF N
  <1>6. PeriodEnd(start, end, N) = end
    <2>1. PeriodEnd(start, end, N) \in Nat /\ PeriodEnd(start, end, N) <= end
          /\ (Calendar[m + N] <= PeriodEnd(start, end, N) \/ PeriodEnd(start, end, N) = end)
      BY <1>5, PeriodEnds DEF m, L
    <2>2. Calendar[m + N] \in Nat /\ end <= Calendar[m + N]
      <3>1. m + N \in 1..Len(Calendar)
        BY <1>1, <1>2, <1>5 DEF L
      <3> QED BY <1>2, <1>5, <3>1, Day
    <2> QED BY <2>1, <2>2
  <1> DEFINE T == {n \in 1..L : m + n <= L - 1 /\ PeriodEnd(start, end, n) = end}
  <1>7. N \in T /\ T \in SUBSET Nat
    BY <1>1, <1>5, <1>6
  <1>8. PICK n \in T : \A k \in T : n <= k
    <2> HIDE DEF T
    <2> QED BY <1>7, LeastOf
  <1>9. n \in 1..L /\ m + n <= L - 1 /\ PeriodEnd(start, end, n) = end
    BY <1>8
  <1>10. ASSUME NEW k \in 1..(n - 1) PROVE PeriodEnd(start, end, k) < end
    <2>1. k \in 1..L /\ m + k <= L - 1 /\ k \notin T /\ k \in Nat
      BY <1>1, <1>2, <1>8, <1>9
    <2>2. PeriodEnd(start, end, k) # end
      BY <2>1
    <2>3. PeriodEnd(start, end, k) \in Nat /\ PeriodEnd(start, end, k) <= end
      BY <2>1, PeriodEnds DEF m, L
    <2> QED BY <2>2, <2>3
  <1> DEFINE c == Count(start, end)
  <1>11. c \in 1..L /\ Covers(start, end, c)
    <2>1. Covers(start, end, n)
      BY <1>9, <1>10 DEF Covers
    <2> QED BY <1>9, <2>1 DEF Count, L
  <1>12. c <= n
    <2> SUFFICES ASSUME n < c PROVE FALSE
      BY <1>1, <1>9, <1>11
    <2>1. n \in 1..(c - 1)
      BY <1>1, <1>9, <1>11
    <2>2. PeriodEnd(start, end, n) < end
      BY <1>11, <2>1 DEF Covers
    <2> QED BY <1>9, <2>2
  <1> HIDE DEF c
  <1> QED BY <1>1, <1>2, <1>9, <1>11, <1>12 DEF m, L, c

(***************************************************************************)
(* Periods that follow one another from a first day to a last, each with   *)
(* the rent due in it and nothing invoiced yet.                            *)
(***************************************************************************)
Dated(item) == item.from \in Nat /\ item.to \in Nat /\ item.due \in Nat
Within(item) == item.from <= item.due /\ item.due <= item.to
Tiles(periods, start, end) ==
    /\ \E n \in Nat \ {0} : DOMAIN periods = 1..n /\ Len(periods) = n
    /\ periods[1].from = start
    /\ periods[Len(periods)].to = end
    /\ \A i \in DOMAIN periods : Dated(periods[i]) /\ Within(periods[i])
    /\ \A i \in 2..Len(periods) : periods[i].from = periods[i - 1].to + 1

ItemRow == [from: Nat, to: Nat, due: Nat, status: Rental!ScheduleStatus,
            invoice: Rental!InvoiceStatus, late: BOOLEAN, paid: Nat]
Fresh(item) == item.status = "SCHEDULED" /\ item.invoice = "NONE" /\ item.paid = 0

(* The rent of a period is due in it, in the month it starts in or in the  *)
(* next.                                                                   *)
LEMMA DueWithin ==
    ASSUME CalendarRuns, NEW from \in Nat, NEW to \in Nat, 1 <= from, from <= to, to <= Horizon,
           NEW due_day \in Nat
    PROVE  LET due == Rental!DueDate(from, to, due_day) IN due \in Nat /\ from <= due /\ due <= to
  <1> DEFINE m == Rental!MonthOf(from)
             L == Len(Calendar)
  <1>1. L \in Nat /\ L > 1 /\ Calendar[L] \in Nat /\ Horizon \in Nat /\ Horizon < Calendar[L]
    <2>1. L \in Nat /\ L > 1
      BY DEF CalendarRuns
    <2>2. L - 1 \in 1..L /\ L \in 1..L /\ L - 1 < L
      BY <2>1
    <2> QED BY <2>1, <2>2, Day DEF Horizon
  <1>2. m \in 1..(L - 1) /\ Calendar[m] < from /\ from <= Calendar[m + 1]
    <2>1. from <= Calendar[L]
      BY <1>1
    <2> QED BY <2>1, MonthIs
  <1>3. Calendar[m] \in Nat /\ Calendar[m + 1] \in Nat
    <2>1. m \in 1..L /\ m + 1 \in 1..L
      BY <1>1, <1>2
    <2> QED BY <2>1, Day
  <1> HIDE DEF m, L
  <1> DEFINE day == IF Calendar[m] + due_day < from THEN Calendar[m + 1] + due_day
                    ELSE Calendar[m] + due_day
  <1>4. Rental!DueDate(from, to, due_day) = IF day <= to THEN day ELSE to
    BY DEF Rental!DueDate, Rental!Date, Rental!Least, m
  <1>5. day \in Nat /\ from <= day
    BY <1>2, <1>3
  <1> HIDE DEF day
  <1> QED BY <1>4, <1>5

LEMMA PeriodRow ==
    ASSUME CalendarRuns, NEW start \in Nat, NEW end \in Nat, 1 <= start, start <= end,
           end <= Horizon, NEW due_day \in Nat, NEW i \in 1..Count(start, end)
    PROVE  LET item == Rental!Scheduled(PeriodStart(start, end, i), PeriodEnd(start, end, i), due_day)
           IN  /\ item \in ItemRow /\ Fresh(item) /\ Within(item)
               /\ item.from = PeriodStart(start, end, i) /\ item.to = PeriodEnd(start, end, i)
  <1> DEFINE m == Rental!MonthOf(start)
             n == Count(start, end)
             L == Len(Calendar)
             from == PeriodStart(start, end, i)
             to == PeriodEnd(start, end, i)
  <1>1. n \in Nat \ {0} /\ Covers(start, end, n) /\ m \in Nat /\ m + n <= L - 1
    BY CountIs
  <1>2. L \in Nat
    BY DEF CalendarRuns
  <1>3. i \in Nat /\ i <= n /\ m + i <= L - 1
    BY <1>1, <1>2
  <1>4. /\ to \in Nat /\ to <= end /\ (Calendar[m + i] <= to \/ to = end)
    BY <1>3, PeriodEnds
  <1>5. /\ start <= Calendar[m + 1] /\ m \in 1..(L - 1) /\ Horizon \in Nat
    <2>1. L > 1 /\ L - 1 \in 1..L /\ L \in 1..L /\ L - 1 < L
      BY <1>2 DEF CalendarRuns
    <2>2. Calendar[L] \in Nat /\ Horizon \in Nat /\ Horizon < Calendar[L]
      BY <2>1, Day DEF Horizon
    <2>3. start <= Calendar[L]
      BY <2>2
    <2> QED BY <2>2, <2>3, MonthIs
  <1>6. from \in Nat /\ 1 <= from /\ from <= to
    <2>1. CASE i = 1
      <3>1. from = start
        BY <2>1 DEF PeriodStart
      <3>2. Calendar[m + 1] \in Nat
        <4>1. m + 1 \in 1..L
          BY <1>2, <1>5
        <4> QED BY <4>1, Day
      <3> QED BY <1>4, <1>5, <2>1, <3>1, <3>2
    <2>2. CASE i # 1
      <3> DEFINE before == PeriodEnd(start, end, i - 1)
      <3>1. i - 1 \in Nat /\ m + (i - 1) <= L - 1 /\ i - 1 \in 1..(n - 1) /\ m + (i - 1) + 1 = m + i
        BY <1>1, <1>2, <1>3, <2>2
      <3>2. before \in Nat /\ before < Calendar[m + i]
        <4>1. before \in Nat /\ before < Calendar[m + (i - 1) + 1]
          BY <3>1, PeriodEnds
        <4> QED BY <3>1, <4>1
      <3>3. before < end
        BY <1>1, <3>1 DEF Covers
      <3>4. from = before + 1
        BY <2>2 DEF PeriodStart
      <3>5. Calendar[m + i] \in Nat
        <4>1. m + i \in 1..L
          BY <1>1, <1>2, <1>3, <2>2
        <4> QED BY <4>1, Day
      <3> HIDE DEF from, to, before
      <3> QED BY <1>4, <3>2, <3>3, <3>4, <3>5
    <2> QED BY <2>1, <2>2
  <1>7. to <= Horizon
    BY <1>4, <1>5
  <1> HIDE DEF from, to
  <1>8. LET due == Rental!DueDate(from, to, due_day) IN due \in Nat /\ from <= due /\ due <= to
    BY <1>4, <1>6, <1>7, DueWithin
  <1>9. LET item == Rental!Scheduled(from, to, due_day)
        IN  item \in ItemRow /\ Fresh(item) /\ Within(item) /\ item.from = from /\ item.to = to
    BY <1>4, <1>6, <1>8 DEF Rental!Scheduled, ItemRow, Fresh, Within, Rental!ScheduleStatus,
                         Rental!InvoiceStatus
  <1> QED BY <1>9 DEF from, to

(* What _append_schedule adds: periods over all of the days from the start *)
(* to the end, whatever the months' lengths.                               *)
LEMMA PeriodsTile ==
    ASSUME CalendarRuns, NEW start \in Nat, NEW end \in Nat, 1 <= start, start <= end,
           end <= Horizon, NEW due_day \in Nat
    PROVE  LET periods == Rental!Periods(start, end, due_day)
           IN  /\ periods \in Seq(ItemRow) /\ periods # <<>>
               /\ \A i \in DOMAIN periods : Fresh(periods[i])
               /\ Tiles(periods, start, end)
  <1> DEFINE n == Count(start, end)
             Row(i) == Rental!Scheduled(PeriodStart(start, end, i), PeriodEnd(start, end, i), due_day)
             periods == [i \in 1..n |-> Row(i)]
  <1>1. Rental!Periods(start, end, due_day) = periods
    BY PeriodsAre
  <1>2. n \in Nat \ {0} /\ Covers(start, end, n)
    BY CountIs
  <1>3. \A i \in 1..n : /\ Row(i) \in ItemRow /\ Fresh(Row(i)) /\ Within(Row(i))
                        /\ Row(i).from = PeriodStart(start, end, i)
                        /\ Row(i).to = PeriodEnd(start, end, i)
    BY PeriodRow
  <1> HIDE DEF n, Row
  <1>4. periods \in Seq(ItemRow) /\ Len(periods) = n /\ DOMAIN periods = 1..n
    BY <1>2, <1>3
  <1>5. \A i \in 1..n : /\ Dated(periods[i]) /\ Within(periods[i]) /\ Fresh(periods[i])
                        /\ periods[i].from = PeriodStart(start, end, i)
                        /\ periods[i].to = PeriodEnd(start, end, i)
    BY <1>3 DEF Dated, ItemRow
  <1>6. 1 \in 1..n /\ n \in 1..n /\ PeriodStart(start, end, 1) = start
    BY <1>2 DEF PeriodStart
  <1>7. \A i \in 2..n : PeriodStart(start, end, i) = PeriodEnd(start, end, i - 1) + 1
    BY DEF PeriodStart
  <1>8. \A i \in 2..n : i \in 1..n /\ i - 1 \in 1..n
    BY <1>2
  <1>9. PeriodEnd(start, end, n) = end
    BY <1>2 DEF Covers
  <1> HIDE DEF periods
  <1>10. Tiles(periods, start, end)
    BY <1>2, <1>4, <1>5, <1>6, <1>7, <1>8, <1>9 DEF Tiles
  <1>11. periods # <<>>
    BY <1>2, <1>4
  <1> QED BY <1>1, <1>4, <1>5, <1>10, <1>11

(* Periods from the day after the last go on where they end.               *)
LEMMA TilesOn ==
    ASSUME NEW p \in Seq(ItemRow), NEW q \in Seq(ItemRow), NEW a, NEW b, NEW c,
           Tiles(p, a, b), Tiles(q, b + 1, c)
    PROVE  Tiles(p \o q, a, c)
  <1> DEFINE k == Len(p)
             n == Len(q)
             r == p \o q
  <1>1. /\ k \in Nat \ {0} /\ n \in Nat \ {0} /\ DOMAIN p = 1..k /\ DOMAIN q = 1..n
        /\ DOMAIN r = 1..(k + n) /\ Len(r) = k + n
        /\ \A i \in 1..k : r[i] = p[i]
        /\ \A i \in 1..n : r[k + i] = q[i]
    <2>1. k \in Nat \ {0} /\ n \in Nat \ {0} /\ DOMAIN p = 1..k /\ DOMAIN q = 1..n
      <3>1. PICK i \in Nat \ {0} : DOMAIN p = 1..i /\ Len(p) = i
        BY DEF Tiles
      <3>2. PICK j \in Nat \ {0} : DOMAIN q = 1..j /\ Len(q) = j
        BY DEF Tiles
      <3> QED BY <3>1, <3>2
    <2>2. Len(r) = k + n
      OBVIOUS
    <2>3. r \in Seq(ItemRow)
      OBVIOUS
    <2>4. \A i \in 1..k : r[i] = p[i]
      OBVIOUS
    <2>5. ASSUME NEW i \in 1..n PROVE r[k + i] = q[i]
      <3>1. r[Len(p) + i] = q[i]
        BY <2>1
      <3> QED BY <3>1
    <2> HIDE DEF k, n
    <2>6. DOMAIN r = 1..(k + n)
      BY <2>2, <2>3
    <2> HIDE DEF r
    <2> QED BY <2>1, <2>2, <2>4, <2>5, <2>6
  <1>2. \A i \in (k + 1)..(k + n) : i - k \in 1..n /\ r[i] = q[i - k]
    <2> SUFFICES ASSUME NEW i \in (k + 1)..(k + n) PROVE i - k \in 1..n /\ r[i] = q[i - k]
      OBVIOUS
    <2>1. i - k \in 1..n /\ k + (i - k) = i
      BY <1>1
    <2> QED BY <1>1, <2>1
  <1> HIDE DEF k, n, r
  <1>3. r[1].from = a
    BY <1>1 DEF Tiles
  <1>4. r[k + n].to = c
    <2>1. n \in 1..n
      BY <1>1
    <2> QED BY <1>1, <2>1 DEF Tiles, n
  <1>5. \A i \in 1..(k + n) : Dated(r[i]) /\ Within(r[i])
    <2>1. \A i \in 1..(k + n) : i \in 1..k \/ i \in (k + 1)..(k + n)
      BY <1>1
    <2> QED BY <1>1, <1>2, <2>1 DEF Tiles
  <1>6. ASSUME NEW i \in 2..(k + n) PROVE r[i].from = r[i - 1].to + 1
    <2>1. CASE i <= k
      <3>1. i \in 2..k /\ i \in 1..k /\ i - 1 \in 1..k
        BY <1>1, <2>1
      <3> QED BY <1>1, <3>1 DEF Tiles, k
    <2>2. CASE i = k + 1
      <3>1. i - 1 = k /\ k \in 1..k /\ i \in (k + 1)..(k + n) /\ i - k = 1
        BY <1>1, <2>2
      <3>2. r[i - 1] = p[k] /\ r[i] = q[1]
        BY <1>1, <1>2, <3>1
      <3> QED BY <3>2 DEF Tiles, k
    <2>3. CASE i > k + 1
      <3>1. /\ i \in (k + 1)..(k + n) /\ i - 1 \in (k + 1)..(k + n)
            /\ i - k \in 2..n /\ (i - 1) - k = (i - k) - 1
        BY <1>1, <2>3
      <3>2. r[i] = q[i - k] /\ r[i - 1] = q[(i - k) - 1]
        BY <1>2, <3>1
      <3> QED BY <3>1, <3>2 DEF Tiles, n
    <2> QED BY <1>1, <2>1, <2>2, <2>3
  <1>7. Tiles(r, a, c)
    BY <1>1, <1>3, <1>4, <1>5, <1>6 DEF Tiles
  <1> QED BY <1>7 DEF r

(* Invoices and payments change no period's days.                          *)
SameDays(p, q) ==
    /\ DOMAIN q = DOMAIN p /\ Len(q) = Len(p)
    /\ \A i \in DOMAIN p : q[i].from = p[i].from /\ q[i].to = p[i].to /\ q[i].due = p[i].due

LEMMA TilesStay ==
    ASSUME NEW p, NEW q, NEW a, NEW b, Tiles(p, a, b), SameDays(p, q)
    PROVE  Tiles(q, a, b)
  <1>1. PICK n \in Nat \ {0} : DOMAIN p = 1..n /\ Len(p) = n
    BY DEF Tiles
  <1>2. 1 \in 1..n /\ n \in 1..n /\ \A i \in 2..n : i \in 1..n /\ i - 1 \in 1..n
    BY <1>1
  <1> QED BY <1>1, <1>2 DEF Tiles, SameDays, Dated, Within

(***************************************************************************)
(* Sums of payments.  That two sums agree over every finite set is shown   *)
(* by a smallest set over which they would not.                            *)
(***************************************************************************)
Sum(f, S) == Rental!SumFunctionOnSet(f, S)

(* What Sum(f, S) is computed by: g gives every subset of S the sum of f   *)
(* over it, taking one element after the other.                            *)
Some(s) == CHOOSE x \in s : TRUE
Rest(s) == s \ {Some(s)}
Adds(g, f, S) == g = [s \in SUBSET S |-> IF s = {} THEN 0 ELSE f[Some(s)] + g[Rest(s)]]

LEMMA SumIs == ASSUME NEW f, NEW S PROVE Sum(f, S) = (CHOOSE g : Adds(g, f, S))[S]
  BY DEF Sum, Rental!SumFunctionOnSet, Rental!FoldFunctionOnSet, Rental!MapThenFoldSet, Adds,
         Some, Rest

LEMMA RestIsLess ==
    ASSUME NEW s, s # {}
    PROVE  Some(s) \in s /\ Rest(s) \in SUBSET s /\ Rest(s) # s
  BY DEF Some, Rest

LEMMA AddsEmpty == ASSUME NEW g, NEW f, NEW S, Adds(g, f, S) PROVE g[{}] = 0
  BY DEF Adds

LEMMA AddsNext ==
    ASSUME NEW g, NEW f, NEW S, Adds(g, f, S), NEW s \in SUBSET S, s # {}
    PROVE  g[s] = f[Some(s)] + g[Rest(s)]
  BY DEF Adds

LEMMA AddsSame ==
    ASSUME NEW g, NEW h, NEW f, NEW S, Adds(g, f, S), Adds(h, f, S),
           \A s \in SUBSET S : g[s] = h[s]
    PROVE  g = h
  BY DEF Adds

LEMMA AddsBy ==
    ASSUME NEW S, NEW f, NEW g, g = [s \in SUBSET S |-> g[s]], g[{}] = 0,
           \A s \in SUBSET S : s # {} => g[s] = f[Some(s)] + g[Rest(s)]
    PROVE  Adds(g, f, S)
  BY DEF Adds

(* Of the subsets of a finite set that something is wrong with, one is     *)
(* minimal.                                                                *)
LEMMA MinimalSubset ==
    ASSUME NEW S, IsFiniteSet(S), NEW T \in SUBSET SUBSET S, T # {}
    PROVE  \E m \in T : \A s \in T : s \subseteq m => s = m
  <1>1. T \subseteq FiniteSubsetsOf(S)
    BY FS_FiniteSubsetsOfFinite
  <1>2. PICK m \in T : \A s \in T : <<s, m>> \notin StrictSubsetOrdering(S)
    BY <1>1, FS_StrictSubsetOrderingWellFounded, WFMin
  <1>3. ASSUME NEW s \in T, s \subseteq m, s # m PROVE FALSE
    BY <1>2, <1>3 DEF StrictSubsetOrdering
  <1> QED BY <1>2, <1>3

LEMMA AddsUnique ==
    ASSUME NEW S, IsFiniteSet(S), NEW f, NEW g, NEW h, Adds(g, f, S), Adds(h, f, S)
    PROVE  g = h
  <1> DEFINE W == {s \in SUBSET S : g[s] # h[s]}
  <1>1. CASE W = {}
    <2>1. \A s \in SUBSET S : g[s] = h[s]
      BY <1>1
    <2> QED BY <2>1, AddsSame
  <1>2. ASSUME W # {} PROVE FALSE
    <2>1. PICK m \in W : \A s \in W : s \subseteq m => s = m
      <3>1. W \in SUBSET SUBSET S
        OBVIOUS
      <3> HIDE DEF W
      <3> QED BY <1>2, <3>1, MinimalSubset
    <2>2. m # {}
      BY <2>1, AddsEmpty
    <2>3. g[Rest(m)] = h[Rest(m)] /\ Rest(m) \in SUBSET S
      BY <2>1, <2>2, RestIsLess
    <2>4. g[m] = f[Some(m)] + g[Rest(m)] /\ h[m] = f[Some(m)] + h[Rest(m)]
      BY <2>2, AddsNext
    <2> QED BY <2>1, <2>3, <2>4
  <1> QED BY <1>1, <1>2

LEMMA AddsRestricted ==
    ASSUME NEW S, NEW f, NEW g, Adds(g, f, S), NEW T \in SUBSET S
    PROVE  Adds([s \in SUBSET T |-> g[s]], f, T)
  <1> DEFINE h == [s \in SUBSET T |-> g[s]]
  <1>1. \A s \in SUBSET T : s # {} => h[s] = f[Some(s)] + h[Rest(s)]
    <2> SUFFICES ASSUME NEW s \in SUBSET T, s # {} PROVE h[s] = f[Some(s)] + h[Rest(s)]
      OBVIOUS
    <2>1. g[s] = f[Some(s)] + g[Rest(s)]
      BY AddsNext
    <2>2. Rest(s) \in SUBSET T
      BY RestIsLess
    <2> QED BY <2>1, <2>2
  <1>2. h[{}] = 0
    BY AddsEmpty
  <1> QED BY <1>1, <1>2, AddsBy

LEMMA AddsExists ==
    ASSUME NEW S, IsFiniteSet(S), NEW f
    PROVE  \E g : Adds(g, f, S)
  <1> DEFINE W == {T \in SUBSET S : ~\E g : Adds(g, f, T)}
  <1> SUFFICES ASSUME W # {} PROVE FALSE
    OBVIOUS
  <1>1. PICK m \in W : \A s \in W : s \subseteq m => s = m
    <2>1. W \in SUBSET SUBSET S
      OBVIOUS
    <2> HIDE DEF W
    <2> QED BY <2>1, MinimalSubset
  <1> DEFINE G(s) == CHOOSE g : Adds(g, f, s)
             V(s) == IF s = {} THEN 0
                     ELSE IF s = m THEN f[Some(m)] + G(Rest(m))[Rest(m)] ELSE G(s)[s]
             g == [s \in SUBSET m |-> V(s)]
  <1>2. ASSUME NEW s \in SUBSET m, s # m PROVE Adds(G(s), f, s)
    <2>1. s \in SUBSET S /\ s \notin W
      BY <1>1, <1>2
    <2> QED BY <2>1
  <1>3. ASSUME NEW s \in SUBSET m, s # m, s # {}
        PROVE  G(s)[s] = f[Some(s)] + G(Rest(s))[Rest(s)]
    <2> DEFINE h == [r \in SUBSET Rest(s) |-> G(s)[r]]
    <2>1. Rest(s) \in SUBSET m /\ Rest(s) # m /\ Rest(s) \in SUBSET s
      BY <1>3, RestIsLess
    <2>2. Adds(G(s), f, s) /\ Adds(G(Rest(s)), f, Rest(s))
      BY <1>2, <1>3, <2>1
    <2>3. IsFiniteSet(Rest(s))
      BY <1>1, <2>1, FS_Subset
    <2> HIDE DEF G
    <2>4. Adds(h, f, Rest(s))
      BY <2>1, <2>2, AddsRestricted
    <2>5. G(Rest(s)) = h
      BY <2>2, <2>3, <2>4, AddsUnique
    <2>6. G(s)[s] = f[Some(s)] + G(s)[Rest(s)]
      BY <1>3, <2>2, AddsNext
    <2> QED BY <2>5, <2>6
  <1>4. ASSUME NEW s \in SUBSET m, s # {} PROVE V(s) = f[Some(s)] + V(Rest(s))
    <2>1. Rest(s) \in SUBSET m /\ Rest(s) # m
      BY <1>4, RestIsLess
    <2>2. V(Rest(s)) = G(Rest(s))[Rest(s)]
      <3>1. CASE Rest(s) = {}
        <4>1. Adds(G(Rest(s)), f, Rest(s))
          BY <1>2, <2>1
        <4> HIDE DEF G
        <4>2. G(Rest(s))[{}] = 0
          BY <4>1, AddsEmpty
        <4> QED BY <3>1, <4>2
      <3>2. CASE Rest(s) # {}
        BY <3>2, <2>1
      <3> QED BY <3>1, <3>2
    <2>3. V(s) = f[Some(s)] + G(Rest(s))[Rest(s)]
      BY <1>3, <1>4
    <2> HIDE DEF V, G
    <2> QED BY <2>2, <2>3
  <1>5. V({}) = 0
    OBVIOUS
  <1> HIDE DEF V
  <1>6. g = [s \in SUBSET m |-> g[s]] /\ g[{}] = 0
    BY <1>5
  <1>7. \A s \in SUBSET m : s # {} => g[s] = f[Some(s)] + g[Rest(s)]
    BY <1>4, RestIsLess
  <1> HIDE DEF g
  <1>8. Adds(g, f, m)
    BY <1>6, <1>7, AddsBy
  <1> QED BY <1>1, <1>8

LEMMA SumOfSubset ==
    ASSUME NEW S, IsFiniteSet(S), NEW f, NEW g, Adds(g, f, S), NEW T \in SUBSET S
    PROVE  Sum(f, T) = g[T]
  <1> DEFINE h == CHOOSE h : Adds(h, f, T)
             r == [s \in SUBSET T |-> g[s]]
  <1>1. IsFiniteSet(T)
    BY FS_Subset
  <1>2. Adds(h, f, T)
    BY <1>1, AddsExists
  <1>3. Sum(f, T) = h[T]
    BY SumIs
  <1>4. Adds(r, f, T)
    BY AddsRestricted
  <1> HIDE DEF h
  <1>5. h = r
    BY <1>1, <1>2, <1>4, AddsUnique
  <1> QED BY <1>3, <1>5

LEMMA SumEmpty == ASSUME NEW f PROVE Sum(f, {}) = 0
  <1>1. IsFiniteSet({})
    BY FS_EmptySet
  <1>2. PICK g : Adds(g, f, {})
    BY <1>1, AddsExists
  <1>3. Sum(f, {}) = g[{}]
    BY <1>1, <1>2, SumOfSubset
  <1> QED BY <1>2, <1>3, AddsEmpty

LEMMA SumFirst ==
    ASSUME NEW S, IsFiniteSet(S), S # {}, NEW f
    PROVE  Sum(f, S) = f[Some(S)] + Sum(f, Rest(S))
  <1>1. PICK g : Adds(g, f, S)
    BY AddsExists
  <1>2. Rest(S) \in SUBSET S
    BY RestIsLess
  <1>3. Sum(f, S) = g[S] /\ Sum(f, Rest(S)) = g[Rest(S)]
    BY <1>1, <1>2, SumOfSubset
  <1> QED BY <1>1, <1>3, AddsNext

LEMMA SumSame ==
    ASSUME NEW S, IsFiniteSet(S), NEW f, NEW g, \A x \in S : f[x] = g[x]
    PROVE  Sum(f, S) = Sum(g, S)
  <1> DEFINE W == {T \in SUBSET S : Sum(f, T) # Sum(g, T)}
  <1> SUFFICES ASSUME W # {} PROVE FALSE
    OBVIOUS
  <1>1. PICK m \in W : \A s \in W : s \subseteq m => s = m
    <2>1. W \in SUBSET SUBSET S
      OBVIOUS
    <2> HIDE DEF W
    <2> QED BY <2>1, MinimalSubset
  <1>2. m # {} /\ IsFiniteSet(m)
    <2>1. m # {}
      <3>1. Sum(f, m) # Sum(g, m)
        BY <1>1
      <3>2. \A e : Sum(e, {}) = 0
        BY SumEmpty
      <3> HIDE DEF W
      <3> QED BY <3>1, <3>2
    <2>2. IsFiniteSet(m)
      BY <1>1, FS_Subset
    <2> QED BY <2>1, <2>2
  <1>3. Some(m) \in m /\ Rest(m) \in SUBSET m /\ Rest(m) # m
    BY <1>2, RestIsLess
  <1>4. Sum(f, Rest(m)) = Sum(g, Rest(m)) /\ f[Some(m)] = g[Some(m)]
    BY <1>1, <1>3
  <1>5. Sum(f, m) = f[Some(m)] + Sum(f, Rest(m))
    BY <1>2, SumFirst
  <1>6. Sum(g, m) = g[Some(m)] + Sum(g, Rest(m))
    BY <1>2, SumFirst
  <1> QED BY <1>1, <1>4, <1>5, <1>6

LEMMA SumType ==
    ASSUME NEW S, IsFiniteSet(S), NEW f, \A x \in S : f[x] \in Int
    PROVE  Sum(f, S) \in Int
  <1> DEFINE W == {T \in SUBSET S : Sum(f, T) \notin Int}
  <1> SUFFICES ASSUME W # {} PROVE FALSE
    OBVIOUS
  <1>1. PICK m \in W : \A s \in W : s \subseteq m => s = m
    <2>1. W \in SUBSET SUBSET S
      OBVIOUS
    <2> HIDE DEF W
    <2> QED BY <2>1, MinimalSubset
  <1>2. m # {} /\ IsFiniteSet(m)
    <2>1. m # {}
      <3>1. Sum(f, m) \notin Int
        BY <1>1
      <3>2. \A e : Sum(e, {}) = 0
        BY SumEmpty
      <3> HIDE DEF W
      <3> QED BY <3>1, <3>2
    <2>2. IsFiniteSet(m)
      BY <1>1, FS_Subset
    <2> QED BY <2>1, <2>2
  <1>3. Some(m) \in m /\ Rest(m) \in SUBSET m /\ Rest(m) # m
    BY <1>2, RestIsLess
  <1>4. Sum(f, Rest(m)) \in Int /\ f[Some(m)] \in Int
    BY <1>1, <1>3
  <1>5. Sum(f, m) = f[Some(m)] + Sum(f, Rest(m))
    BY <1>2, SumFirst
  <1> QED BY <1>1, <1>4, <1>5

(* Whichever element is taken first.                                       *)
LEMMA SumWithout ==
    ASSUME NEW S, IsFiniteSet(S), NEW f, \A x \in S : f[x] \in Int, NEW x \in S
    PROVE  Sum(f, S) = f[x] + Sum(f, S \ {x})
  <1> DEFINE W == {T \in SUBSET S : \E y \in T :
                      Sum(f, T) # f[y] + Sum(f, T \ {y})}
  <1> SUFFICES ASSUME W # {} PROVE FALSE
    OBVIOUS
  <1>1. PICK m \in W : \A s \in W : s \subseteq m => s = m
    <2>1. W \in SUBSET SUBSET S
      OBVIOUS
    <2> HIDE DEF W
    <2> QED BY <2>1, MinimalSubset
  <1>2. PICK y \in m : Sum(f, m) # f[y] + Sum(f, m \ {y})
    BY <1>1
  <1> DEFINE c == Some(m)
             both == (m \ {y}) \ {c}
  <1>3. m # {} /\ IsFiniteSet(m) /\ IsFiniteSet(both) /\ IsFiniteSet(m \ {y})
    BY <1>1, <1>2, FS_Subset
  <1>4. c \in m /\ Rest(m) = m \ {c}
    BY <1>3, RestIsLess DEF Rest
  <1>5. Sum(f, m) = f[c] + Sum(f, m \ {c})
    BY <1>3, <1>4, SumFirst
  <1>6. c # y
    BY <1>2, <1>5
  <1>7. m \ {c} \in SUBSET S /\ m \ {c} \notin W /\ m \ {y} \in SUBSET S /\ m \ {y} \notin W
    BY <1>1, <1>2, <1>4
  <1>8. Sum(f, m \ {c}) = f[y] + Sum(f, (m \ {c}) \ {y})
    BY <1>2, <1>6, <1>7
  <1>9. Sum(f, m \ {y}) = f[c] + Sum(f, both)
    BY <1>4, <1>6, <1>7
  <1>10. (m \ {c}) \ {y} = both
    OBVIOUS
  <1>11. Sum(f, both) \in Int /\ f[c] \in Int /\ f[y] \in Int
    BY <1>1, <1>2, <1>3, <1>4, SumType
  <1> HIDE DEF c, both, W
  <1>12. Sum(f, m) = f[c] + (f[y] + Sum(f, both))
    BY <1>5, <1>8, <1>10
  <1>13. f[y] + Sum(f, m \ {y}) = f[y] + (f[c] + Sum(f, both))
    BY <1>9
  <1>14. f[c] + (f[y] + Sum(f, both)) = f[y] + (f[c] + Sum(f, both))
    BY <1>11
  <1> QED BY <1>2, <1>12, <1>13, <1>14

LEMMA SumAdd ==
    ASSUME NEW S, IsFiniteSet(S), NEW f, NEW x, x \notin S, \A y \in S \cup {x} : f[y] \in Int
    PROVE  Sum(f, S \cup {x}) = f[x] + Sum(f, S)
  <1>1. IsFiniteSet(S \cup {x}) /\ (S \cup {x}) \ {x} = S
    BY FS_AddElement
  <1> QED BY <1>1, SumWithout

(***************************************************************************)
(* What is right of leases, their schedules and payments, whatever         *)
(* requests read.                                                          *)
(***************************************************************************)
SignedStatus == Rental!Living \cup {"TERMINATED"}
Signed(l) == lease[l].status \in SignedStatus

TermRow == [status: Rental!LeaseStatus \cup {"NONE"}, property: Property \cup {None},
            holds: BOOLEAN, start: Nat, end: Nat, due_day: Nat]
PaperRow == [lease: Lease \cup {None}, status: Rental!DocumentStatus \cup {"NONE"}]
PaymentRow == [lease: Lease \cup {None}, item: Nat, amount: Nat, status: Rental!PaymentStatus]
AskedRow == [lease: Lease \cup {None}, end: Nat, status: Rental!WorkflowStatus \ {"APPROVED"}]
MovingRow == [lease: Lease \cup {None}, type: {"NONE", "MOVE_IN", "MOVE_OUT"},
              status: Rental!WorkflowStatus]

RentRows ==
    /\ property \in [Property -> Rental!PropertyStatus]
    /\ tenant \in [Tenant -> BOOLEAN]
    /\ lease \in [Lease -> TermRow]
    /\ paper \in [Paper -> PaperRow]
    /\ schedule \in [Lease -> Seq(ItemRow)]
    /\ payment \in [Payment -> PaymentRow]
    /\ renewal \in [Renewal -> AskedRow]
    /\ move \in [Move -> MovingRow]

(* A lease that was drawn up has a property and terms in the calendar; it  *)
(* has a schedule from its signature on.                                   *)
TermsRight(row) ==
    /\ row.property \in Property /\ 1 <= row.start /\ row.end <= Horizon
    /\ row.status \notin SignedStatus => row.start <= row.end
LeasesRight ==
    \A l \in Lease : /\ lease[l].status # "NONE" => TermsRight(lease[l])
                     /\ schedule[l] # <<>> <=> Signed(l)

(* What the rows of a lease refer to is there.                             *)
RefsRight ==
    /\ \A d \in Paper : paper[d] # Rental!NoDocument =>
          paper[d].lease \in Rental!Drawn /\ paper[d].status \in Rental!DocumentStatus
    /\ \A k \in Payment : payment[k] # Rental!NoPayment =>
          payment[k].lease \in Lease /\ payment[k].item \in DOMAIN schedule[payment[k].lease]
    /\ \A r \in Renewal : renewal[r] # Rental!NoRenewal =>
          renewal[r].lease \in Lease /\ Signed(renewal[r].lease) /\ renewal[r].end <= Horizon
    /\ \A m \in Move : move[m] # Rental!NoMove => move[m].lease \in Lease /\ Signed(move[m].lease)

Amounts(payments) == [k \in Payment |-> payments[k].amount]
Verified(payments, l, i) ==
    {k \in Payment : /\ payments[k].lease = l /\ payments[k].item = i
                     /\ payments[k].status = "COMPLETED"}
ItemRight(item, paid) ==
    /\ item.invoice = "NONE" <=> item.status = "SCHEDULED"
    /\ item.paid = paid /\ paid <= Rent
    /\ item.invoice = "PAID" => paid = Rent
    /\ item.invoice \in {"NONE", "ISSUED"} => paid = 0
Money ==
    \A l \in Lease : \A i \in DOMAIN schedule[l] :
        ItemRight(schedule[l][i], Sum(Amounts(payment), Verified(payment, l, i)))

RentInv == RentRows /\ LeasesRight /\ RefsRight /\ Money

(* Whole numbers of rents and dates, and finitely many payments.           *)
RentTerms == Calendared /\ Rent \in Nat /\ IsFiniteSet(Payment)

LEMMA RentStart == ASSUME RentTerms, Rental!Init PROVE RentInv
  <1>1. RentRows
    BY DEF Rental!Init, RentRows, TermRow, PaperRow, PaymentRow, AskedRow, MovingRow,
           Rental!NoLease, Rental!NoDocument, Rental!NoPayment, Rental!NoRenewal, Rental!NoMove,
           Rental!PropertyStatus, Rental!WorkflowStatus, Rental!PaymentStatus
  <1>2. LeasesRight
    BY DEF Rental!Init, LeasesRight, Rental!NoLease, Signed, SignedStatus, Rental!Living
  <1>3. RefsRight
    BY DEF Rental!Init, RefsRight
  <1>4. Money
    BY DEF Rental!Init, Money
  <1> QED BY <1>1, <1>2, <1>3, <1>4 DEF RentInv

(* What the theorems say follows.                                          *)
LEMMA RentTypes == ASSUME RentInv PROVE Rental!TypeOK
  <1>1. \A l \in Lease : \A i \in DOMAIN schedule[l] :
           /\ schedule[l][i].status \in Rental!ScheduleStatus
           /\ schedule[l][i].invoice \in Rental!InvoiceStatus
           /\ schedule[l][i].invoice = "NONE" <=> schedule[l][i].status = "SCHEDULED"
    <2> SUFFICES ASSUME NEW l \in Lease, NEW i \in DOMAIN schedule[l]
                 PROVE  /\ schedule[l][i].status \in Rental!ScheduleStatus
                        /\ schedule[l][i].invoice \in Rental!InvoiceStatus
                        /\ schedule[l][i].invoice = "NONE" <=> schedule[l][i].status = "SCHEDULED"
      OBVIOUS
    <2>1. schedule[l][i] \in ItemRow
      <3>1. schedule[l] \in Seq(ItemRow)
        BY DEF RentInv, RentRows
      <3> QED BY <3>1
    <2>2. schedule[l][i].invoice = "NONE" <=> schedule[l][i].status = "SCHEDULED"
      BY DEF RentInv, Money, ItemRight
    <2> QED BY <2>1, <2>2 DEF ItemRow
  <1>2. /\ \A l \in Rental!Drawn : lease[l].status \in Rental!LeaseStatus /\ lease[l].property \in Property
    BY DEF RentInv, RentRows, TermRow, LeasesRight, TermsRight, Rental!Drawn
  <1>3. \A l \in Lease : Signed(l) => l \in Rental!Drawn
    BY DEF Signed, SignedStatus, Rental!Living, Rental!Drawn
  <1>4. \A k \in Payment : payment[k].status \in Rental!PaymentStatus
    BY DEF RentInv, RentRows, PaymentRow
  <1>5. /\ \A r \in Renewal : renewal[r].status \in Rental!WorkflowStatus \ {"APPROVED"}
        /\ \A m \in Move : move[m].status \in Rental!WorkflowStatus
    BY DEF RentInv, RentRows, AskedRow, MovingRow
  <1> QED BY <1>1, <1>2, <1>3, <1>4, <1>5 DEF RentInv, RentRows, RefsRight, Rental!TypeOK

LEMMA RentShows == ASSUME RentInv PROVE Rental!RentAddsUp
  BY DEF RentInv, Money, ItemRight, Amounts, Verified, Sum, Rental!RentAddsUp

(* One lease is replaced by a row that is drawn up, and signed if the      *)
(* lease was; its schedule is no shorter than it was.  Of the other rows   *)
(* those that change refer to it.                                          *)
LEMMA LeaseBecomes ==
    ASSUME RentInv, RentRows', Money', payment' = payment,
           NEW l \in Lease, NEW row \in TermRow, lease' = [lease EXCEPT ![l] = row],
           row.status # "NONE", TermsRight(row), Signed(l) => row.status \in SignedStatus,
           schedule'[l] # <<>> <=> row.status \in SignedStatus,
           DOMAIN schedule[l] \subseteq DOMAIN schedule'[l],
           \A k \in Lease \ {l} : schedule'[k] = schedule[k],
           \A d \in Paper : \/ paper'[d] = paper[d]
                            \/ paper'[d].lease = l /\ paper'[d].status \in Rental!DocumentStatus,
           \A r \in Renewal : \/ renewal'[r] = renewal[r]
                              \/ /\ renewal'[r].lease = l /\ row.status \in SignedStatus
                                 /\ renewal'[r].end <= Horizon,
           \A m \in Move : \/ move'[m] = move[m]
                           \/ move'[m].lease = l /\ row.status \in SignedStatus
    PROVE  RentInv'
  <1>1. lease'[l] = row /\ \A k \in Lease \ {l} : lease'[k] = lease[k]
    BY DEF RentInv, RentRows
  <1>2. LeasesRight'
    BY <1>1 DEF RentInv, LeasesRight, Signed, TermsRight
  <1>3. \A k \in Lease : /\ Signed(k) => lease'[k].status \in SignedStatus
                         /\ k \in Rental!Drawn => k \in Rental!Drawn'
                         /\ DOMAIN schedule[k] \subseteq DOMAIN schedule'[k]
    BY <1>1 DEF Signed, Rental!Drawn
  <1>4. Rental!Drawn \subseteq Lease /\ l \in Rental!Drawn' /\ (row.status \in SignedStatus <=> lease'[l].status \in SignedStatus)
    BY <1>1 DEF Rental!Drawn, Signed
  <1>5. RefsRight'
    <2>1. \A d \in Paper : paper'[d] # Rental!NoDocument =>
             paper'[d].lease \in Rental!Drawn' /\ paper'[d].status \in Rental!DocumentStatus
      BY <1>3, <1>4 DEF RentInv, RefsRight
    <2>2. \A k \in Payment : payment'[k] # Rental!NoPayment =>
             payment'[k].lease \in Lease /\ payment'[k].item \in DOMAIN schedule'[payment'[k].lease]
      BY <1>3 DEF RentInv, RefsRight
    <2>3. \A r \in Renewal : renewal'[r] # Rental!NoRenewal =>
             renewal'[r].lease \in Lease /\ lease'[renewal'[r].lease].status \in SignedStatus /\ renewal'[r].end <= Horizon
      <3> SUFFICES ASSUME NEW r \in Renewal, renewal'[r] # Rental!NoRenewal
                   PROVE  /\ renewal'[r].lease \in Lease /\ lease'[renewal'[r].lease].status \in SignedStatus
                          /\ renewal'[r].end <= Horizon
        OBVIOUS
      <3>1. CASE renewal'[r] = renewal[r]
        <4>1. renewal[r].lease \in Lease /\ Signed(renewal[r].lease) /\ renewal[r].end <= Horizon
          BY <3>1 DEF RentInv, RefsRight
        <4> QED BY <1>3, <3>1, <4>1 DEF Signed
      <3>2. CASE renewal'[r] # renewal[r]
        BY <1>4, <3>2 DEF Signed
      <3> QED BY <3>1, <3>2
    <2>4. \A m \in Move : move'[m] # Rental!NoMove => move'[m].lease \in Lease /\ lease'[move'[m].lease].status \in SignedStatus
      <3> SUFFICES ASSUME NEW m \in Move, move'[m] # Rental!NoMove
                   PROVE  move'[m].lease \in Lease /\ lease'[move'[m].lease].status \in SignedStatus
        OBVIOUS
      <3>1. CASE move'[m] = move[m]
        <4>1. move[m].lease \in Lease /\ Signed(move[m].lease)
          BY <3>1 DEF RentInv, RefsRight
        <4> QED BY <1>3, <3>1, <4>1 DEF Signed
      <3>2. CASE move'[m] # move[m]
        BY <1>4, <3>2 DEF Signed
      <3> QED BY <3>1, <3>2
    <2> QED BY <2>1, <2>2, <2>3, <2>4 DEF RefsRight, Signed
  <1> QED BY <1>2, <1>5 DEF RentInv

(* Rows that are appended to a schedule have nothing paid for them.        *)
LEMMA Grows ==
    ASSUME RentInv, RentTerms, payment' = payment, NEW l \in Lease, NEW q \in Seq(ItemRow),
           \A i \in DOMAIN q : Fresh(q[i]), schedule' = [schedule EXCEPT ![l] = schedule[l] \o q]
    PROVE  /\ schedule' \in [Lease -> Seq(ItemRow)] /\ Money'
           /\ schedule'[l] = schedule[l] \o q
           /\ schedule'[l] # <<>> <=> (schedule[l] # <<>> \/ q # <<>>)
           /\ DOMAIN schedule[l] \subseteq DOMAIN schedule'[l]
           /\ \A k \in Lease \ {l} : schedule'[k] = schedule[k]
  <1> DEFINE p == schedule[l]
             r == schedule[l] \o q
  <1>1. p \in Seq(ItemRow) /\ schedule \in [Lease -> Seq(ItemRow)]
    BY DEF RentInv, RentRows
  <1>2. /\ r \in Seq(ItemRow)
        /\ DOMAIN p = 1..Len(p) /\ DOMAIN q = 1..Len(q) /\ DOMAIN r = 1..(Len(p) + Len(q))
        /\ Len(p) \in Nat /\ Len(q) \in Nat
        /\ \A i \in 1..Len(p) : r[i] = p[i]
        /\ \A i \in 1..Len(q) : r[Len(p) + i] = q[i]
    BY <1>1
  <1>3. r # <<>> <=> (p # <<>> \/ q # <<>>)
    BY <1>1
  <1>4. /\ schedule' \in [Lease -> Seq(ItemRow)] /\ schedule'[l] = r
        /\ \A k \in Lease \ {l} : schedule'[k] = schedule[k]
    BY <1>1, <1>2
  <1>5. \A i \in DOMAIN r : i \in DOMAIN p \/ \E j \in DOMAIN q : r[i] = q[j] /\ i \notin DOMAIN p
    <2> SUFFICES ASSUME NEW i \in DOMAIN r, i \notin DOMAIN p PROVE \E j \in DOMAIN q : r[i] = q[j]
      OBVIOUS
    <2>1. i - Len(p) \in DOMAIN q /\ Len(p) + (i - Len(p)) = i
      BY <1>2
    <2> QED BY <1>2, <2>1
  <1>6. \A k \in Payment : payment[k].status = "COMPLETED" /\ payment[k].lease = l => payment[k].item \in DOMAIN p
    BY DEF RentInv, RefsRight, Rental!NoPayment
  <1> HIDE DEF r
  <1>7. \A i \in DOMAIN r : ItemRight(r[i], Sum(Amounts(payment), Verified(payment, l, i)))
    <2> SUFFICES ASSUME NEW i \in DOMAIN r
                 PROVE  ItemRight(r[i], Sum(Amounts(payment), Verified(payment, l, i)))
      OBVIOUS
    <2>1. CASE i \in DOMAIN p
      BY <1>2, <2>1 DEF RentInv, Money
    <2>2. CASE i \notin DOMAIN p
      <3>1. Verified(payment, l, i) = {}
        BY <1>6, <2>2 DEF Verified
      <3>2. Fresh(r[i])
        BY <1>5, <2>2
      <3> QED BY <3>1, <3>2, SumEmpty DEF Fresh, ItemRight, RentTerms
    <2> QED BY <2>1, <2>2
  <1>8. Money'
    <2> SUFFICES ASSUME NEW k \in Lease, NEW i \in DOMAIN schedule'[k]
                 PROVE  ItemRight(schedule'[k][i], Sum(Amounts(payment), Verified(payment, k, i)))
      BY DEF Money, Amounts, Verified
    <2>1. CASE k = l
      BY <1>4, <1>7, <2>1
    <2>2. CASE k # l
      BY <1>4, <2>2 DEF RentInv, Money
    <2> QED BY <2>1, <2>2
  <1> QED BY <1>2, <1>3, <1>4, <1>8 DEF r

(* What asks for no rent, and decides nothing of it.                       *)
LEMMA PapersStep ==
    ASSUME RentInv, RentTerms, NEW l \in Lease, NEW row \in TermRow, lease' = [lease EXCEPT ![l] = row],
           RentRows', row.status # "NONE", TermsRight(row), Signed(l) <=> row.status \in SignedStatus,
           UNCHANGED <<schedule, payment>>,
           \A d \in Paper : \/ paper'[d] = paper[d]
                            \/ paper'[d].lease = l /\ paper'[d].status \in Rental!DocumentStatus,
           \A r \in Renewal : \/ renewal'[r] = renewal[r]
                              \/ /\ renewal'[r].lease = l /\ row.status \in SignedStatus
                                 /\ renewal'[r].end <= Horizon,
           \A m \in Move : \/ move'[m] = move[m]
                           \/ move'[m].lease = l /\ row.status \in SignedStatus
    PROVE  RentInv'
  <1>1. Money'
    BY DEF RentInv, Money, Amounts, Verified
  <1>2. /\ Signed(l) => row.status \in SignedStatus
        /\ schedule'[l] # <<>> <=> row.status \in SignedStatus
        /\ DOMAIN schedule[l] \subseteq DOMAIN schedule'[l]
        /\ \A k \in Lease \ {l} : schedule'[k] = schedule[k]
        /\ payment' = payment
    BY DEF RentInv, LeasesRight
  <1> QED BY <1>1, <1>2, LeaseBecomes

(* A lease stays as it is, what refers to it is written.                   *)
LEMMA SameLease ==
    ASSUME RentInv, NEW l \in Rental!Drawn
    PROVE  /\ l \in Lease /\ lease[l] \in TermRow /\ TermsRight(lease[l])
           /\ lease = [lease EXCEPT ![l] = lease[l]] /\ lease[l].status # "NONE"
  BY DEF RentInv, RentRows, LeasesRight, Rental!Drawn

(* The property, the tenant: nothing of what is shown here.                *)
LEMMA AsideStep ==
    ASSUME RentInv, RentRows', UNCHANGED <<lease, paper, schedule, payment, renewal, move>>
    PROVE  RentInv'
  <1>1. LeasesRight'
    BY DEF RentInv, LeasesRight, Signed, TermsRight
  <1>2. RefsRight'
    BY DEF RentInv, RefsRight, Signed, Rental!Drawn
  <1>3. Money'
    BY DEF RentInv, Money, Amounts, Verified
  <1> QED BY <1>1, <1>2, <1>3 DEF RentInv

LEMMA RentLetting == ASSUME RentInv, RentTerms, Rental!LettingStep PROVE RentInv'
  <1> USE DEF Rental!money, Rental!workflow
  <1>0. /\ property \in [Property -> Rental!PropertyStatus] /\ tenant \in [Tenant -> BOOLEAN]
        /\ lease \in [Lease -> TermRow] /\ paper \in [Paper -> PaperRow]
        /\ schedule \in [Lease -> Seq(ItemRow)] /\ payment \in [Payment -> PaymentRow]
        /\ renewal \in [Renewal -> AskedRow] /\ move \in [Move -> MovingRow]
    BY DEF RentInv, RentRows
  <1>1. ASSUME NEW p \in Property, NEW status \in Rental!PropertyStatus, Rental!UpdateProperty(p, status)
        PROVE  RentInv'
    <2>1. RentRows'
      BY <1>0, <1>1 DEF Rental!UpdateProperty, RentRows
    <2> QED BY <1>1, <2>1, AsideStep DEF Rental!UpdateProperty
  <1>2. ASSUME NEW t \in Tenant, NEW active \in BOOLEAN, Rental!UpdateTenant(t, active)
        PROVE  RentInv'
    <2>1. RentRows'
      BY <1>0, <1>2 DEF Rental!UpdateTenant, RentRows
    <2> QED BY <1>2, <2>1, AsideStep DEF Rental!UpdateTenant
  <1>3. ASSUME NEW v \in Rental!Views, NEW l \in Lease, NEW t \in Tenant, NEW p \in Property,
               NEW d \in Paper, NEW terms \in Terms, Rental!CreateLease(v, l, t, p, d, terms)
        PROVE  RentInv'
    <2> DEFINE row == [status |-> "DRAFT", property |-> p, holds |-> FALSE, start |-> terms.start,
                       end |-> terms.end, due_day |-> terms.due_day]
    <2>1. /\ terms.start \in Nat /\ terms.end \in Nat /\ terms.due_day \in Nat
          /\ 1 <= terms.start /\ terms.start <= terms.end /\ terms.end <= Horizon
      BY DEF RentTerms, Calendared
    <2>2. row \in TermRow /\ row.status # "NONE" /\ TermsRight(row) /\ row.status \notin SignedStatus
      BY <2>1 DEF TermRow, TermsRight, Rental!LeaseStatus, SignedStatus, Rental!Living
    <2>3. /\ lease[l].status = "NONE" /\ lease' = [lease EXCEPT ![l] = row]
          /\ paper' = [paper EXCEPT ![d] = [lease |-> l, status |-> "PENDING"]]
          /\ UNCHANGED <<property, tenant, schedule, payment, renewal, move>>
      BY <1>3 DEF Rental!CreateLease
    <2> HIDE DEF row
    <2>4. RentRows'
      <3>1. lease' \in [Lease -> TermRow]
        BY <1>0, <2>2, <2>3
      <3>2. paper' \in [Paper -> PaperRow]
        BY <1>0, <2>3 DEF PaperRow, Rental!DocumentStatus
      <3> QED BY <1>0, <2>3, <3>1, <3>2 DEF RentRows
    <2>5. ~Signed(l)
      BY <2>3 DEF Signed, SignedStatus, Rental!Living
    <2>6. \A e \in Paper : \/ paper'[e] = paper[e]
                           \/ paper'[e].lease = l /\ paper'[e].status \in Rental!DocumentStatus
      BY <1>0, <2>3 DEF Rental!DocumentStatus
    <2> QED BY <2>2, <2>3, <2>4, <2>5, <2>6, PapersStep
  <1>4. ASSUME NEW d \in Paper, NEW l \in Rental!Drawn, NEW status \in Rental!DocumentStatus,
               Rental!SetDocument(d, [lease |-> l, status |-> status])
        PROVE  RentInv'
    <2>1. /\ paper' = [paper EXCEPT ![d] = [lease |-> l, status |-> status]]
          /\ UNCHANGED <<property, tenant, lease, schedule, payment, renewal, move>>
      BY <1>4 DEF Rental!SetDocument
    <2>2. l \in Lease /\ lease' = [lease EXCEPT ![l] = lease[l]]
      BY <2>1, SameLease
    <2>3. RentRows'
      <3>1. paper' \in [Paper -> PaperRow]
        BY <1>0, <2>1, <2>2 DEF PaperRow
      <3> QED BY <1>0, <2>1, <3>1 DEF RentRows
    <2>4. \A e \in Paper : \/ paper'[e] = paper[e]
                           \/ paper'[e].lease = l /\ paper'[e].status \in Rental!DocumentStatus
      BY <1>0, <2>1
    <2> QED BY <2>1, <2>2, <2>3, <2>4, SameLease, PapersStep DEF Signed
  <1>5. ASSUME NEW d \in Paper, NEW l \in Lease, Rental!AddDocument(d, l)
        PROVE  RentInv'
    BY <1>4, <1>5 DEF Rental!AddDocument, Rental!DocumentStatus
  <1>6. ASSUME NEW d \in Paper, paper[d] # Rental!NoDocument, NEW status \in Rental!DocumentStatus,
               Rental!SetDocument(d, [paper[d] EXCEPT !.status = status])
        PROVE  RentInv'
    <2>1. paper[d].lease \in Rental!Drawn
      BY <1>6 DEF RentInv, RefsRight
    <2>2. [paper[d] EXCEPT !.status = status] = [lease |-> paper[d].lease, status |-> status]
      BY <1>0 DEF PaperRow
    <2> QED BY <1>4, <1>6, <2>1, <2>2
  <1>7. ASSUME NEW d \in Paper, Rental!UploadDocument(d) PROVE RentInv'
    BY <1>6, <1>7 DEF Rental!UploadDocument, Rental!DocumentStatus
  <1>8. ASSUME NEW d \in Paper, NEW verdict \in {"VERIFIED", "REJECTED"}, Rental!DecideDocument(d, verdict)
        PROVE  RentInv'
    <2>1. paper[d].status = "UPLOADED" /\ Rental!SetDocument(d, [paper[d] EXCEPT !.status = verdict])
      BY <1>8 DEF Rental!DecideDocument
    <2>2. paper[d] # Rental!NoDocument /\ verdict \in Rental!DocumentStatus
      BY <2>1 DEF Rental!NoDocument, Rental!DocumentStatus
    <2> QED BY <1>6, <2>1, <2>2
  <1>9. ASSUME NEW l \in Lease, Rental!IssueLease(l) PROVE RentInv'
    <2> DEFINE row == [lease[l] EXCEPT !.status = "PENDING_SIGNATURE"]
    <2>1. /\ lease[l].status = "DRAFT" /\ lease' = [lease EXCEPT ![l] = row]
          /\ UNCHANGED <<property, tenant, paper, schedule, payment, renewal, move>>
      BY <1>0, <1>9 DEF Rental!IssueLease
    <2>2. l \in Rental!Drawn
      BY <2>1 DEF Rental!Drawn
    <2>3. lease[l] \in TermRow /\ TermsRight(lease[l])
      BY <2>2, SameLease
    <2>4. row \in TermRow /\ row.status = "PENDING_SIGNATURE" /\ TermsRight(row)
      BY <2>1, <2>3 DEF TermRow, TermsRight, Rental!LeaseStatus, SignedStatus, Rental!Living
    <2> HIDE DEF row
    <2>5. RentRows'
      <3>1. lease' \in [Lease -> TermRow]
        BY <1>0, <2>1, <2>4
      <3> QED BY <1>0, <2>1, <3>1 DEF RentRows
    <2>6. ~Signed(l) /\ row.status \notin SignedStatus /\ row.status # "NONE"
      BY <2>1, <2>4 DEF Signed, SignedStatus, Rental!Living
    <2> QED BY <2>1, <2>4, <2>5, <2>6, PapersStep
  <1>10. ASSUME NEW v \in Rental!Views, NEW l \in Lease, Rental!SignLease(v, l) PROVE RentInv'
    <2> DEFINE row == [lease[l] EXCEPT !.status = "MOVE_IN_PENDING", !.holds = TRUE]
               q == Rental!Periods(lease[l].start, lease[l].end, lease[l].due_day)
    <2>1. /\ lease[l].status = "PENDING_SIGNATURE" /\ lease' = [lease EXCEPT ![l] = row]
          /\ schedule' = [schedule EXCEPT ![l] = q]
          /\ property' = [property EXCEPT ![lease[l].property] = "RESERVED"]
          /\ UNCHANGED <<tenant, paper, payment, renewal, move>>
      BY <1>0, <1>10 DEF Rental!SignLease
    <2>2. l \in Rental!Drawn
      BY <2>1 DEF Rental!Drawn
    <2>3. lease[l] \in TermRow /\ TermsRight(lease[l]) /\ lease[l].status \notin SignedStatus
      BY <2>1, <2>2, SameLease DEF SignedStatus, Rental!Living
    <2>4. row \in TermRow /\ row.status = "MOVE_IN_PENDING" /\ TermsRight(row)
      BY <2>1, <2>3 DEF TermRow, TermsRight, Rental!LeaseStatus, SignedStatus, Rental!Living
    <2>5. row.status \in SignedStatus /\ row.status # "NONE"
      BY <2>4 DEF SignedStatus, Rental!Living
    <2>6. q \in Seq(ItemRow) /\ q # <<>> /\ \A i \in DOMAIN q : Fresh(q[i])
      BY <2>3, PeriodsTile DEF TermRow, TermsRight, RentTerms, Calendared
    <2>7. schedule[l] = <<>>
      BY <2>3 DEF RentInv, LeasesRight, Signed
    <2> HIDE DEF row, q
    <2>8. schedule[l] \o q = q
      BY <2>6, <2>7
    <2>9. /\ schedule' \in [Lease -> Seq(ItemRow)] /\ Money' /\ schedule'[l] # <<>>
          /\ DOMAIN schedule[l] \subseteq DOMAIN schedule'[l]
          /\ \A k \in Lease \ {l} : schedule'[k] = schedule[k]
      BY <2>1, <2>6, <2>8, Grows
    <2>10. RentRows'
      <3>1. lease' \in [Lease -> TermRow]
        BY <1>0, <2>1, <2>4
      <3>2. property' \in [Property -> Rental!PropertyStatus]
        BY <1>0, <2>1 DEF Rental!PropertyStatus
      <3> QED BY <1>0, <2>1, <2>9, <3>1, <3>2 DEF RentRows
    <2> QED BY <2>1, <2>4, <2>5, <2>9, <2>10, LeaseBecomes
  <1> QED BY <1>1, <1>2, <1>3, <1>5, <1>7, <1>8, <1>9, <1>10 DEF Rental!LettingStep

(* Invoices and payments keep the leases, and the number of periods.       *)
LEMMA PaidStep ==
    ASSUME RentInv, RentRows', Money', UNCHANGED <<lease, paper, renewal, move>>,
           \A l \in Lease : DOMAIN schedule'[l] = DOMAIN schedule[l],
           \A k \in Payment : payment'[k] # Rental!NoPayment =>
              payment'[k].lease \in Lease /\ payment'[k].item \in DOMAIN schedule[payment'[k].lease]
    PROVE  RentInv'
  <1>1. \A l \in Lease : schedule'[l] # <<>> <=> schedule[l] # <<>>
    <2> SUFFICES ASSUME NEW l \in Lease PROVE schedule'[l] # <<>> <=> schedule[l] # <<>>
      OBVIOUS
    <2>1. schedule[l] \in Seq(ItemRow) /\ schedule'[l] \in Seq(ItemRow)
      BY DEF RentInv, RentRows
    <2> QED BY <2>1
  <1>2. LeasesRight'
    BY <1>1 DEF RentInv, LeasesRight, Signed, TermsRight
  <1>3. RefsRight'
    BY DEF RentInv, RefsRight, Signed, Rental!Drawn
  <1> QED BY <1>2, <1>3 DEF RentInv

LEMMA MoneyBecomes ==
    ASSUME \A l \in Lease : \A i \in DOMAIN schedule'[l] :
              ItemRight(schedule'[l][i], Sum(Amounts(payment'), Verified(payment', l, i)))
    PROVE  Money'
  BY DEF Money, Amounts, Verified

(* One row of a schedule is replaced.                                      *)
LEMMA ItemBecomes ==
    ASSUME RentInv, NEW l \in Lease, NEW i \in DOMAIN schedule[l], NEW item \in ItemRow,
           schedule' = [schedule EXCEPT ![l] = [schedule[l] EXCEPT ![i] = item]]
    PROVE  /\ schedule' \in [Lease -> Seq(ItemRow)]
           /\ \A k \in Lease : DOMAIN schedule'[k] = DOMAIN schedule[k]
           /\ schedule'[l][i] = item
           /\ \A k \in Lease : \A j \in DOMAIN schedule[k] :
                 k # l \/ j # i => schedule'[k][j] = schedule[k][j]
  <1>1. schedule \in [Lease -> Seq(ItemRow)] /\ schedule[l] \in Seq(ItemRow)
    BY DEF RentInv, RentRows
  <1>2. /\ [schedule[l] EXCEPT ![i] = item] \in Seq(ItemRow)
        /\ DOMAIN [schedule[l] EXCEPT ![i] = item] = DOMAIN schedule[l]
    BY <1>1
  <1> QED BY <1>1, <1>2

(* A row whose payments stay, and what is said to be paid with them.       *)
LEMMA ItemMoves ==
    ASSUME RentInv, NEW l \in Lease, NEW i \in DOMAIN schedule[l], NEW item \in ItemRow,
           schedule' = [schedule EXCEPT ![l] = [schedule[l] EXCEPT ![i] = item]],
           item.paid = schedule[l][i].paid,
           item.invoice = "NONE" <=> item.status = "SCHEDULED",
           item.invoice # "PAID" \/ schedule[l][i].invoice = "PAID",
           item.invoice \in {"NONE", "ISSUED"} => schedule[l][i].invoice \in {"NONE", "ISSUED"},
           UNCHANGED <<property, tenant, lease, paper, payment, renewal, move>>
    PROVE  RentInv'
  <1>1. /\ schedule' \in [Lease -> Seq(ItemRow)]
        /\ \A k \in Lease : DOMAIN schedule'[k] = DOMAIN schedule[k]
        /\ schedule'[l][i] = item
        /\ \A k \in Lease : \A j \in DOMAIN schedule[k] :
              k # l \/ j # i => schedule'[k][j] = schedule[k][j]
    BY ItemBecomes
  <1>2. RentRows'
    BY <1>1 DEF RentInv, RentRows
  <1>0. payment' = payment
    OBVIOUS
  <1>3. Money'
    <2> SUFFICES ASSUME NEW k \in Lease, NEW j \in DOMAIN schedule'[k]
                 PROVE  ItemRight(schedule'[k][j], Sum(Amounts(payment), Verified(payment, k, j)))
      BY <1>0, MoneyBecomes
    <2>1. ItemRight(schedule[k][j], Sum(Amounts(payment), Verified(payment, k, j)))
      BY <1>1 DEF RentInv, Money
    <2>2. CASE k = l /\ j = i
      BY <1>1, <2>1, <2>2 DEF ItemRight
    <2>3. CASE ~(k = l /\ j = i)
      BY <1>1, <2>1, <2>3
    <2> QED BY <2>2, <2>3
  <1>4. \A k \in Payment : payment'[k] # Rental!NoPayment =>
           payment'[k].lease \in Lease /\ payment'[k].item \in DOMAIN schedule[payment'[k].lease]
    BY DEF RentInv, RefsRight
  <1> QED BY <1>1, <1>2, <1>3, <1>4, PaidStep

LEMMA ItemIs ==
    ASSUME RentInv, NEW l \in Lease, NEW i \in DOMAIN schedule[l]
    PROVE  /\ schedule[l][i] \in ItemRow
           /\ ItemRight(schedule[l][i], Sum(Amounts(payment), Verified(payment, l, i)))
  <1>1. schedule[l] \in Seq(ItemRow)
    BY DEF RentInv, RentRows
  <1> QED BY <1>1 DEF RentInv, Money

(* A payment that is written, and verifies nothing more than it did.       *)
LEMMA PaymentMoves ==
    ASSUME RentInv, RentTerms, NEW k \in Payment, NEW row \in PaymentRow,
           payment' = [payment EXCEPT ![k] = row], payment[k].status # "COMPLETED",
           row.status # "COMPLETED", row.lease \in Lease, row.item \in DOMAIN schedule[row.lease],
           UNCHANGED <<property, tenant, lease, paper, schedule, renewal, move>>
    PROVE  RentInv'
  <1>1. payment \in [Payment -> PaymentRow] /\ payment' \in [Payment -> PaymentRow]
    BY DEF RentInv, RentRows
  <1>2. RentRows'
    BY <1>1 DEF RentInv, RentRows
  <1>3. Money'
    <2> SUFFICES ASSUME NEW l \in Lease, NEW i \in DOMAIN schedule[l]
                 PROVE  ItemRight(schedule[l][i], Sum(Amounts(payment'), Verified(payment', l, i)))
      BY MoneyBecomes
    <2>1. Verified(payment', l, i) = Verified(payment, l, i)
      BY <1>1 DEF Verified
    <2>2. IsFiniteSet(Verified(payment, l, i))
      BY FS_Subset DEF Verified, RentTerms
    <2>3. \A y \in Verified(payment, l, i) : Amounts(payment')[y] = Amounts(payment)[y]
      BY <1>1 DEF Verified, Amounts
    <2>4. Sum(Amounts(payment'), Verified(payment, l, i)) = Sum(Amounts(payment), Verified(payment, l, i))
      BY <2>2, <2>3, SumSame
    <2> QED BY <2>1, <2>4, ItemIs
  <1>4. /\ \A l \in Lease : DOMAIN schedule'[l] = DOMAIN schedule[l]
        /\ \A j \in Payment : payment'[j] # Rental!NoPayment =>
              payment'[j].lease \in Lease /\ payment'[j].item \in DOMAIN schedule[payment'[j].lease]
    BY <1>1 DEF RentInv, RefsRight
  <1> QED BY <1>2, <1>3, <1>4, PaidStep

LEMMA Completing ==
    ASSUME RentInv, RentTerms, NEW k \in Payment, Rental!CompletePayment(k)
    PROVE  RentInv'
  <1> DEFINE l == payment[k].lease
             i == payment[k].item
             paid == schedule[l][i].paid + payment[k].amount
             status == IF paid >= Rent THEN "PAID" ELSE "PARTIALLY_PAID"
             item == [schedule[l][i] EXCEPT !.paid = paid, !.invoice = status, !.status = status]
             done == [payment[k] EXCEPT !.status = "COMPLETED"]
  <1>1. /\ payment[k].status = "PENDING" /\ paid <= Rent
        /\ payment' = [payment EXCEPT ![k].status = "COMPLETED"]
        /\ schedule' = [schedule EXCEPT ![l][i].paid = paid, ![l][i].invoice = status,
                                        ![l][i].status = status]
        /\ UNCHANGED <<property, tenant, lease, paper, renewal, move>>
    BY DEF Rental!CompletePayment, Rental!workflow
  <1>2. payment[k] \in PaymentRow /\ payment \in [Payment -> PaymentRow]
    BY DEF RentInv, RentRows
  <1>3. l \in Lease /\ i \in DOMAIN schedule[l]
    <2>1. payment[k] # Rental!NoPayment
      <3>1. payment[k].status = "PENDING"
        BY <1>1
      <3> QED BY <3>1 DEF Rental!NoPayment
    <2> QED BY <2>1 DEF RentInv, RefsRight
  <1>4. schedule[l][i] \in ItemRow /\ ItemRight(schedule[l][i], Sum(Amounts(payment), Verified(payment, l, i)))
    BY <1>3, ItemIs
  <1>5. paid \in Nat /\ status \in {"PAID", "PARTIALLY_PAID"}
    BY <1>2, <1>4 DEF PaymentRow, ItemRow
  <1>6. item \in ItemRow /\ item.paid = paid /\ item.invoice = status /\ item.status = status
    BY <1>4, <1>5 DEF ItemRow, Rental!ScheduleStatus, Rental!InvoiceStatus
  <1>7. status = "PAID" => paid = Rent
    <2>1. paid >= Rent => paid = Rent
      <3>1. paid <= Rent /\ paid \in Nat /\ Rent \in Nat
        BY <1>1, <1>5 DEF RentTerms
      <3> HIDE DEF paid
      <3> QED BY <3>1
    <2> QED BY <2>1
  <1>8. schedule \in [Lease -> Seq(ItemRow)] /\ schedule[l] \in Seq(ItemRow)
    BY <1>3 DEF RentInv, RentRows
  <1>9. payment' = [payment EXCEPT ![k] = done] /\ done \in PaymentRow
    BY <1>1, <1>2 DEF PaymentRow, Rental!PaymentStatus
  <1>10. done.status = "COMPLETED" /\ done.lease = l /\ done.item = i /\ done.amount = payment[k].amount
    BY <1>2 DEF PaymentRow
  <1>11. schedule' = [schedule EXCEPT ![l] = [schedule[l] EXCEPT ![i] = item]]
    <2> HIDE DEF paid, status, l, i
    <2> QED BY <1>1, <1>3, <1>8
  <1>12. schedule[l][i].paid = Sum(Amounts(payment), Verified(payment, l, i))
    BY <1>4 DEF ItemRight
  <1> HIDE DEF item, done, status, paid
  <1>13. /\ schedule' \in [Lease -> Seq(ItemRow)]
         /\ \A m \in Lease : DOMAIN schedule'[m] = DOMAIN schedule[m]
         /\ schedule'[l][i] = item
         /\ \A m \in Lease : \A j \in DOMAIN schedule[m] :
               m # l \/ j # i => schedule'[m][j] = schedule[m][j]
    BY <1>3, <1>6, <1>11, ItemBecomes
  <1>14. RentRows'
    <2>1. payment' \in [Payment -> PaymentRow]
      BY <1>2, <1>9
    <2> QED BY <1>1, <1>13, <2>1 DEF RentInv, RentRows
  <1>15. Amounts(payment') = Amounts(payment)
    BY <1>2, <1>9, <1>10 DEF Amounts
  <1>16. \A m \in Lease : \A j : m # l \/ j # i => Verified(payment', m, j) = Verified(payment, m, j)
    BY <1>2, <1>9, <1>10 DEF Verified
  <1>17. Verified(payment', l, i) = Verified(payment, l, i) \cup {k} /\ k \notin Verified(payment, l, i)
    BY <1>1, <1>2, <1>9, <1>10 DEF Verified
  <1>18. Sum(Amounts(payment'), Verified(payment', l, i)) = paid
    <2>1. IsFiniteSet(Verified(payment, l, i))
      BY FS_Subset DEF Verified, RentTerms
    <2>2. \A y \in Verified(payment, l, i) \cup {k} : Amounts(payment)[y] \in Int
      BY <1>2 DEF Verified, Amounts, PaymentRow
    <2>3. Sum(Amounts(payment), Verified(payment, l, i) \cup {k}) =
             Amounts(payment)[k] + Sum(Amounts(payment), Verified(payment, l, i))
      BY <1>17, <2>1, <2>2, SumAdd
    <2>4. Amounts(payment)[k] = payment[k].amount
      BY DEF Amounts
    <2>5. payment[k].amount \in Nat /\ schedule[l][i].paid \in Nat
      BY <1>2, <1>4 DEF PaymentRow, ItemRow
    <2> QED BY <1>12, <1>15, <1>17, <2>3, <2>4, <2>5 DEF paid
  <1>19. Money'
    <2> SUFFICES ASSUME NEW m \in Lease, NEW j \in DOMAIN schedule'[m]
                 PROVE  ItemRight(schedule'[m][j], Sum(Amounts(payment'), Verified(payment', m, j)))
      BY MoneyBecomes
    <2>1. CASE m = l /\ j = i
      <3>1. ItemRight(item, paid)
        BY <1>1, <1>5, <1>6, <1>7 DEF ItemRight
      <3> QED BY <1>13, <1>18, <2>1, <3>1
    <2>2. CASE ~(m = l /\ j = i)
      <3>1. j \in DOMAIN schedule[m] /\ schedule'[m][j] = schedule[m][j]
        BY <1>13, <2>2
      <3>2. ItemRight(schedule[m][j], Sum(Amounts(payment), Verified(payment, m, j)))
        BY <3>1, ItemIs
      <3> QED BY <1>15, <1>16, <2>2, <3>1, <3>2
    <2> QED BY <2>1, <2>2
  <1>20. \A j \in Payment : payment'[j] # Rental!NoPayment =>
            payment'[j].lease \in Lease /\ payment'[j].item \in DOMAIN schedule[payment'[j].lease]
    BY <1>2, <1>3, <1>9, <1>10 DEF RentInv, RefsRight
  <1> QED BY <1>1, <1>13, <1>14, <1>19, <1>20, PaidStep

LEMMA Expiring ==
    ASSUME RentInv, NEW v \in Rental!Views, Rental!ExpireOverdue(v)
    PROVE  RentInv'
  <1> DEFINE After(l, i) == IF i \in Rental!Overdue(v, l)
                            THEN [schedule[l][i] EXCEPT !.invoice = "OVERDUE", !.status = "OVERDUE"]
                            ELSE schedule[l][i]
  <1>1. /\ schedule' = [l \in Lease |-> [i \in DOMAIN schedule[l] |-> After(l, i)]]
        /\ UNCHANGED <<property, tenant, lease, paper, renewal, move>> /\ payment' = payment
    BY DEF Rental!ExpireOverdue, Rental!workflow
  <1>2. ASSUME NEW l \in Lease, NEW i \in DOMAIN schedule[l]
        PROVE  /\ After(l, i) \in ItemRow
               /\ ItemRight(After(l, i), Sum(Amounts(payment), Verified(payment, l, i)))
    <2>1. /\ schedule[l][i] \in ItemRow
          /\ ItemRight(schedule[l][i], Sum(Amounts(payment), Verified(payment, l, i)))
      BY ItemIs
    <2> QED BY <2>1 DEF ItemRow, ItemRight, Rental!ScheduleStatus, Rental!InvoiceStatus
  <1> HIDE DEF After
  <1>3. \A l \in Lease : /\ [i \in DOMAIN schedule[l] |-> After(l, i)] \in Seq(ItemRow)
                         /\ DOMAIN schedule'[l] = DOMAIN schedule[l]
                         /\ \A i \in DOMAIN schedule[l] : schedule'[l][i] = After(l, i)
    <2> SUFFICES ASSUME NEW l \in Lease
                 PROVE  /\ [i \in DOMAIN schedule[l] |-> After(l, i)] \in Seq(ItemRow)
                        /\ DOMAIN schedule'[l] = DOMAIN schedule[l]
                        /\ \A i \in DOMAIN schedule[l] : schedule'[l][i] = After(l, i)
      OBVIOUS
    <2>1. schedule[l] \in Seq(ItemRow)
      BY DEF RentInv, RentRows
    <2>2. DOMAIN schedule[l] = 1..Len(schedule[l]) /\ Len(schedule[l]) \in Nat
      BY <2>1
    <2>3. [i \in 1..Len(schedule[l]) |-> After(l, i)] \in Seq(ItemRow)
      BY <1>2, <2>2
    <2> QED BY <1>1, <2>2, <2>3
  <1>4. RentRows'
    <2>1. schedule' \in [Lease -> Seq(ItemRow)]
      BY <1>1, <1>3
    <2> QED BY <1>1, <2>1 DEF RentInv, RentRows
  <1>5. Money'
    <2> SUFFICES ASSUME NEW l \in Lease, NEW i \in DOMAIN schedule'[l]
                 PROVE  ItemRight(schedule'[l][i], Sum(Amounts(payment), Verified(payment, l, i)))
      BY <1>1, MoneyBecomes
    <2> QED BY <1>2, <1>3
  <1>6. \A k \in Payment : payment'[k] # Rental!NoPayment =>
           payment'[k].lease \in Lease /\ payment'[k].item \in DOMAIN schedule[payment'[k].lease]
    BY <1>1 DEF RentInv, RefsRight
  <1> QED BY <1>1, <1>3, <1>4, <1>5, <1>6, PaidStep

LEMMA RentCollecting == ASSUME RentInv, RentTerms, Rental!CollectingStep PROVE RentInv'
  <1> USE DEF Rental!workflow
  <1>0. schedule \in [Lease -> Seq(ItemRow)] /\ payment \in [Payment -> PaymentRow]
    BY DEF RentInv, RentRows
  <1>1. ASSUME NEW l \in Lease, NEW i \in DOMAIN schedule[l], Rental!IssueInvoice(l, i) PROVE RentInv'
    <2> DEFINE item == [schedule[l][i] EXCEPT !.status = "INVOICED", !.invoice = "ISSUED"]
    <2>1. schedule[l][i] \in ItemRow /\ schedule[l] \in Seq(ItemRow)
      BY <1>0, ItemIs
    <2>2. schedule[l][i].invoice = "NONE"
      BY <1>1 DEF Rental!IssueInvoice, Rental!Invoiced
    <2>3. schedule' = [schedule EXCEPT ![l] = [schedule[l] EXCEPT ![i] = item]]
      BY <1>0, <1>1, <2>1 DEF Rental!IssueInvoice
    <2>4. /\ item \in ItemRow /\ item.paid = schedule[l][i].paid
          /\ item.invoice = "ISSUED" /\ item.status = "INVOICED"
      BY <2>1 DEF ItemRow, Rental!ScheduleStatus, Rental!InvoiceStatus
    <2>5. UNCHANGED <<property, tenant, lease, paper, payment, renewal, move>>
      BY <1>1 DEF Rental!IssueInvoice
    <2> HIDE DEF item
    <2> QED BY <2>2, <2>3, <2>4, <2>5, ItemMoves
  <1>2. ASSUME NEW l \in Lease, NEW i \in DOMAIN schedule[l], Rental!FallsDue(l, i) PROVE RentInv'
    <2> DEFINE item == [schedule[l][i] EXCEPT !.late = TRUE]
    <2>1. /\ schedule[l][i] \in ItemRow /\ schedule[l] \in Seq(ItemRow)
          /\ schedule[l][i].invoice = "NONE" <=> schedule[l][i].status = "SCHEDULED"
      BY <1>0, ItemIs DEF ItemRight
    <2>2. schedule' = [schedule EXCEPT ![l] = [schedule[l] EXCEPT ![i] = item]]
      BY <1>0, <1>2, <2>1 DEF Rental!FallsDue
    <2>3. /\ item \in ItemRow /\ item.paid = schedule[l][i].paid
          /\ item.invoice = schedule[l][i].invoice /\ item.status = schedule[l][i].status
      BY <2>1 DEF ItemRow
    <2>4. UNCHANGED <<property, tenant, lease, paper, payment, renewal, move>>
      BY <1>2 DEF Rental!FallsDue
    <2> HIDE DEF item
    <2> QED BY <2>1, <2>2, <2>3, <2>4, ItemMoves
  <1>3. ASSUME NEW l \in Lease, NEW i \in DOMAIN schedule[l], NEW v \in Rental!Views, NEW k \in Payment,
               NEW amount \in 1..Rent, Rental!SubmitPayment(v, k, l, i, amount)
        PROVE  RentInv'
    <2> DEFINE row == [lease |-> l, item |-> i, amount |-> amount, status |-> "PENDING"]
    <2>1. /\ payment[k] = Rental!NoPayment /\ payment' = [payment EXCEPT ![k] = row]
          /\ UNCHANGED <<property, tenant, lease, paper, schedule, renewal, move>>
      BY <1>3 DEF Rental!SubmitPayment
    <2>2. i \in Nat /\ amount \in Nat
      <3>1. schedule[l] \in Seq(ItemRow)
        BY <1>0
      <3> QED BY <3>1 DEF RentTerms
    <2>3. row \in PaymentRow
      BY <2>2 DEF PaymentRow, Rental!PaymentStatus
    <2>4. payment[k].status # "COMPLETED"
      BY <2>1 DEF Rental!NoPayment
    <2> QED BY <2>1, <2>3, <2>4, PaymentMoves
  <1>4. ASSUME NEW k \in Payment, Rental!FailPayment(k) PROVE RentInv'
    <2> DEFINE row == [payment[k] EXCEPT !.status = "FAILED"]
    <2>1. /\ payment[k].status = "PENDING" /\ payment' = [payment EXCEPT ![k] = row]
          /\ UNCHANGED <<property, tenant, lease, paper, schedule, renewal, move>>
      BY <1>0, <1>4 DEF Rental!FailPayment
    <2>2. payment[k].lease \in Lease /\ payment[k].item \in DOMAIN schedule[payment[k].lease]
      BY <2>1 DEF RentInv, RefsRight, Rental!NoPayment
    <2>3. /\ row \in PaymentRow /\ row.status = "FAILED"
          /\ row.lease = payment[k].lease /\ row.item = payment[k].item
      BY <1>0 DEF PaymentRow, Rental!PaymentStatus
    <2> HIDE DEF row
    <2> QED BY <2>1, <2>2, <2>3, PaymentMoves
  <1> QED BY <1>1, <1>2, <1>3, <1>4, Completing, Expiring DEF Rental!CollectingStep

LEMMA RentRenewing == ASSUME RentInv, RentTerms, Rental!RenewalStep PROVE RentInv'
  <1> USE DEF Rental!money
  <1>0. /\ lease \in [Lease -> TermRow] /\ schedule \in [Lease -> Seq(ItemRow)]
        /\ renewal \in [Renewal -> AskedRow]
    BY DEF RentInv, RentRows
  <1>1. ASSUME NEW r \in Renewal, NEW l \in Lease, Signed(l), NEW row \in AskedRow,
               row.lease = l, row.end <= Horizon, renewal' = [renewal EXCEPT ![r] = row],
               UNCHANGED <<property, tenant, lease, paper, schedule, payment, move>>
        PROVE  RentInv'
    <2>1. l \in Rental!Drawn
      BY <1>1 DEF Signed, SignedStatus, Rental!Living, Rental!Drawn
    <2>2. /\ lease[l] \in TermRow /\ TermsRight(lease[l]) /\ lease[l].status # "NONE"
          /\ lease' = [lease EXCEPT ![l] = lease[l]]
      BY <1>1, <2>1, SameLease
    <2>3. RentRows'
      <3>1. renewal' \in [Renewal -> AskedRow]
        BY <1>0, <1>1
      <3> QED BY <1>1, <3>1 DEF RentInv, RentRows
    <2>4. \A s \in Renewal : \/ renewal'[s] = renewal[s]
                             \/ /\ renewal'[s].lease = l /\ lease[l].status \in SignedStatus
                                /\ renewal'[s].end <= Horizon
      BY <1>0, <1>1 DEF Signed
    <2> QED BY <1>1, <2>2, <2>3, <2>4, PapersStep DEF Signed
  <1>2. ASSUME NEW v \in Rental!Views, NEW r \in Renewal, NEW l \in Lease, NEW end \in EndDates,
               Rental!RequestRenewal(v, r, l, end)
        PROVE  RentInv'
    <2>1. end \in Nat /\ end <= Horizon
      BY DEF RentTerms, Calendared
    <2>2. Signed(l)
      BY <1>2 DEF Rental!RequestRenewal, Signed, SignedStatus, Rental!Living
    <2>3. [lease |-> l, end |-> end, status |-> "REQUESTED"] \in AskedRow
      BY <2>1 DEF AskedRow, Rental!WorkflowStatus
    <2> QED BY <1>1, <1>2, <2>1, <2>2, <2>3 DEF Rental!RequestRenewal
  <1>3. ASSUME NEW r \in Renewal, renewal[r].status = "REQUESTED"
        PROVE  renewal[r].lease \in Lease /\ Signed(renewal[r].lease) /\ renewal[r].end <= Horizon
    <2>1. renewal[r] # Rental!NoRenewal
      BY <1>3 DEF Rental!NoRenewal
    <2> QED BY <2>1 DEF RentInv, RefsRight
  <1>4. ASSUME NEW r \in Renewal, Rental!RejectRenewal(r) PROVE RentInv'
    <2> DEFINE row == [renewal[r] EXCEPT !.status = "REJECTED"]
    <2>1. /\ renewal[r].status = "REQUESTED" /\ renewal' = [renewal EXCEPT ![r] = row]
          /\ UNCHANGED <<property, tenant, lease, paper, schedule, payment, move>>
      BY <1>0, <1>4 DEF Rental!RejectRenewal
    <2>2. row \in AskedRow /\ row.lease = renewal[r].lease /\ row.end = renewal[r].end
      BY <1>0 DEF AskedRow, Rental!WorkflowStatus
    <2> HIDE DEF row
    <2> QED BY <1>1, <1>3, <2>1, <2>2
  <1>5. ASSUME NEW r \in Renewal, Rental!ApproveRenewal(r) PROVE RentInv'
    <2> DEFINE l == renewal[r].lease
               row == [lease[l] EXCEPT !.end = renewal[r].end]
               asked == [renewal[r] EXCEPT !.status = "COMPLETED"]
               q == Rental!Periods(lease[l].end + 1, renewal[r].end, lease[l].due_day)
    <2>1. /\ renewal[r].status = "REQUESTED"
          /\ renewal' = [renewal EXCEPT ![r] = asked]
          /\ lease' = [lease EXCEPT ![l] = row]
          /\ schedule' = [schedule EXCEPT ![l] = schedule[l] \o q]
          /\ UNCHANGED <<property, tenant, paper, payment, move>>
      BY <1>0, <1>5 DEF Rental!ApproveRenewal
    <2>2. l \in Lease /\ Signed(l) /\ renewal[r].end <= Horizon /\ renewal[r] \in AskedRow
      BY <1>0, <1>3, <2>1
    <2>3. l \in Rental!Drawn
      BY <2>2 DEF Signed, SignedStatus, Rental!Living, Rental!Drawn
    <2>4. lease[l] \in TermRow /\ TermsRight(lease[l]) /\ lease[l].status \in SignedStatus
      BY <2>2, <2>3, SameLease DEF Signed
    <2>5. renewal[r].end \in Nat /\ lease[l].end \in Nat /\ lease[l].due_day \in Nat
      BY <2>2, <2>4 DEF AskedRow, TermRow
    <2>6. /\ row \in TermRow /\ TermsRight(row) /\ row.status = lease[l].status
          /\ row.end = renewal[r].end
      BY <2>2, <2>4, <2>5 DEF TermRow, TermsRight
    <2>7. asked \in AskedRow /\ asked.lease = l /\ asked.end = renewal[r].end
      BY <2>2 DEF AskedRow, Rental!WorkflowStatus
    <2>8. q \in Seq(ItemRow) /\ \A i \in DOMAIN q : Fresh(q[i])
      <3>1. CASE lease[l].end + 1 <= renewal[r].end
        <4>1. lease[l].end + 1 \in Nat /\ 1 <= lease[l].end + 1 /\ CalendarRuns
          BY <2>5 DEF RentTerms, Calendared
        <4> QED BY <2>2, <2>5, <3>1, <4>1, PeriodsTile
      <3>2. CASE ~(lease[l].end + 1 <= renewal[r].end)
        <4>1. q = <<>>
          <5>1. lease[l].end + 1 \in Nat
            BY <2>5
          <5> QED BY <2>5, <3>2, <5>1, NoPeriods
        <4> HIDE DEF q
        <4> QED BY <4>1
      <3> QED BY <3>1, <3>2
    <2>9. row.status # "NONE" /\ row.status \in SignedStatus
      BY <2>4, <2>6 DEF SignedStatus, Rental!Living
    <2>10. schedule[l] # <<>>
      BY <2>2 DEF RentInv, LeasesRight
    <2> HIDE DEF row, asked, q
    <2>11. /\ schedule' \in [Lease -> Seq(ItemRow)] /\ Money' /\ schedule'[l] # <<>>
           /\ DOMAIN schedule[l] \subseteq DOMAIN schedule'[l]
           /\ \A k \in Lease \ {l} : schedule'[k] = schedule[k]
      BY <2>1, <2>2, <2>8, <2>10, Grows
    <2>12. RentRows'
      <3>1. lease' \in [Lease -> TermRow]
        BY <1>0, <2>1, <2>6
      <3>2. renewal' \in [Renewal -> AskedRow]
        BY <1>0, <2>1, <2>7
      <3> QED BY <2>1, <2>11, <3>1, <3>2 DEF RentInv, RentRows
    <2>13. \A s \in Renewal : \/ renewal'[s] = renewal[s]
                              \/ /\ renewal'[s].lease = l /\ row.status \in SignedStatus
                                 /\ renewal'[s].end <= Horizon
      BY <1>0, <2>1, <2>2, <2>7, <2>9
    <2> HIDE DEF l
    <2> QED BY <2>1, <2>2, <2>6, <2>9, <2>11, <2>12, <2>13, LeaseBecomes
  <1> QED BY <1>2, <1>4, <1>5 DEF Rental!RenewalStep

LEMMA RentMoving == ASSUME RentInv, RentTerms, Rental!MoveStep PROVE RentInv'
  <1> USE DEF Rental!money
  <1>0. lease \in [Lease -> TermRow] /\ move \in [Move -> MovingRow]
    BY DEF RentInv, RentRows
  (* A lease that was signed, whose status moves on, and who moves.        *)
  <1>1. ASSUME NEW m \in Move, NEW l \in Lease, Signed(l), NEW row \in MovingRow, row.lease = l,
               NEW status \in SignedStatus, NEW holds \in BOOLEAN,
               move' = [move EXCEPT ![m] = row],
               lease' = [lease EXCEPT ![l] = [lease[l] EXCEPT !.status = status, !.holds = holds]],
               property' \in [Property -> Rental!PropertyStatus],
               UNCHANGED <<tenant, paper, schedule, payment, renewal>>
        PROVE  RentInv'
    <2> DEFINE next == [lease[l] EXCEPT !.status = status, !.holds = holds]
    <2>1. l \in Rental!Drawn
      BY <1>1 DEF Signed, SignedStatus, Rental!Living, Rental!Drawn
    <2>2. lease[l] \in TermRow /\ TermsRight(lease[l])
      BY <2>1, SameLease
    <2>3. next \in TermRow /\ TermsRight(next) /\ next.status = status
      BY <2>2 DEF TermRow, TermsRight, Rental!LeaseStatus, SignedStatus, Rental!Living
    <2>4. status # "NONE"
      BY DEF SignedStatus, Rental!Living
    <2> HIDE DEF next
    <2>5. RentRows'
      <3>1. lease' \in [Lease -> TermRow]
        BY <1>0, <1>1, <2>3 DEF next
      <3>2. move' \in [Move -> MovingRow]
        BY <1>0, <1>1
      <3> QED BY <1>1, <3>1, <3>2 DEF RentInv, RentRows
    <2>6. \A n \in Move : \/ move'[n] = move[n]
                          \/ move'[n].lease = l /\ next.status \in SignedStatus
      BY <1>0, <1>1, <2>3
    <2>7. lease' = [lease EXCEPT ![l] = next]
      BY <1>1 DEF next
    <2> QED BY <1>1, <2>3, <2>4, <2>5, <2>6, <2>7, PapersStep
  <1>2. ASSUME NEW m \in Move, move[m].status # "NONE"
        PROVE  /\ move[m].lease \in Lease /\ Signed(move[m].lease) /\ move[m] \in MovingRow
               /\ lease[move[m].lease] \in TermRow /\ lease[move[m].lease].property \in Property
               /\ property \in [Property -> Rental!PropertyStatus]
    <2>1. move[m] # Rental!NoMove
      BY <1>2 DEF Rental!NoMove
    <2>2. move[m].lease \in Lease /\ Signed(move[m].lease)
      BY <2>1 DEF RentInv, RefsRight
    <2>3. move[m].lease \in Rental!Drawn
      BY <2>2 DEF Signed, SignedStatus, Rental!Living, Rental!Drawn
    <2> QED BY <1>0, <2>2, <2>3, SameLease DEF RentInv, RentRows, TermsRight
  <1>3. ASSUME NEW v \in Rental!Views, NEW m \in Move, NEW l \in Lease, NEW type \in {"MOVE_IN", "MOVE_OUT"},
               Rental!RequestMove(v, m, l, type)
        PROVE  RentInv'
    <2> DEFINE row == [lease |-> l, type |-> type, status |-> "REQUESTED"]
               status == IF type = "MOVE_OUT" THEN "NOTICE_GIVEN" ELSE lease[l].status
    <2>1. /\ lease[l].status \in {"MOVE_IN_PENDING", "ACTIVE"} /\ move' = [move EXCEPT ![m] = row]
          /\ UNCHANGED <<property, tenant, paper, schedule, payment, renewal>>
      BY <1>3 DEF Rental!RequestMove
    <2>2. lease[l] \in TermRow
      BY <1>0
    <2>3. Signed(l) /\ status \in SignedStatus /\ lease[l].holds \in BOOLEAN
      BY <2>1, <2>2 DEF Signed, SignedStatus, Rental!Living, TermRow
    <2>4. row \in MovingRow /\ row.lease = l
      BY DEF MovingRow, Rental!WorkflowStatus
    <2>5. lease' = [lease EXCEPT ![l] = [lease[l] EXCEPT !.status = status, !.holds = lease[l].holds]]
      BY <1>0, <1>3, <2>2 DEF Rental!RequestMove, TermRow
    <2>6. property' \in [Property -> Rental!PropertyStatus]
      BY <2>1 DEF RentInv, RentRows
    <2> HIDE DEF row, status
    <2> QED BY <1>1, <2>1, <2>3, <2>4, <2>5, <2>6
  <1>4. ASSUME NEW m \in Move, NEW verdict \in {"APPROVED", "REJECTED"}, Rental!DecideMove(m, verdict)
        PROVE  RentInv'
    <2> DEFINE l == move[m].lease
               row == [move[m] EXCEPT !.status = verdict]
               status == IF move[m].type = "MOVE_IN" THEN lease[l].status
                         ELSE IF verdict = "APPROVED" THEN "MOVE_OUT_PENDING" ELSE "ACTIVE"
    <2>1. /\ move[m].status = "REQUESTED" /\ move' = [move EXCEPT ![m] = row]
          /\ UNCHANGED <<property, tenant, paper, schedule, payment, renewal>>
      BY <1>0, <1>4 DEF Rental!DecideMove
    <2>2. /\ l \in Lease /\ Signed(l) /\ move[m] \in MovingRow /\ lease[l] \in TermRow
          /\ property' \in [Property -> Rental!PropertyStatus]
      BY <1>2, <2>1
    <2>3. status \in SignedStatus /\ lease[l].holds \in BOOLEAN
      BY <2>2 DEF Signed, SignedStatus, Rental!Living, TermRow
    <2>4. row \in MovingRow /\ row.lease = l
      BY <2>2 DEF MovingRow, Rental!WorkflowStatus
    <2>5. lease' = [lease EXCEPT ![l] = [lease[l] EXCEPT !.status = status, !.holds = lease[l].holds]]
      BY <1>0, <1>4, <2>2 DEF Rental!DecideMove, TermRow
    <2> HIDE DEF l, row, status
    <2> QED BY <1>1, <2>1, <2>2, <2>3, <2>4, <2>5
  <1>5. ASSUME NEW m \in Move, Rental!CompleteMoveIn(m) PROVE RentInv'
    <2> DEFINE l == move[m].lease
               row == [move[m] EXCEPT !.status = "COMPLETED"]
    <2>1. /\ move[m].status = "APPROVED" /\ move' = [move EXCEPT ![m] = row]
          /\ property' = [property EXCEPT ![lease[l].property] = "OCCUPIED"]
          /\ UNCHANGED <<tenant, paper, schedule, payment, renewal>>
      BY <1>0, <1>5 DEF Rental!CompleteMoveIn
    <2>2. /\ l \in Lease /\ Signed(l) /\ move[m] \in MovingRow /\ lease[l] \in TermRow
          /\ property \in [Property -> Rental!PropertyStatus]
      BY <1>2, <2>1
    <2>3. "ACTIVE" \in SignedStatus /\ lease[l].holds \in BOOLEAN
      BY <2>2 DEF SignedStatus, Rental!Living, TermRow
    <2>4. row \in MovingRow /\ row.lease = l
      BY <2>2 DEF MovingRow, Rental!WorkflowStatus
    <2>5. lease' = [lease EXCEPT ![l] = [lease[l] EXCEPT !.status = "ACTIVE", !.holds = lease[l].holds]]
      BY <1>0, <1>5, <2>2 DEF Rental!CompleteMoveIn, TermRow
    <2>6. property' \in [Property -> Rental!PropertyStatus]
      BY <2>1, <2>2 DEF Rental!PropertyStatus
    <2> HIDE DEF l, row
    <2> QED BY <1>1, <2>1, <2>2, <2>3, <2>4, <2>5, <2>6
  <1>6. ASSUME NEW v \in Rental!Views, NEW m \in Move, Rental!CompleteMoveOut(v, m) PROVE RentInv'
    <2> DEFINE l == move[m].lease
               row == [move[m] EXCEPT !.status = "COMPLETED"]
    <2>1. /\ move[m].status = "APPROVED" /\ move' = [move EXCEPT ![m] = row]
          /\ property' = [property EXCEPT ![lease[l].property] = "AVAILABLE"]
          /\ UNCHANGED <<tenant, paper, schedule, payment, renewal>>
      BY <1>0, <1>6 DEF Rental!CompleteMoveOut
    <2>2. /\ l \in Lease /\ Signed(l) /\ move[m] \in MovingRow /\ lease[l] \in TermRow
          /\ property \in [Property -> Rental!PropertyStatus]
      BY <1>2, <2>1
    <2>3. "TERMINATED" \in SignedStatus
      BY DEF SignedStatus
    <2>4. row \in MovingRow /\ row.lease = l
      BY <2>2 DEF MovingRow, Rental!WorkflowStatus
    <2>5. lease' = [lease EXCEPT ![l] = [lease[l] EXCEPT !.status = "TERMINATED", !.holds = FALSE]]
      BY <1>0, <1>6, <2>2 DEF Rental!CompleteMoveOut, TermRow
    <2>6. property' \in [Property -> Rental!PropertyStatus]
      BY <2>1, <2>2 DEF Rental!PropertyStatus
    <2> HIDE DEF l, row
    <2> QED BY <1>1, <2>1, <2>2, <2>3, <2>4, <2>5, <2>6
  <1> QED BY <1>3, <1>4, <1>5, <1>6 DEF Rental!MoveStep

LEMMA RentStep == ASSUME RentInv, RentTerms, [Rental!Next]_Rental!vars PROVE RentInv'
  <1>1. CASE Rental!Begin
    <2>1. UNCHANGED <<property, tenant, lease, paper, schedule, payment, renewal, move>>
      BY <1>1 DEF Rental!Begin, Rental!money, Rental!workflow
    <2>2. RentRows'
      BY <2>1 DEF RentInv, RentRows
    <2> QED BY <2>1, <2>2, AsideStep
  <1>2. CASE UNCHANGED Rental!vars
    <2>1. UNCHANGED <<property, tenant, lease, paper, schedule, payment, renewal, move>>
      BY <1>2 DEF Rental!vars, Rental!money, Rental!workflow
    <2>2. RentRows'
      BY <2>1 DEF RentInv, RentRows
    <2> QED BY <2>1, <2>2, AsideStep
  <1> QED BY <1>1, <1>2, RentLetting, RentCollecting, RentRenewing, RentMoving DEF Rental!Next, Rental!Step

(* Rent is paid once: an invoice has what payments were verified for, not  *)
(* more than its total, and is called paid when it has all of it, whatever *)
(* submit_payment, decide_payment and expire_overdue read; and rows are of *)
(* their types.                                                            *)
THEOREM RentCorrect ==
    ASSUME RentTerms
    PROVE  Rental!Spec => [](Rental!TypeOK /\ Rental!RentAddsUp)
  <1>1. RentTerms
    OBVIOUS
  <1>2. Rental!Init => RentInv
    BY <1>1, RentStart
  <1>3. RentInv /\ [Rental!Next]_Rental!vars => RentInv'
    BY <1>1, RentStep
  <1>4. RentInv => Rental!TypeOK /\ Rental!RentAddsUp
    BY RentTypes, RentShows
  <1> QED BY <1>2, <1>3, <1>4, PTL DEF Rental!Spec

(***************************************************************************)
(* The days of a lease, by requests that follow one another, or where      *)
(* nothing is renewed.  Of a lease at most one renewal is asked for, and   *)
(* it ends later than the lease: else a second approval could draw the     *)
(* lease's end back while its schedule stays.                              *)
(***************************************************************************)
Serial == leases = {} \/ Renewal = {}

TiledRight == \A l \in Lease : Signed(l) => Tiles(schedule[l], lease[l].start, lease[l].end)
Asked(r) == renewal[r].status = "REQUESTED"
AsksRight ==
    /\ \A r \in Renewal : Asked(r) => renewal[r].end > lease[renewal[r].lease].end
    /\ \A r, s \in Renewal : Asked(r) /\ Asked(s) /\ renewal[r].lease = renewal[s].lease => r = s
TermsInv == RentInv /\ Serial /\ TiledRight /\ AsksRight

LEMMA TermsStart == ASSUME RentTerms, Rental!Init PROVE TermsInv
  <1>1. RentInv
    BY RentStart
  <1>2. Serial /\ TiledRight /\ AsksRight
    BY DEF Rental!Init, Serial, TiledRight, AsksRight, Asked, Signed, SignedStatus, Rental!Living,
           Rental!NoLease, Rental!NoRenewal
  <1> QED BY <1>1, <1>2 DEF TermsInv

LEMMA TermsShow == ASSUME TermsInv PROVE Rental!TermsTiled
  BY DEF TermsInv, TiledRight, Signed, SignedStatus, Tiles, Within, Rental!TermsTiled

LEMMA TiledBecomes ==
    ASSUME TiledRight,
           \A l \in Lease : lease'[l].status \in SignedStatus =>
              \/ /\ Signed(l) /\ SameDays(schedule[l], schedule'[l])
                 /\ lease'[l].start = lease[l].start /\ lease'[l].end = lease[l].end
              \/ Tiles(schedule'[l], lease'[l].start, lease'[l].end)
    PROVE  TiledRight'
  <1>1. ASSUME NEW l \in Lease, lease'[l].status \in SignedStatus
        PROVE  Tiles(schedule'[l], lease'[l].start, lease'[l].end)
    <2>1. CASE /\ Signed(l) /\ SameDays(schedule[l], schedule'[l])
               /\ lease'[l].start = lease[l].start /\ lease'[l].end = lease[l].end
      <3>1. Tiles(schedule[l], lease[l].start, lease[l].end)
        BY <2>1 DEF TiledRight
      <3>2. Tiles(schedule'[l], lease[l].start, lease[l].end)
        BY <2>1, <3>1, TilesStay
      <3> QED BY <2>1, <3>2
    <2>2. CASE Tiles(schedule'[l], lease'[l].start, lease'[l].end)
      BY <2>2
    <2> QED BY <1>1, <2>1, <2>2
  <1> QED BY <1>1 DEF TiledRight, Signed, Tiles, Dated, Within

LEMMA SameSchedule == ASSUME NEW l, UNCHANGED schedule PROVE SameDays(schedule[l], schedule'[l])
  BY DEF SameDays

(* Nothing is asked for, and no lease's end moves.                         *)
LEMMA AsksStay ==
    ASSUME AsksRight, RentInv, UNCHANGED renewal, \A l \in Lease : Signed(l) => lease'[l].end = lease[l].end
    PROVE  AsksRight'
  <1>1. \A r \in Renewal : Asked(r) => renewal[r].lease \in Lease /\ Signed(renewal[r].lease)
    BY DEF RentInv, RefsRight, Asked, Rental!NoRenewal
  <1> QED BY <1>1 DEF AsksRight, Asked

(* Neither a schedule, nor the terms of a lease that was signed, nor a     *)
(* renewal is written, and no lease is signed.                             *)
LEMMA TermsAside ==
    ASSUME TermsInv, RentInv', Serial', UNCHANGED <<schedule, renewal>>,
           \A l \in Lease : /\ lease'[l].status \in SignedStatus => Signed(l)
                            /\ Signed(l) => lease'[l].start = lease[l].start /\ lease'[l].end = lease[l].end
    PROVE  TermsInv'
  <1>1. TiledRight'
    <2>1. \A l \in Lease : SameDays(schedule[l], schedule'[l])
      BY SameSchedule
    <2> QED BY <2>1, TiledBecomes DEF TermsInv
  <1>2. AsksRight'
    BY AsksStay DEF TermsInv
  <1> QED BY <1>1, <1>2 DEF TermsInv

LEMMA TermsLetting == ASSUME TermsInv, RentTerms, Rental!LettingStep PROVE TermsInv'
  <1> USE DEF Rental!money, Rental!workflow
  <1>0. RentInv' /\ RentInv /\ TiledRight /\ AsksRight /\ lease \in [Lease -> TermRow]
    BY RentLetting DEF TermsInv, RentInv, RentRows
  <1>1. Serial'
    <2>1. leases' = leases
      BY DEF Rental!LettingStep, Rental!UpdateProperty, Rental!UpdateTenant, Rental!CreateLease,
             Rental!AddDocument, Rental!SetDocument, Rental!UploadDocument, Rental!DecideDocument,
             Rental!IssueLease, Rental!SignLease
    <2> QED BY <2>1 DEF TermsInv, Serial
  <1>2. ASSUME UNCHANGED <<lease, schedule, renewal>> PROVE TermsInv'
    BY <1>0, <1>1, <1>2, TermsAside DEF Signed
  <1>3. ASSUME NEW p \in Property, NEW status \in Rental!PropertyStatus, Rental!UpdateProperty(p, status)
        PROVE  TermsInv'
    BY <1>2, <1>3 DEF Rental!UpdateProperty
  <1>4. ASSUME NEW t \in Tenant, NEW active \in BOOLEAN, Rental!UpdateTenant(t, active)
        PROVE  TermsInv'
    BY <1>2, <1>4 DEF Rental!UpdateTenant
  <1>5. ASSUME NEW v \in Rental!Views, NEW l \in Lease, NEW t \in Tenant, NEW p \in Property,
               NEW d \in Paper, NEW terms \in Terms, Rental!CreateLease(v, l, t, p, d, terms)
        PROVE  TermsInv'
    <2>1. /\ lease[l].status = "NONE" /\ lease'[l].status = "DRAFT"
          /\ \A k \in Lease \ {l} : lease'[k] = lease[k]
          /\ UNCHANGED <<schedule, renewal>>
      BY <1>0, <1>5 DEF Rental!CreateLease
    <2>2. ~Signed(l) /\ lease'[l].status \notin SignedStatus
      BY <2>1 DEF Signed, SignedStatus, Rental!Living
    <2>3. \A k \in Lease : /\ lease'[k].status \in SignedStatus => Signed(k)
                           /\ Signed(k) => lease'[k].start = lease[k].start /\ lease'[k].end = lease[k].end
      BY <2>1, <2>2 DEF Signed
    <2> QED BY <1>0, <1>1, <2>1, <2>3, TermsAside
  <1>6. ASSUME NEW d \in Paper, NEW l \in Lease, Rental!AddDocument(d, l) PROVE TermsInv'
    BY <1>2, <1>6 DEF Rental!AddDocument, Rental!SetDocument
  <1>7. ASSUME NEW d \in Paper, Rental!UploadDocument(d) PROVE TermsInv'
    BY <1>2, <1>7 DEF Rental!UploadDocument, Rental!SetDocument
  <1>8. ASSUME NEW d \in Paper, NEW verdict \in {"VERIFIED", "REJECTED"}, Rental!DecideDocument(d, verdict)
        PROVE  TermsInv'
    BY <1>2, <1>8 DEF Rental!DecideDocument, Rental!SetDocument
  <1>9. ASSUME NEW l \in Lease, Rental!IssueLease(l) PROVE TermsInv'
    <2>1. /\ lease[l].status = "DRAFT" /\ lease'[l].status = "PENDING_SIGNATURE"
          /\ \A k \in Lease \ {l} : lease'[k] = lease[k]
          /\ UNCHANGED <<schedule, renewal>>
      BY <1>0, <1>9 DEF Rental!IssueLease, TermRow
    <2>2. ~Signed(l) /\ lease'[l].status \notin SignedStatus
      BY <2>1 DEF Signed, SignedStatus, Rental!Living
    <2>3. \A k \in Lease : /\ lease'[k].status \in SignedStatus => Signed(k)
                           /\ Signed(k) => lease'[k].start = lease[k].start /\ lease'[k].end = lease[k].end
      BY <2>1, <2>2 DEF Signed
    <2> QED BY <1>0, <1>1, <2>1, <2>3, TermsAside
  <1>10. ASSUME NEW v \in Rental!Views, NEW l \in Lease, Rental!SignLease(v, l) PROVE TermsInv'
    <2> DEFINE q == Rental!Periods(lease[l].start, lease[l].end, lease[l].due_day)
    <2>1. /\ lease[l].status = "PENDING_SIGNATURE"
          /\ lease'[l].start = lease[l].start /\ lease'[l].end = lease[l].end
          /\ \A k \in Lease \ {l} : lease'[k] = lease[k]
          /\ schedule' = [schedule EXCEPT ![l] = q] /\ UNCHANGED renewal
      BY <1>0, <1>10 DEF Rental!SignLease, TermRow
    <2>2. l \in Rental!Drawn /\ ~Signed(l)
      BY <2>1 DEF Rental!Drawn, Signed, SignedStatus, Rental!Living
    <2>3. /\ lease[l].start \in Nat /\ lease[l].end \in Nat /\ lease[l].due_day \in Nat
          /\ 1 <= lease[l].start /\ lease[l].start <= lease[l].end /\ lease[l].end <= Horizon
      BY <1>0, <2>2, SameLease DEF TermRow, TermsRight, Signed
    <2>4. Tiles(q, lease[l].start, lease[l].end)
      BY <2>3, PeriodsTile DEF RentTerms, Calendared
    <2> HIDE DEF q
    <2>5. schedule'[l] = q /\ \A k \in Lease \ {l} : schedule'[k] = schedule[k]
      BY <1>0, <2>1 DEF RentInv, RentRows
    <2>6. \A k \in Lease \ {l} : SameDays(schedule[k], schedule'[k])
      BY <2>5 DEF SameDays
    <2>7. TiledRight'
      <3>1. ASSUME NEW k \in Lease, lease'[k].status \in SignedStatus
            PROVE  \/ /\ Signed(k) /\ SameDays(schedule[k], schedule'[k])
                      /\ lease'[k].start = lease[k].start /\ lease'[k].end = lease[k].end
                   \/ Tiles(schedule'[k], lease'[k].start, lease'[k].end)
        BY <2>1, <2>4, <2>5, <2>6, <3>1 DEF Signed
      <3> QED BY <1>0, <3>1, TiledBecomes
    <2>8. AsksRight'
      <3>1. \A k \in Lease : Signed(k) => lease'[k].end = lease[k].end
        BY <2>1
      <3> QED BY <1>0, <2>1, <3>1, AsksStay
    <2> QED BY <1>0, <1>1, <2>7, <2>8 DEF TermsInv
  <1> QED BY <1>3, <1>4, <1>5, <1>6, <1>7, <1>8, <1>9, <1>10 DEF Rental!LettingStep

(* The rows of the schedules are for the same days, and as many.           *)
DaysStay ==
    \A l \in Lease : /\ DOMAIN schedule'[l] = DOMAIN schedule[l]
                     /\ \A i \in DOMAIN schedule[l] : /\ schedule'[l][i].from = schedule[l][i].from
                                                      /\ schedule'[l][i].to = schedule[l][i].to
                                                      /\ schedule'[l][i].due = schedule[l][i].due

LEMMA ItemStays ==
    ASSUME RentInv, NEW l \in Lease, NEW i \in DOMAIN schedule[l], NEW item \in ItemRow,
           schedule' = [schedule EXCEPT ![l] = [schedule[l] EXCEPT ![i] = item]],
           item.from = schedule[l][i].from, item.to = schedule[l][i].to, item.due = schedule[l][i].due
    PROVE  DaysStay
  BY ItemBecomes DEF DaysStay

LEMMA TermsCollecting == ASSUME TermsInv, RentTerms, Rental!CollectingStep PROVE TermsInv'
  <1> USE DEF Rental!workflow
  <1>0. RentInv' /\ RentInv /\ TiledRight /\ AsksRight /\ schedule \in [Lease -> Seq(ItemRow)]
    BY RentCollecting DEF TermsInv, RentInv, RentRows
  <1>1. UNCHANGED <<lease, renewal, leases>> /\ DaysStay
    <2>0. \A l \in Lease : schedule[l] \in Seq(ItemRow) /\ \A i \in DOMAIN schedule[l] : schedule[l][i] \in ItemRow
      BY <1>0, ItemIs
    <2>1. ASSUME NEW l \in Lease, NEW i \in DOMAIN schedule[l], Rental!IssueInvoice(l, i)
          PROVE  UNCHANGED <<lease, renewal, leases>> /\ DaysStay
      <3> DEFINE item == [schedule[l][i] EXCEPT !.status = "INVOICED", !.invoice = "ISSUED"]
      <3>1. schedule[l] \in Seq(ItemRow) /\ schedule[l][i] \in ItemRow
        BY <2>0
      <3>2. schedule' = [schedule EXCEPT ![l] = [schedule[l] EXCEPT ![i] = item]]
        BY <1>0, <2>1, <3>1 DEF Rental!IssueInvoice
      <3>3. /\ item \in ItemRow /\ item.from = schedule[l][i].from
            /\ item.to = schedule[l][i].to /\ item.due = schedule[l][i].due
        BY <3>1 DEF ItemRow, Rental!ScheduleStatus, Rental!InvoiceStatus
      <3>4. UNCHANGED <<lease, renewal, leases>>
        BY <2>1 DEF Rental!IssueInvoice
      <3> HIDE DEF item
      <3> QED BY <1>0, <3>2, <3>3, <3>4, ItemStays
    <2>2. ASSUME NEW l \in Lease, NEW i \in DOMAIN schedule[l], Rental!FallsDue(l, i)
          PROVE  UNCHANGED <<lease, renewal, leases>> /\ DaysStay
      BY <1>0, <2>0, <2>2 DEF Rental!FallsDue, ItemRow, DaysStay
    <2>3. ASSUME NEW l \in Lease, NEW i \in DOMAIN schedule[l], NEW v \in Rental!Views, NEW k \in Payment,
                 NEW amount \in 1..Rent, Rental!SubmitPayment(v, k, l, i, amount)
          PROVE  UNCHANGED <<lease, renewal, leases>> /\ DaysStay
      BY <2>3 DEF Rental!SubmitPayment, DaysStay
    <2>4. ASSUME NEW k \in Payment, Rental!FailPayment(k)
          PROVE  UNCHANGED <<lease, renewal, leases>> /\ DaysStay
      BY <2>4 DEF Rental!FailPayment, DaysStay
    <2>5. ASSUME NEW k \in Payment, Rental!CompletePayment(k)
          PROVE  UNCHANGED <<lease, renewal, leases>> /\ DaysStay
      <3>1. payment[k].lease \in Lease /\ payment[k].item \in DOMAIN schedule[payment[k].lease]
        <4>1. payment[k].status = "PENDING"
          BY <2>5 DEF Rental!CompletePayment
        <4>2. payment[k] # Rental!NoPayment
          BY <4>1 DEF Rental!NoPayment
        <4> QED BY <1>0, <4>2 DEF RentInv, RefsRight
      <3> DEFINE l == payment[k].lease
                 i == payment[k].item
                 paid == schedule[l][i].paid + payment[k].amount
                 status == IF paid >= Rent THEN "PAID" ELSE "PARTIALLY_PAID"
                 item == [schedule[l][i] EXCEPT !.paid = paid, !.invoice = status, !.status = status]
      <3>2. schedule[l] \in Seq(ItemRow) /\ schedule[l][i] \in ItemRow /\ payment[k].amount \in Nat
        <4>1. payment[k] \in PaymentRow
          BY <1>0 DEF RentInv, RentRows
        <4> QED BY <2>0, <3>1, <4>1 DEF PaymentRow
      <3>3. paid \in Nat /\ status \in {"PAID", "PARTIALLY_PAID"}
        <4>1. schedule[l][i].paid \in Nat
          BY <3>2 DEF ItemRow
        <4> QED BY <3>2, <4>1
      <3>4. schedule' = [schedule EXCEPT ![l][i].paid = paid, ![l][i].invoice = status,
                                         ![l][i].status = status]
        BY <2>5 DEF Rental!CompletePayment
      <3> HIDE DEF paid, status
      <3>5. /\ item \in ItemRow /\ item.from = schedule[l][i].from
            /\ item.to = schedule[l][i].to /\ item.due = schedule[l][i].due
        BY <3>2, <3>3 DEF ItemRow, Rental!ScheduleStatus, Rental!InvoiceStatus
      <3>6. schedule' = [schedule EXCEPT ![l] = [schedule[l] EXCEPT ![i] = item]]
        <4> HIDE DEF l, i
        <4> QED BY <1>0, <3>1, <3>2, <3>4
      <3>7. UNCHANGED <<lease, renewal, leases>>
        BY <2>5 DEF Rental!CompletePayment
      <3> HIDE DEF item, l, i
      <3> QED BY <1>0, <3>1, <3>5, <3>6, <3>7, ItemStays DEF l, i
    <2>6. ASSUME NEW v \in Rental!Views, Rental!ExpireOverdue(v)
          PROVE  UNCHANGED <<lease, renewal, leases>> /\ DaysStay
      BY <1>0, <2>0, <2>6 DEF Rental!ExpireOverdue, ItemRow, DaysStay
    <2> QED BY <2>1, <2>2, <2>3, <2>4, <2>5, <2>6 DEF Rental!CollectingStep
  <1>2. \A l \in Lease : SameDays(schedule[l], schedule'[l])
    <2> SUFFICES ASSUME NEW l \in Lease PROVE SameDays(schedule[l], schedule'[l])
      OBVIOUS
    <2>1. schedule[l] \in Seq(ItemRow) /\ schedule'[l] \in Seq(ItemRow)
      BY <1>0 DEF RentInv, RentRows
    <2>2. Len(schedule'[l]) = Len(schedule[l])
      <3>1. DOMAIN schedule'[l] = DOMAIN schedule[l]
        BY <1>1 DEF DaysStay
      <3> QED BY <2>1, <3>1
    <2> QED BY <1>1, <2>2 DEF SameDays, DaysStay
  <1>3. TiledRight'
    <2>1. ASSUME NEW l \in Lease, lease'[l].status \in SignedStatus
          PROVE  /\ Signed(l) /\ SameDays(schedule[l], schedule'[l])
                 /\ lease'[l].start = lease[l].start /\ lease'[l].end = lease[l].end
      BY <1>1, <1>2, <2>1 DEF Signed
    <2> QED BY <1>0, <2>1, TiledBecomes
  <1>4. AsksRight'
    BY <1>0, <1>1, AsksStay
  <1> QED BY <1>0, <1>1, <1>3, <1>4 DEF TermsInv, Serial

LEMMA TermsRenewing == ASSUME TermsInv, RentTerms, Rental!RenewalStep PROVE TermsInv'
  <1> USE DEF Rental!money
  <1>0. /\ RentInv' /\ RentInv /\ TiledRight /\ AsksRight
        /\ lease \in [Lease -> TermRow] /\ renewal \in [Renewal -> AskedRow]
        /\ schedule \in [Lease -> Seq(ItemRow)]
    BY RentRenewing DEF TermsInv, RentInv, RentRows
  <1>1. leases = {} /\ leases' = {}
    <2>1. Renewal # {} /\ leases' = leases
      BY DEF Rental!RenewalStep, Rental!RequestRenewal, Rental!RejectRenewal, Rental!ApproveRenewal
    <2> QED BY <2>1 DEF TermsInv, Serial
  <1>2. ASSUME NEW r \in Renewal, Asked(r)
        PROVE  renewal[r].lease \in Lease /\ Signed(renewal[r].lease) /\ renewal[r].end <= Horizon
    <2>1. renewal[r] # Rental!NoRenewal
      BY <1>2 DEF Asked, Rental!NoRenewal
    <2> QED BY <1>0, <2>1 DEF RentInv, RefsRight
  <1>3. ASSUME UNCHANGED <<lease, schedule>>, AsksRight' PROVE TermsInv'
    <2>1. \A l \in Lease : SameDays(schedule[l], schedule'[l])
      BY <1>3, SameSchedule
    <2>2. TiledRight'
      BY <1>0, <1>3, <2>1, TiledBecomes DEF Signed
    <2> QED BY <1>0, <1>1, <1>3, <2>2 DEF TermsInv, Serial
  <1>4. ASSUME NEW v \in Rental!Views, NEW r \in Renewal, NEW l \in Lease, NEW end \in EndDates,
               Rental!RequestRenewal(v, r, l, end)
        PROVE  TermsInv'
    <2>1. v = Rental!Snapshot
      BY <1>1 DEF Rental!Views
    <2>2. /\ UNCHANGED <<lease, schedule>> /\ end > lease[l].end
          /\ ~ \E s \in Renewal : v.renewal[s].lease = l /\ v.renewal[s].status = "REQUESTED"
          /\ renewal' = [renewal EXCEPT ![r] = [lease |-> l, end |-> end, status |-> "REQUESTED"]]
      BY <1>4 DEF Rental!RequestRenewal
    <2>3. v.renewal = renewal
      BY <2>1 DEF Rental!Snapshot
    <2>4. \A s \in Renewal : ~(renewal[s].lease = l /\ Asked(s))
      BY <2>2, <2>3 DEF Asked
    <2>5. AsksRight'
      BY <1>0, <2>2, <2>4 DEF AsksRight, Asked
    <2> QED BY <1>3, <2>2, <2>5
  <1>5. ASSUME NEW r \in Renewal, Rental!RejectRenewal(r) PROVE TermsInv'
    <2>1. /\ UNCHANGED <<lease, schedule>> /\ renewal'[r].status = "REJECTED"
          /\ \A s \in Renewal \ {r} : renewal'[s] = renewal[s]
      BY <1>0, <1>5 DEF Rental!RejectRenewal, AskedRow
    <2>2. AsksRight'
      BY <1>0, <2>1 DEF AsksRight, Asked
    <2> QED BY <1>3, <2>1, <2>2
  <1>6. ASSUME NEW r \in Renewal, Rental!ApproveRenewal(r) PROVE TermsInv'
    <2> DEFINE l == renewal[r].lease
               q == Rental!Periods(lease[l].end + 1, renewal[r].end, lease[l].due_day)
    <2>1. /\ Asked(r) /\ renewal'[r].status = "COMPLETED"
          /\ \A s \in Renewal \ {r} : renewal'[s] = renewal[s]
          /\ lease' = [lease EXCEPT ![l].end = renewal[r].end]
          /\ schedule' = [schedule EXCEPT ![l] = schedule[l] \o q]
      BY <1>0, <1>6 DEF Rental!ApproveRenewal, Asked, AskedRow
    <2>2. l \in Lease /\ Signed(l) /\ renewal[r].end <= Horizon
      BY <1>2, <2>1
    <2>3. /\ renewal[r].end \in Nat /\ lease[l].end \in Nat /\ lease[l].due_day \in Nat
          /\ lease[l].end < renewal[r].end
      BY <1>0, <2>1, <2>2 DEF AskedRow, TermRow, AsksRight
    <2>4. q \in Seq(ItemRow) /\ Tiles(q, lease[l].end + 1, renewal[r].end)
      <3>1. /\ lease[l].end + 1 \in Nat /\ 1 <= lease[l].end + 1 /\ lease[l].end + 1 <= renewal[r].end
            /\ CalendarRuns
        BY <2>3 DEF RentTerms, Calendared
      <3> QED BY <2>2, <2>3, <3>1, PeriodsTile
    <2>5. Tiles(schedule[l], lease[l].start, lease[l].end) /\ schedule[l] \in Seq(ItemRow)
      BY <1>0, <2>2 DEF TiledRight
    <2> HIDE DEF q
    <2>6. Tiles(schedule[l] \o q, lease[l].start, renewal[r].end)
      BY <2>4, <2>5, TilesOn
    <2>7. /\ lease'[l].end = renewal[r].end /\ lease'[l].start = lease[l].start
          /\ lease'[l].status = lease[l].status
          /\ \A k \in Lease \ {l} : lease'[k] = lease[k]
      BY <1>0, <2>1, <2>2 DEF TermRow
    <2>8. schedule'[l] = schedule[l] \o q /\ \A k \in Lease \ {l} : schedule'[k] = schedule[k]
      BY <1>0, <2>1, <2>2
    <2>9. TiledRight'
      <3>1. ASSUME NEW k \in Lease, lease'[k].status \in SignedStatus
            PROVE  \/ /\ Signed(k) /\ SameDays(schedule[k], schedule'[k])
                      /\ lease'[k].start = lease[k].start /\ lease'[k].end = lease[k].end
                   \/ Tiles(schedule'[k], lease'[k].start, lease'[k].end)
        <4>1. CASE k = l
          BY <2>6, <2>7, <2>8, <4>1
        <4>2. CASE k # l
          BY <2>7, <2>8, <3>1, <4>2 DEF Signed, SameDays
        <4> QED BY <4>1, <4>2
      <3> QED BY <1>0, <3>1, TiledBecomes
    <2>10. AsksRight'
      <3>1. \A s \in Renewal : renewal'[s].status = "REQUESTED" =>
               s # r /\ renewal'[s] = renewal[s] /\ Asked(s)
        BY <2>1 DEF Asked
      <3>2. \A s \in Renewal \ {r} : Asked(s) => renewal[s].lease \in Lease \ {l}
        BY <1>0, <1>2, <2>1 DEF AsksRight
      <3>3. \A s \in Renewal : renewal'[s].status = "REQUESTED" =>
               renewal'[s].end > lease'[renewal'[s].lease].end
        BY <1>0, <2>7, <3>1, <3>2 DEF AsksRight
      <3>4. \A s, t \in Renewal :
               renewal'[s].status = "REQUESTED" /\ renewal'[t].status = "REQUESTED"
               /\ renewal'[s].lease = renewal'[t].lease => s = t
        BY <1>0, <3>1 DEF AsksRight
      <3> QED BY <3>3, <3>4 DEF AsksRight, Asked
    <2> QED BY <1>0, <1>1, <2>9, <2>10 DEF TermsInv, Serial
  <1> QED BY <1>4, <1>5, <1>6 DEF Rental!RenewalStep

LEMMA TermsMoving == ASSUME TermsInv, RentTerms, Rental!MoveStep PROVE TermsInv'
  <1> USE DEF Rental!money
  <1>0. RentInv' /\ RentInv /\ lease \in [Lease -> TermRow]
    BY RentMoving DEF TermsInv, RentInv, RentRows
  <1>1. ASSUME NEW l, l \in Lease => Signed(l),
               \A k \in Lease \ {l} : lease'[k] = lease[k],
               l \in Lease => lease'[l].start = lease[l].start /\ lease'[l].end = lease[l].end,
               UNCHANGED <<schedule, renewal, leases>>
        PROVE  TermsInv'
    <2>1. \A k \in Lease : /\ lease'[k].status \in SignedStatus => Signed(k)
                           /\ Signed(k) => lease'[k].start = lease[k].start /\ lease'[k].end = lease[k].end
      BY <1>1 DEF Signed
    <2>2. Serial'
      BY <1>1 DEF TermsInv, Serial
    <2> QED BY <1>0, <1>1, <2>1, <2>2, TermsAside
  <1>2. ASSUME NEW v \in Rental!Views, NEW m \in Move, NEW l \in Lease, NEW type \in {"MOVE_IN", "MOVE_OUT"},
               Rental!RequestMove(v, m, l, type)
        PROVE  TermsInv'
    <2>1. /\ \A k \in Lease \ {l} : lease'[k] = lease[k]
          /\ lease'[l].start = lease[l].start /\ lease'[l].end = lease[l].end
          /\ lease[l].status \in {"MOVE_IN_PENDING", "ACTIVE"}
          /\ UNCHANGED <<schedule, renewal, leases>>
      BY <1>0, <1>2 DEF Rental!RequestMove, TermRow
    <2>2. Signed(l)
      BY <2>1 DEF Signed, SignedStatus, Rental!Living
    <2> QED BY <1>1, <2>1, <2>2
  <1>3. \A m \in Move : move[m].status # "NONE" => move[m].lease \in Lease /\ Signed(move[m].lease)
    BY <1>0 DEF RentInv, RefsRight, Rental!NoMove
  <1>4. ASSUME NEW m \in Move, NEW verdict \in {"APPROVED", "REJECTED"}, Rental!DecideMove(m, verdict)
        PROVE  TermsInv'
    <2> DEFINE l == move[m].lease
    <2>1. l \in Lease /\ Signed(l)
      BY <1>3, <1>4 DEF Rental!DecideMove
    <2>2. /\ \A k \in Lease \ {l} : lease'[k] = lease[k]
          /\ lease'[l].start = lease[l].start /\ lease'[l].end = lease[l].end
          /\ UNCHANGED <<schedule, renewal, leases>>
      BY <1>0, <1>4, <2>1 DEF Rental!DecideMove, TermRow
    <2> HIDE DEF l
    <2> QED BY <1>1, <2>1, <2>2
  <1>5. ASSUME NEW m \in Move, Rental!CompleteMoveIn(m) PROVE TermsInv'
    <2> DEFINE l == move[m].lease
    <2>1. l \in Lease /\ Signed(l)
      BY <1>3, <1>5 DEF Rental!CompleteMoveIn
    <2>2. /\ \A k \in Lease \ {l} : lease'[k] = lease[k]
          /\ lease'[l].start = lease[l].start /\ lease'[l].end = lease[l].end
          /\ UNCHANGED <<schedule, renewal, leases>>
      BY <1>0, <1>5, <2>1 DEF Rental!CompleteMoveIn, TermRow
    <2> HIDE DEF l
    <2> QED BY <1>1, <2>1, <2>2
  <1>6. ASSUME NEW v \in Rental!Views, NEW m \in Move, Rental!CompleteMoveOut(v, m) PROVE TermsInv'
    <2> DEFINE l == move[m].lease
    <2>1. l \in Lease /\ Signed(l)
      BY <1>3, <1>6 DEF Rental!CompleteMoveOut
    <2>2. /\ \A k \in Lease \ {l} : lease'[k] = lease[k]
          /\ lease'[l].start = lease[l].start /\ lease'[l].end = lease[l].end
          /\ UNCHANGED <<schedule, renewal, leases>>
      BY <1>0, <1>6, <2>1 DEF Rental!CompleteMoveOut, TermRow
    <2> HIDE DEF l
    <2> QED BY <1>1, <2>1, <2>2
  <1> QED BY <1>2, <1>4, <1>5, <1>6 DEF Rental!MoveStep

LEMMA TermsStep ==
    ASSUME RentTerms, TermsInv,
           \/ [Rental!Step]_Rental!vars
           \/ Renewal = {} /\ [Rental!Next]_Rental!vars
    PROVE  TermsInv'
  <1>1. CASE Rental!Step
    BY <1>1, TermsLetting, TermsCollecting, TermsRenewing, TermsMoving DEF Rental!Step
  <1>2. CASE UNCHANGED Rental!vars \/ (Renewal = {} /\ Rental!Begin)
    <2>1. UNCHANGED <<property, tenant, lease, paper, schedule, payment, renewal, move>>
      BY <1>2 DEF Rental!vars, Rental!Begin, Rental!money, Rental!workflow
    <2>2. RentInv'
      <3>1. RentRows'
        BY <2>1 DEF TermsInv, RentInv, RentRows
      <3> QED BY <2>1, <3>1, AsideStep DEF TermsInv
    <2>3. Serial'
      BY <1>2 DEF TermsInv, Serial, Rental!vars
    <2>4. \A l \in Lease : /\ lease'[l].status \in SignedStatus => Signed(l)
                           /\ lease'[l].start = lease[l].start /\ lease'[l].end = lease[l].end
      BY <2>1 DEF Signed
    <2> QED BY <2>1, <2>2, <2>3, <2>4, TermsAside
  <1> QED BY <1>1, <1>2 DEF Rental!Next

(* Every day of a lease is in one period of its schedule, and its rent is  *)
(* due in it, over months of any lengths and any renewals, by requests     *)
(* that follow one another; without renewals, by any.                      *)
THEOREM TermsCorrect ==
    ASSUME RentTerms
    PROVE  /\ Rental!Init /\ [][Rental!Step]_Rental!vars => []Rental!TermsTiled
           /\ Renewal = {} => (Rental!Spec => []Rental!TermsTiled)
  <1>1. RentTerms
    OBVIOUS
  <1>2. Rental!Init => TermsInv
    BY <1>1, TermsStart
  <1>3. TermsInv /\ [Rental!Step]_Rental!vars => TermsInv'
    BY <1>1, TermsStep
  <1>4. TermsInv => Rental!TermsTiled
    BY TermsShow
  <1>5. Rental!Init /\ [][Rental!Step]_Rental!vars => []Rental!TermsTiled
    BY <1>2, <1>3, <1>4, PTL
  <1>6. ASSUME Renewal = {} PROVE Rental!Spec => []Rental!TermsTiled
    <2>1. Renewal = {}
      BY <1>6
    <2>2. TermsInv /\ [Rental!Next]_Rental!vars => TermsInv'
      BY <1>1, <2>1, TermsStep
    <2> QED BY <1>2, <1>4, <2>2, PTL DEF Rental!Spec
  <1> QED BY <1>5, <1>6
=============================================================================
