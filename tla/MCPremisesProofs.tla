-------------------------- MODULE MCPremisesProofs --------------------------
(***************************************************************************)
(* The properties of the run Premises.  What is proved of a component is   *)
(* brought to each desk by an instance of its proofs whose parameters are  *)
(* the desk's: `First' is at the desks handing, serving and letting,       *)
(* `Second' at racing, answering and renewing, `Third' at collecting.      *)
(***************************************************************************)
EXTENDS MCPremises, TLAPS

First == INSTANCE PremisesProofs WITH
    External <- {"NO_OUTSTANDING"}, Progress <- <<100, 50>>, Required <- {d1},
    document <- papers, old <- cases,
    Category <- {"c1"}, Priority <- {"LOW", "HIGH"}, Minutes <- {Deadlines(0, 0)},
    MaxNow <- 1, Agent <- Pair, Escalation <- Another,
    Lease <- Pair, Paper <- Another, Payment <- {}, Renewal <- {}, Move <- Trio,
    Calendar <- Months, Terms <- {Short}, EndDates <- {}, Rent <- 2, paper <- document

Second == INSTANCE PremisesProofs WITH
    External <- {}, Progress <- <<100>>, Snag <- {}, Document <- {}, Required <- {},
    document <- papers, old <- cases,
    Category <- {"c1"}, Priority <- {"HIGH"}, Minutes <- {Deadlines(0, 0), Deadlines(0, 1)},
    MaxNow <- 1, Agent <- Single, Escalation <- {},
    Lease <- Single, Paper <- Single, Payment <- {}, Renewal <- Pair, Move <- Another,
    Calendar <- Months, Terms <- {Long, Short}, EndDates <- {70, 100}, Rent <- 2,
    paper <- document

Third == INSTANCE PremisesProofs WITH
    External <- {}, Progress <- <<100>>, Snag <- {}, Document <- {}, Required <- {},
    document <- papers, old <- cases,
    Category <- {"c1"}, Priority <- {"HIGH"}, Minutes <- {Deadlines(0, 0), Deadlines(0, 1)},
    MaxNow <- 1, Agent <- Single, Escalation <- {},
    Lease <- Single, Paper <- Single, Payment <- Pair, Renewal <- {}, Move <- {},
    Calendar <- Months, Terms <- {Short}, EndDates <- {}, Rent <- 2,
    paper <- document

-----------------------------------------------------------------------------
(***************************************************************************)
(* The way to possession.                                                  *)
(***************************************************************************)
LEMMA HandingStarts == Handing!Init => First!Init
  BY DEF Handing!Update, First!Update, Handing!Init, First!Init

LEMMA HandingSteps == Handing!Step => First!Step
  BY DEF Handing!Finances, First!Finances, Handing!Lasting, First!Lasting,
         Handing!Condition, First!Condition, Handing!Update, First!Update,
         Handing!AgreementStatus, First!AgreementStatus, Handing!SnagStatus,
         First!SnagStatus, Handing!dossier, First!dossier, Handing!vouching, First!vouching,
         Handing!ending, First!ending, Handing!Snapshot, First!Snapshot, Handing!Views,
         First!Views, Handing!Exists, First!Exists, Handing!OthersDecide,
         First!OthersDecide, Handing!Built, First!Built, Handing!Met, First!Met,
         Handing!Missing, First!Missing, Handing!FinanciallyReady, First!FinanciallyReady,
         Handing!SyncStage, First!SyncStage, Handing!Found, First!Found, Handing!Sync,
         First!Sync, Handing!CreateCase, First!CreateCase, Handing!CreateAgreement,
         First!CreateAgreement, Handing!UploadAgreement, First!UploadAgreement,
         Handing!AgreementMoves, First!AgreementMoves, Handing!TransitionAgreement,
         First!TransitionAgreement, Handing!CreateConstructionUpdate,
         First!CreateConstructionUpdate, Handing!PublishConstructionUpdate,
         First!PublishConstructionUpdate, Handing!IssueFinalDemand, First!IssueFinalDemand,
         Handing!IssueNoDues, First!IssueNoDues, Handing!CreateSnag, First!CreateSnag,
         Handing!SnagMoves, First!SnagMoves, Handing!DecideSnag, First!DecideSnag,
         Handing!RequestOverride, First!RequestOverride, Handing!DecideOverride,
         First!DecideOverride, Handing!Authorized, First!Authorized,
         Handing!OfferPossession, First!OfferPossession, Handing!MovePossession,
         First!MovePossession, Handing!SchedulePossession, First!SchedulePossession,
         Handing!CompletePossession, First!CompletePossession, Handing!StartHandover,
         First!StartHandover, Handing!AddHandoverDocument, First!AddHandoverDocument,
         Handing!UploadHandoverDocument, First!UploadHandoverDocument,
         Handing!AcknowledgeHandover, First!AcknowledgeHandover, Handing!CompleteHandover,
         First!CompleteHandover, Handing!DossierStep, First!DossierStep,
         Handing!PossessionStep, First!PossessionStep, Handing!HandoverStep,
         First!HandoverStep, Handing!Step, First!Step

LEMMA HandingPossessionVouched == First!PossessionVouched => Handing!PossessionVouched
  BY DEF Handing!Lasting, First!Lasting, Handing!Update, First!Update, Handing!Snapshot,
         First!Snapshot, Handing!Built, First!Built, Handing!Met, First!Met,
         Handing!PossessionVouched, First!PossessionVouched

LEMMA RacingStarts == Racing!Init => Second!Init
  BY DEF Racing!Update, Second!Update, Racing!Init, Second!Init

LEMMA RacingSteps == Racing!Next => Second!Next
  BY DEF Racing!Finances, Second!Finances, Racing!Lasting, Second!Lasting, Racing!Condition,
         Second!Condition, Racing!Update, Second!Update, Racing!AgreementStatus,
         Second!AgreementStatus, Racing!SnagStatus, Second!SnagStatus, Racing!dossier,
         Second!dossier, Racing!vouching, Second!vouching, Racing!ending, Second!ending,
         Racing!Snapshot, Second!Snapshot, Racing!Views, Second!Views, Racing!Exists,
         Second!Exists, Racing!Begin, Second!Begin, Racing!OthersDecide,
         Second!OthersDecide, Racing!Built, Second!Built, Racing!Met, Second!Met,
         Racing!Missing, Second!Missing, Racing!FinanciallyReady, Second!FinanciallyReady,
         Racing!SyncStage, Second!SyncStage, Racing!Found, Second!Found, Racing!Sync,
         Second!Sync, Racing!CreateCase, Second!CreateCase, Racing!CreateAgreement,
         Second!CreateAgreement, Racing!UploadAgreement, Second!UploadAgreement,
         Racing!AgreementMoves, Second!AgreementMoves, Racing!TransitionAgreement,
         Second!TransitionAgreement, Racing!CreateConstructionUpdate,
         Second!CreateConstructionUpdate, Racing!PublishConstructionUpdate,
         Second!PublishConstructionUpdate, Racing!IssueFinalDemand, Second!IssueFinalDemand,
         Racing!IssueNoDues, Second!IssueNoDues, Racing!CreateSnag, Second!CreateSnag,
         Racing!SnagMoves, Second!SnagMoves, Racing!DecideSnag, Second!DecideSnag,
         Racing!RequestOverride, Second!RequestOverride, Racing!DecideOverride,
         Second!DecideOverride, Racing!Authorized, Second!Authorized,
         Racing!OfferPossession, Second!OfferPossession, Racing!MovePossession,
         Second!MovePossession, Racing!SchedulePossession, Second!SchedulePossession,
         Racing!CompletePossession, Second!CompletePossession, Racing!StartHandover,
         Second!StartHandover, Racing!AddHandoverDocument, Second!AddHandoverDocument,
         Racing!UploadHandoverDocument, Second!UploadHandoverDocument,
         Racing!AcknowledgeHandover, Second!AcknowledgeHandover, Racing!CompleteHandover,
         Second!CompleteHandover, Racing!DossierStep, Second!DossierStep,
         Racing!PossessionStep, Second!PossessionStep, Racing!HandoverStep,
         Second!HandoverStep, Racing!Step, Second!Step, Racing!Next, Second!Next

LEMMA RacingPossessionVouched == Second!PossessionVouched => Racing!PossessionVouched
  BY DEF Racing!Lasting, Second!Lasting, Racing!Update, Second!Update, Racing!Snapshot,
         Second!Snapshot, Racing!Built, Second!Built, Racing!Met, Second!Met,
         Racing!PossessionVouched, Second!PossessionVouched

LEMMA HandingStageTells == First!StageTells => Handing!StageTells
  BY DEF Handing!StageTells, First!StageTells

(***************************************************************************)
(* Service requests.                                                       *)
(***************************************************************************)
LEMMA ServingStarts == Serving!Init => First!Service!Init
  BY DEF Serving!NoDeadlines, First!Service!NoDeadlines, Serving!NoTicket,
         First!Service!NoTicket, Serving!Init, First!Service!Init

LEMMA ServingSteps == Serving!Step => First!Service!Step
  BY DEF Serving!CategoryStatus, First!Service!CategoryStatus, Serving!Statuses,
         First!Service!Statuses, Serving!Finished, First!Service!Finished,
         Serving!Unsettled, First!Service!Unsettled, Serving!InOrder, First!Service!InOrder,
         Serving!NoDeadlines, First!Service!NoDeadlines, Serving!settings,
         First!Service!settings, Serving!Snapshot, First!Service!Snapshot, Serving!Views,
         First!Service!Views, Serving!NoTicket, First!Service!NoTicket, Serving!Tick,
         First!Service!Tick, Serving!StaffChanges, First!Service!StaffChanges,
         Serving!CreateCategory, First!Service!CreateCategory, Serving!UpdateCategory,
         First!Service!UpdateCategory, Serving!CreatePolicy, First!Service!CreatePolicy,
         Serving!UpdatePolicy, First!Service!UpdatePolicy, Serving!ApplySla,
         First!Service!ApplySla, Serving!Set, First!Service!Set, Serving!CreateTicket,
         First!Service!CreateTicket, Serving!UpdateTicket, First!Service!UpdateTicket,
         Serving!TakenUp, First!Service!TakenUp, Serving!AssignTicket,
         First!Service!AssignTicket, Serving!Moves, First!Service!Moves, Serving!Responded,
         First!Service!Responded, Serving!TransitionTicket, First!Service!TransitionTicket,
         Serving!AddComment, First!Service!AddComment, Serving!EscalateTicket,
         First!Service!EscalateTicket, Serving!AcknowledgeEscalation,
         First!Service!AcknowledgeEscalation, Serving!ResolveEscalation,
         First!Service!ResolveEscalation, Serving!SubmitFeedback,
         First!Service!SubmitFeedback, Serving!SettingsStep, First!Service!SettingsStep,
         Serving!TicketStep, First!Service!TicketStep, Serving!EscalationStep,
         First!Service!EscalationStep, Serving!Step, First!Service!Step

LEMMA ServingDeadlinesAgree == First!Service!DeadlinesAgree => Serving!DeadlinesAgree
  BY DEF Serving!Finished, First!Service!Finished, Serving!Breached, First!Service!Breached,
         Serving!Late, First!Service!Late, Serving!DeadlinesAgree,
         First!Service!DeadlinesAgree

LEMMA AnsweringStarts == Answering!Init => Second!Service!Init
  BY DEF Answering!NoDeadlines, Second!Service!NoDeadlines, Answering!NoTicket,
         Second!Service!NoTicket, Answering!Init, Second!Service!Init

LEMMA AnsweringSteps == Answering!Next => Second!Service!Next
  BY DEF Answering!CategoryStatus, Second!Service!CategoryStatus, Answering!Statuses,
         Second!Service!Statuses, Answering!Finished, Second!Service!Finished,
         Answering!Unsettled, Second!Service!Unsettled, Answering!InOrder,
         Second!Service!InOrder, Answering!NoDeadlines, Second!Service!NoDeadlines,
         Answering!settings, Second!Service!settings, Answering!Snapshot,
         Second!Service!Snapshot, Answering!Views, Second!Service!Views, Answering!NoTicket,
         Second!Service!NoTicket, Answering!Begin, Second!Service!Begin, Answering!Tick,
         Second!Service!Tick, Answering!StaffChanges, Second!Service!StaffChanges,
         Answering!CreateCategory, Second!Service!CreateCategory, Answering!UpdateCategory,
         Second!Service!UpdateCategory, Answering!CreatePolicy, Second!Service!CreatePolicy,
         Answering!UpdatePolicy, Second!Service!UpdatePolicy, Answering!ApplySla,
         Second!Service!ApplySla, Answering!Set, Second!Service!Set, Answering!CreateTicket,
         Second!Service!CreateTicket, Answering!UpdateTicket, Second!Service!UpdateTicket,
         Answering!TakenUp, Second!Service!TakenUp, Answering!AssignTicket,
         Second!Service!AssignTicket, Answering!Moves, Second!Service!Moves,
         Answering!Responded, Second!Service!Responded, Answering!TransitionTicket,
         Second!Service!TransitionTicket, Answering!AddComment, Second!Service!AddComment,
         Answering!EscalateTicket, Second!Service!EscalateTicket,
         Answering!AcknowledgeEscalation, Second!Service!AcknowledgeEscalation,
         Answering!ResolveEscalation, Second!Service!ResolveEscalation,
         Answering!SubmitFeedback, Second!Service!SubmitFeedback, Answering!SettingsStep,
         Second!Service!SettingsStep, Answering!TicketStep, Second!Service!TicketStep,
         Answering!EscalationStep, Second!Service!EscalationStep, Answering!Step,
         Second!Service!Step, Answering!Next, Second!Service!Next

LEMMA AnsweringDeadlinesAgree == Second!Service!DeadlinesAgree => Answering!DeadlinesAgree
  BY DEF Answering!Finished, Second!Service!Finished, Answering!Breached,
         Second!Service!Breached, Answering!Late, Second!Service!Late,
         Answering!DeadlinesAgree, Second!Service!DeadlinesAgree

LEMMA ServingEscalationsAgree == First!Service!EscalationsAgree => Serving!EscalationsAgree
  BY DEF Serving!Finished, First!Service!Finished, Serving!Unsettled,
         First!Service!Unsettled, Serving!EscalationsAgree, First!Service!EscalationsAgree

(***************************************************************************)
(* Rentals: the days of the calendar, and what is drawn up from them.      *)
(***************************************************************************)
LEMMA LettingPeriods ==
    \A start, end, due_day :
       Letting!Periods(start, end, due_day) = First!Rental!Periods(start, end, due_day)
  <1> SUFFICES ASSUME NEW start, NEW end, NEW due_day
               PROVE  Letting!Periods(start, end, due_day) = First!Rental!Periods(start, end, due_day)
    OBVIOUS
  <1>1. \A date : Letting!MonthOf(date) = First!Rental!MonthOf(date)
    BY DEF Letting!MonthOf, First!Rental!MonthOf
  <1>2. \A date, months : Letting!AddMonths(date, months) = First!Rental!AddMonths(date, months)
    BY <1>1
       DEF Letting!AddMonths, First!Rental!AddMonths, Letting!MonthLength, First!Rental!MonthLength, Letting!Date, First!Rental!Date,
           Letting!Least, First!Rental!Least
  <1>3. \A from, to : Letting!Scheduled(from, to, due_day) = First!Rental!Scheduled(from, to, due_day)
    BY <1>1
       DEF Letting!Scheduled, First!Rental!Scheduled, Letting!DueDate, First!Rental!DueDate,
           Letting!Date, First!Rental!Date, Letting!Least, First!Rental!Least
  <1> DEFINE Here(i) == Letting!Least(Letting!AddMonths(start, i) - 1, end)
             There(i) == First!Rental!Least(First!Rental!AddMonths(start, i) - 1, end)
             Covers(n) == Here(n) = end /\ \A k \in 1..(n - 1) : Here(k) < end
             Reaches(n) == There(n) = end /\ \A k \in 1..(n - 1) : There(k) < end
  <1>4. \A i : Here(i) = There(i)
    BY <1>2 DEF Letting!Least, First!Rental!Least
  <1>5. \A n : Covers(n) <=> Reaches(n)
    BY <1>4
  <1> HIDE DEF Covers, Reaches
  <1>6. (CHOOSE n \in 1..Len(Months) : Covers(n)) = (CHOOSE n \in 1..Len(Months) : Reaches(n))
    BY <1>5
  <1> USE DEF Covers, Reaches
  <1> QED BY <1>3, <1>4, <1>6 DEF Letting!Periods, First!Rental!Periods

LEMMA LettingStarts == Letting!Init => First!Rental!Init
  BY DEF Letting!NoLease, First!Rental!NoLease, Letting!NoDocument, First!Rental!NoDocument,
         Letting!NoPayment, First!Rental!NoPayment, Letting!NoRenewal,
         First!Rental!NoRenewal, Letting!NoMove, First!Rental!NoMove, Letting!Init,
         First!Rental!Init

LEMMA LettingSteps == Letting!Step => First!Rental!Step
  <1>1. Letting!LettingStep => First!Rental!LettingStep
    <2>1. Letting!PropertyStatus = First!Rental!PropertyStatus /\ Letting!Views = First!Rental!Views
      BY DEF Letting!PropertyStatus, First!Rental!PropertyStatus, Letting!Snapshot,
         First!Rental!Snapshot, Letting!Views, First!Rental!Views
    <2>2. ASSUME NEW l \in Pair PROVE Letting!IssueLease(l) => First!Rental!IssueLease(l)
      BY DEF Letting!money, First!Rental!money, Letting!workflow, First!Rental!workflow,
         Letting!IssueLease, First!Rental!IssueLease
    <2>3. ASSUME NEW v \in Letting!Views, NEW l \in Pair
          PROVE  Letting!SignLease(v, l) => First!Rental!SignLease(v, l)
      BY LettingPeriods
         DEF Letting!workflow, First!Rental!workflow, Letting!SignLease,
             First!Rental!SignLease
    <2>4. ASSUME NEW v \in Letting!Views, NEW l \in Pair, NEW t \in Tenant, NEW p \in Property,
                 NEW d \in Another, NEW terms \in {Short}
          PROVE  Letting!CreateLease(v, l, t, p, d, terms) => First!Rental!CreateLease(v, l, t, p, d, terms)
      BY DEF Letting!money, First!Rental!money, Letting!workflow, First!Rental!workflow,
         Letting!NoDocument, First!Rental!NoDocument, Letting!CreateLease,
         First!Rental!CreateLease
    <2> QED BY <2>1, <2>2, <2>3, <2>4
               DEF Letting!money, First!Rental!money, Letting!workflow,
                   First!Rental!workflow, Letting!NoDocument, First!Rental!NoDocument,
                   Letting!Drawn, First!Rental!Drawn, Letting!UpdateProperty,
                   First!Rental!UpdateProperty, Letting!UpdateTenant,
                   First!Rental!UpdateTenant, Letting!SetDocument, First!Rental!SetDocument,
                   Letting!AddDocument, First!Rental!AddDocument, Letting!UploadDocument,
                   First!Rental!UploadDocument, Letting!DecideDocument,
                   First!Rental!DecideDocument, Letting!LettingStep,
                   First!Rental!LettingStep
  <1>2. Letting!CollectingStep => First!Rental!CollectingStep
    BY ZenonT(60) DEF Letting!workflow, First!Rental!workflow, Letting!Snapshot,
         First!Rental!Snapshot, Letting!Views, First!Rental!Views, Letting!NoPayment, First!Rental!NoPayment,
         Letting!Invoiced, First!Rental!Invoiced, Letting!IssueInvoice,
         First!Rental!IssueInvoice, Letting!SubmitPayment, First!Rental!SubmitPayment,
         Letting!FailPayment, First!Rental!FailPayment, Letting!CompletePayment,
         First!Rental!CompletePayment, Letting!FallsDue, First!Rental!FallsDue,
         Letting!Overdue, First!Rental!Overdue, Letting!ExpireOverdue,
         First!Rental!ExpireOverdue, Letting!CollectingStep, First!Rental!CollectingStep
  <1>3. Letting!RenewalStep => First!Rental!RenewalStep
    BY LettingPeriods
       DEF Letting!money, First!Rental!money, Letting!Snapshot, First!Rental!Snapshot,
           Letting!Views, First!Rental!Views, Letting!NoRenewal, First!Rental!NoRenewal,
           Letting!RequestRenewal, First!Rental!RequestRenewal, Letting!RejectRenewal,
           First!Rental!RejectRenewal, Letting!ApproveRenewal, First!Rental!ApproveRenewal,
           Letting!RenewalStep, First!Rental!RenewalStep
  <1>4. Letting!MoveStep => First!Rental!MoveStep
    BY DEF Letting!money, First!Rental!money, Letting!Snapshot, First!Rental!Snapshot,
         Letting!Views, First!Rental!Views, Letting!NoMove, First!Rental!NoMove,
         Letting!RequestMove, First!Rental!RequestMove, Letting!DecideMove,
         First!Rental!DecideMove, Letting!CompleteMoveIn, First!Rental!CompleteMoveIn,
         Letting!CompleteMoveOut, First!Rental!CompleteMoveOut, Letting!MoveStep,
         First!Rental!MoveStep
  <1> QED BY <1>1, <1>2, <1>3, <1>4 DEF Letting!Step, First!Rental!Step

LEMMA LettingOccupantsAgree == First!Rental!OccupantsAgree => Letting!OccupantsAgree
  BY DEF Letting!Living, First!Rental!Living, Letting!OccupantsAgree,
         First!Rental!OccupantsAgree

LEMMA RenewingPeriods ==
    \A start, end, due_day :
       Renewing!Periods(start, end, due_day) = Second!Rental!Periods(start, end, due_day)
  <1> SUFFICES ASSUME NEW start, NEW end, NEW due_day
               PROVE  Renewing!Periods(start, end, due_day) = Second!Rental!Periods(start, end, due_day)
    OBVIOUS
  <1>1. \A date : Renewing!MonthOf(date) = Second!Rental!MonthOf(date)
    BY DEF Renewing!MonthOf, Second!Rental!MonthOf
  <1>2. \A date, months : Renewing!AddMonths(date, months) = Second!Rental!AddMonths(date, months)
    BY <1>1
       DEF Renewing!AddMonths, Second!Rental!AddMonths, Renewing!MonthLength, Second!Rental!MonthLength, Renewing!Date, Second!Rental!Date,
           Renewing!Least, Second!Rental!Least
  <1>3. \A from, to : Renewing!Scheduled(from, to, due_day) = Second!Rental!Scheduled(from, to, due_day)
    BY <1>1 DEF Renewing!Scheduled, Second!Rental!Scheduled, Renewing!DueDate,
         Second!Rental!DueDate, Renewing!Date, Second!Rental!Date, Renewing!Least,
         Second!Rental!Least
  <1> DEFINE Here(i) == Renewing!Least(Renewing!AddMonths(start, i) - 1, end)
             There(i) == Second!Rental!Least(Second!Rental!AddMonths(start, i) - 1, end)
             Covers(n) == Here(n) = end /\ \A k \in 1..(n - 1) : Here(k) < end
             Reaches(n) == There(n) = end /\ \A k \in 1..(n - 1) : There(k) < end
  <1>4. \A i : Here(i) = There(i)
    BY <1>2 DEF Renewing!Least, Second!Rental!Least
  <1>5. \A n : Covers(n) <=> Reaches(n)
    BY <1>4
  <1> HIDE DEF Covers, Reaches
  <1>6. (CHOOSE n \in 1..Len(Months) : Covers(n)) = (CHOOSE n \in 1..Len(Months) : Reaches(n))
    BY <1>5
  <1> USE DEF Covers, Reaches
  <1> QED BY <1>3, <1>4, <1>6 DEF Renewing!Periods, Second!Rental!Periods

LEMMA RenewingStarts == Renewing!Init => Second!Rental!Init
  BY DEF Renewing!NoLease, Second!Rental!NoLease, Renewing!NoDocument,
         Second!Rental!NoDocument, Renewing!NoPayment, Second!Rental!NoPayment,
         Renewing!NoRenewal, Second!Rental!NoRenewal, Renewing!NoMove, Second!Rental!NoMove,
         Renewing!Init, Second!Rental!Init

LEMMA RenewingSteps == Renewing!Step => Second!Rental!Step
  <1>1. Renewing!LettingStep => Second!Rental!LettingStep
    <2>1. Renewing!PropertyStatus = Second!Rental!PropertyStatus /\ Renewing!Views = Second!Rental!Views
      BY DEF Renewing!PropertyStatus, Second!Rental!PropertyStatus, Renewing!Snapshot,
         Second!Rental!Snapshot, Renewing!Views, Second!Rental!Views
    <2>2. ASSUME NEW l \in Single PROVE Renewing!IssueLease(l) => Second!Rental!IssueLease(l)
      BY DEF Renewing!money, Second!Rental!money, Renewing!workflow, Second!Rental!workflow,
         Renewing!IssueLease, Second!Rental!IssueLease
    <2>3. ASSUME NEW v \in Renewing!Views, NEW l \in Single
          PROVE  Renewing!SignLease(v, l) => Second!Rental!SignLease(v, l)
      BY RenewingPeriods DEF Renewing!workflow, Second!Rental!workflow, Renewing!SignLease,
         Second!Rental!SignLease
    <2>4. ASSUME NEW v \in Renewing!Views, NEW l \in Single, NEW t \in Tenant, NEW p \in Property,
                 NEW d \in Single, NEW terms \in {Long, Short}
          PROVE  Renewing!CreateLease(v, l, t, p, d, terms) => Second!Rental!CreateLease(v, l, t, p, d, terms)
      BY DEF Renewing!money, Second!Rental!money, Renewing!workflow, Second!Rental!workflow,
         Renewing!NoDocument, Second!Rental!NoDocument, Renewing!CreateLease,
         Second!Rental!CreateLease
    <2> QED BY <2>1, <2>2, <2>3, <2>4
               DEF Renewing!money, Second!Rental!money, Renewing!workflow,
                   Second!Rental!workflow, Renewing!NoDocument, Second!Rental!NoDocument,
                   Renewing!Drawn, Second!Rental!Drawn, Renewing!UpdateProperty,
                   Second!Rental!UpdateProperty, Renewing!UpdateTenant,
                   Second!Rental!UpdateTenant, Renewing!SetDocument,
                   Second!Rental!SetDocument, Renewing!AddDocument,
                   Second!Rental!AddDocument, Renewing!UploadDocument,
                   Second!Rental!UploadDocument, Renewing!DecideDocument,
                   Second!Rental!DecideDocument, Renewing!LettingStep,
                   Second!Rental!LettingStep
  <1>2. Renewing!CollectingStep => Second!Rental!CollectingStep
    BY ZenonT(60) DEF Renewing!workflow, Second!Rental!workflow, Renewing!Snapshot,
         Second!Rental!Snapshot, Renewing!Views, Second!Rental!Views, Renewing!NoPayment,
         Second!Rental!NoPayment, Renewing!Invoiced, Second!Rental!Invoiced,
         Renewing!IssueInvoice, Second!Rental!IssueInvoice, Renewing!SubmitPayment,
         Second!Rental!SubmitPayment, Renewing!FailPayment, Second!Rental!FailPayment,
         Renewing!CompletePayment, Second!Rental!CompletePayment, Renewing!FallsDue,
         Second!Rental!FallsDue, Renewing!Overdue, Second!Rental!Overdue,
         Renewing!ExpireOverdue, Second!Rental!ExpireOverdue, Renewing!CollectingStep,
         Second!Rental!CollectingStep
  <1>3. Renewing!RenewalStep => Second!Rental!RenewalStep
    BY RenewingPeriods
       DEF Renewing!money, Second!Rental!money, Renewing!Snapshot, Second!Rental!Snapshot,
           Renewing!Views, Second!Rental!Views, Renewing!NoRenewal, Second!Rental!NoRenewal,
           Renewing!RequestRenewal, Second!Rental!RequestRenewal, Renewing!RejectRenewal,
           Second!Rental!RejectRenewal, Renewing!ApproveRenewal,
           Second!Rental!ApproveRenewal, Renewing!RenewalStep, Second!Rental!RenewalStep
  <1>4. Renewing!MoveStep => Second!Rental!MoveStep
    BY DEF Renewing!money, Second!Rental!money, Renewing!Snapshot, Second!Rental!Snapshot,
         Renewing!Views, Second!Rental!Views, Renewing!NoMove, Second!Rental!NoMove,
         Renewing!RequestMove, Second!Rental!RequestMove, Renewing!DecideMove,
         Second!Rental!DecideMove, Renewing!CompleteMoveIn, Second!Rental!CompleteMoveIn,
         Renewing!CompleteMoveOut, Second!Rental!CompleteMoveOut, Renewing!MoveStep,
         Second!Rental!MoveStep
  <1> QED BY <1>1, <1>2, <1>3, <1>4 DEF Renewing!Step, Second!Rental!Step

LEMMA RenewingOccupantsAgree == Second!Rental!OccupantsAgree => Renewing!OccupantsAgree
  BY DEF Renewing!Living, Second!Rental!Living, Renewing!OccupantsAgree,
         Second!Rental!OccupantsAgree

LEMMA CollectingPeriods ==
    \A start, end, due_day :
       Collecting!Periods(start, end, due_day) = Third!Rental!Periods(start, end, due_day)
  <1> SUFFICES ASSUME NEW start, NEW end, NEW due_day
               PROVE  Collecting!Periods(start, end, due_day) = Third!Rental!Periods(start, end, due_day)
    OBVIOUS
  <1>1. \A date : Collecting!MonthOf(date) = Third!Rental!MonthOf(date)
    BY DEF Collecting!MonthOf, Third!Rental!MonthOf
  <1>2. \A date, months : Collecting!AddMonths(date, months) = Third!Rental!AddMonths(date, months)
    BY <1>1
       DEF Collecting!AddMonths, Third!Rental!AddMonths, Collecting!MonthLength, Third!Rental!MonthLength, Collecting!Date, Third!Rental!Date,
           Collecting!Least, Third!Rental!Least
  <1>3. \A from, to : Collecting!Scheduled(from, to, due_day) = Third!Rental!Scheduled(from, to, due_day)
    BY <1>1 DEF Collecting!Scheduled, Third!Rental!Scheduled, Collecting!DueDate,
         Third!Rental!DueDate, Collecting!Date, Third!Rental!Date, Collecting!Least,
         Third!Rental!Least
  <1> DEFINE Here(i) == Collecting!Least(Collecting!AddMonths(start, i) - 1, end)
             There(i) == Third!Rental!Least(Third!Rental!AddMonths(start, i) - 1, end)
             Covers(n) == Here(n) = end /\ \A k \in 1..(n - 1) : Here(k) < end
             Reaches(n) == There(n) = end /\ \A k \in 1..(n - 1) : There(k) < end
  <1>4. \A i : Here(i) = There(i)
    BY <1>2 DEF Collecting!Least, Third!Rental!Least
  <1>5. \A n : Covers(n) <=> Reaches(n)
    BY <1>4
  <1> HIDE DEF Covers, Reaches
  <1>6. (CHOOSE n \in 1..Len(Months) : Covers(n)) = (CHOOSE n \in 1..Len(Months) : Reaches(n))
    BY <1>5
  <1> USE DEF Covers, Reaches
  <1> QED BY <1>3, <1>4, <1>6 DEF Collecting!Periods, Third!Rental!Periods

LEMMA CollectingStarts == Collecting!Init => Third!Rental!Init
  BY DEF Collecting!NoLease, Third!Rental!NoLease, Collecting!NoDocument,
         Third!Rental!NoDocument, Collecting!NoPayment, Third!Rental!NoPayment,
         Collecting!NoRenewal, Third!Rental!NoRenewal, Collecting!NoMove, Third!Rental!NoMove,
         Collecting!Init, Third!Rental!Init

LEMMA CollectingSums ==
    /\ \A f, S : Collecting!SumFunctionOnSet(f, S) = Third!Rental!SumFunctionOnSet(f, S)
    /\ \A payments, l, i : Collecting!Committed(payments, l, i) = Third!Rental!Committed(payments, l, i)
  <1>1. ASSUME NEW f, NEW S PROVE Collecting!SumFunctionOnSet(f, S) = Third!Rental!SumFunctionOnSet(f, S)
    BY DEF Collecting!SumFunctionOnSet, Third!Rental!SumFunctionOnSet, Collecting!FoldFunctionOnSet,
           Third!Rental!FoldFunctionOnSet, Collecting!MapThenFoldSet, Third!Rental!MapThenFoldSet
  <1> QED BY <1>1 DEF Collecting!Committed, Third!Rental!Committed

LEMMA CollectingSteps == Collecting!Next => Third!Rental!Next
  <1>1. Collecting!LettingStep => Third!Rental!LettingStep
    <2>1. Collecting!PropertyStatus = Third!Rental!PropertyStatus /\ Collecting!Views = Third!Rental!Views
      BY DEF Collecting!PropertyStatus, Third!Rental!PropertyStatus, Collecting!Snapshot,
         Third!Rental!Snapshot, Collecting!Views, Third!Rental!Views
    <2>2. ASSUME NEW l \in Single PROVE Collecting!IssueLease(l) => Third!Rental!IssueLease(l)
      BY DEF Collecting!money, Third!Rental!money, Collecting!workflow, Third!Rental!workflow,
         Collecting!IssueLease, Third!Rental!IssueLease
    <2>3. ASSUME NEW v \in Collecting!Views, NEW l \in Single
          PROVE  Collecting!SignLease(v, l) => Third!Rental!SignLease(v, l)
      BY CollectingPeriods DEF Collecting!workflow, Third!Rental!workflow, Collecting!SignLease,
         Third!Rental!SignLease
    <2>4. ASSUME NEW v \in Collecting!Views, NEW l \in Single, NEW t \in Tenant, NEW p \in Property,
                 NEW d \in Single, NEW terms \in {Short}
          PROVE  Collecting!CreateLease(v, l, t, p, d, terms) => Third!Rental!CreateLease(v, l, t, p, d, terms)
      BY DEF Collecting!money, Third!Rental!money, Collecting!workflow, Third!Rental!workflow,
         Collecting!NoDocument, Third!Rental!NoDocument, Collecting!CreateLease,
         Third!Rental!CreateLease
    <2> QED BY <2>1, <2>2, <2>3, <2>4
               DEF Collecting!money, Third!Rental!money, Collecting!workflow,
                   Third!Rental!workflow, Collecting!NoDocument, Third!Rental!NoDocument,
                   Collecting!Drawn, Third!Rental!Drawn, Collecting!UpdateProperty,
                   Third!Rental!UpdateProperty, Collecting!UpdateTenant,
                   Third!Rental!UpdateTenant, Collecting!SetDocument,
                   Third!Rental!SetDocument, Collecting!AddDocument,
                   Third!Rental!AddDocument, Collecting!UploadDocument,
                   Third!Rental!UploadDocument, Collecting!DecideDocument,
                   Third!Rental!DecideDocument, Collecting!LettingStep,
                   Third!Rental!LettingStep
  <1>2. Collecting!CollectingStep => Third!Rental!CollectingStep
    <2>1. Collecting!Views = Third!Rental!Views
      BY DEF Collecting!Snapshot, Third!Rental!Snapshot, Collecting!Views, Third!Rental!Views
    <2>2. ASSUME NEW l \in Single, NEW i \in DOMAIN schedule[l], NEW v \in Collecting!Views, NEW k \in Pair,
                 NEW amount \in 1..2
          PROVE  Collecting!SubmitPayment(v, k, l, i, amount) => Third!Rental!SubmitPayment(v, k, l, i, amount)
      BY CollectingSums, Zenon
         DEF Collecting!workflow, Third!Rental!workflow, Collecting!NoPayment, Third!Rental!NoPayment,
             Collecting!Invoiced, Third!Rental!Invoiced, Collecting!SubmitPayment,
             Third!Rental!SubmitPayment
    <2>3. ASSUME NEW k \in Pair PROVE Collecting!CompletePayment(k) => Third!Rental!CompletePayment(k)
      BY DEF Collecting!workflow, Third!Rental!workflow, Collecting!CompletePayment,
             Third!Rental!CompletePayment
    <2>4. ASSUME NEW k \in Pair PROVE Collecting!FailPayment(k) => Third!Rental!FailPayment(k)
      BY DEF Collecting!workflow, Third!Rental!workflow, Collecting!FailPayment, Third!Rental!FailPayment
    <2>5. ASSUME NEW l \in Single, NEW i \in DOMAIN schedule[l]
          PROVE  /\ Collecting!IssueInvoice(l, i) => Third!Rental!IssueInvoice(l, i)
                 /\ Collecting!FallsDue(l, i) => Third!Rental!FallsDue(l, i)
      BY DEF Collecting!workflow, Third!Rental!workflow, Collecting!Invoiced, Third!Rental!Invoiced,
             Collecting!IssueInvoice, Third!Rental!IssueInvoice, Collecting!FallsDue, Third!Rental!FallsDue
    <2>6. ASSUME NEW v \in Collecting!Views
          PROVE  Collecting!ExpireOverdue(v) => Third!Rental!ExpireOverdue(v)
      BY Zenon DEF Collecting!workflow, Third!Rental!workflow, Collecting!Overdue, Third!Rental!Overdue,
                   Collecting!ExpireOverdue, Third!Rental!ExpireOverdue
    <2> QED BY <2>1, <2>2, <2>3, <2>4, <2>5, <2>6
               DEF Collecting!CollectingStep, Third!Rental!CollectingStep
  <1>3. ~Collecting!RenewalStep /\ ~Collecting!MoveStep
    BY DEF Collecting!RenewalStep, Collecting!MoveStep
  <1>4. Collecting!Begin => Third!Rental!Begin
    BY DEF Collecting!Begin, Third!Rental!Begin, Collecting!money, Third!Rental!money,
           Collecting!workflow, Third!Rental!workflow, Collecting!Snapshot, Third!Rental!Snapshot
  <1> QED BY <1>1, <1>2, <1>3, <1>4
             DEF Collecting!Step, Third!Rental!Step, Collecting!Next, Third!Rental!Next

LEMMA RenewingTermsTiled == Second!Rental!TermsTiled => Renewing!TermsTiled
  BY DEF Renewing!Living, Second!Rental!Living, Renewing!TermsTiled, Second!Rental!TermsTiled

LEMMA CollectingTermsTiled == Third!Rental!TermsTiled => Collecting!TermsTiled
  BY DEF Collecting!Living, Third!Rental!Living, Collecting!TermsTiled, Third!Rental!TermsTiled

LEMMA CollectingRentAddsUp == Third!Rental!RentAddsUp => Collecting!RentAddsUp
  BY CollectingSums DEF Collecting!RentAddsUp, Third!Rental!RentAddsUp

(***************************************************************************)
(* Sales that move to another unit or are cancelled.                       *)
(***************************************************************************)
Moves == INSTANCE UnitInventoryProofs WITH
    Unit <- Another, Hold <- Pair, Booking <- Single, Customer <- Tenant, User <- {"a1", "a2"},
    Session <- {}, MaxApprovers <- 1, Transfer <- Single, Cancellation <- Single

Returns == INSTANCE UnitInventoryProofs WITH
    Unit <- Another, Hold <- Single, Booking <- Pair, Customer <- Tenant, User <- {"a1", "a2"},
    Session <- {}, MaxApprovers <- 1, Transfer <- Pair, Cancellation <- Single

LEMMA MovingStarts == Moving!SalesInit => Moves!SalesInit
  BY DEF Moving!SalesInit, Moves!SalesInit, Moving!NoHold, Moves!NoHold, Moving!NoBooking,
         Moves!NoBooking, Moving!Snapshot, Moves!Snapshot, Moving!Init, Moves!Init

LEMMA MovingSteps == Moving!SalesNext => Moves!SalesNext
  <1>1. Moving!vars = Moves!vars /\ \A s : Moving!Begin(s) => Moves!Begin(s)
    BY DEF Moving!rows, Moves!rows, Moving!vars, Moves!vars, Moving!Snapshot,
           Moves!Snapshot, Moving!Begin, Moves!Begin
  <1>2. Moving!UnitStep => Moves!UnitStep
    BY DEF Moving!CreateUnit, Moves!CreateUnit, Moving!DeleteUnit, Moves!DeleteUnit,
           Moving!TransitionUnit, Moves!TransitionUnit, Moving!UnitStep, Moves!UnitStep
  <1>3. Moving!HoldStep => Moves!HoldStep
    BY ZenonT(60) DEF Moving!HoldType, Moves!HoldType, Moving!Reserving, Moves!Reserving,
           Moving!Snapshot, Moves!Snapshot, Moving!Views, Moves!Views, Moving!OverdueOn,
           Moves!OverdueOn, Moving!ValidOn, Moves!ValidOn, Moving!Ended, Moves!Ended,
           Moving!HoldsExpiring, Moves!HoldsExpiring, Moving!UnitsExpiring,
           Moves!UnitsExpiring, Moving!FallDue, Moves!FallDue, Moving!ExpireDueHolds,
           Moves!ExpireDueHolds, Moving!CreateHold, Moves!CreateHold, Moving!DecidableHold,
           Moves!DecidableHold, Moving!ApproveHold, Moves!ApproveHold, Moving!RejectHold,
           Moves!RejectHold, Moving!ExpireAndRefuse, Moves!ExpireAndRefuse,
           Moving!DecideHold, Moves!DecideHold, Moving!ReleaseHold, Moves!ReleaseHold,
           Moving!HoldStep, Moves!HoldStep
  <1>4. Moving!BookingStep => Moves!BookingStep
    BY ZenonT(60) DEF Moving!HoldType, Moves!HoldType, Moving!Reserving, Moves!Reserving,
           Moving!Open, Moves!Open, Moving!Final, Moves!Final, Moving!BookingStatus,
           Moves!BookingStatus, Moving!Snapshot, Moves!Snapshot, Moving!Views, Moves!Views,
           Moving!HoldsKeyedTo, Moves!HoldsKeyedTo, Moving!BookingsKeyedTo,
           Moves!BookingsKeyedTo, Moving!Claimed, Moves!Claimed, Moving!OverdueOn,
           Moves!OverdueOn, Moving!ValidOn, Moves!ValidOn, Moving!Ended, Moves!Ended,
           Moving!HoldsExpiring, Moves!HoldsExpiring, Moving!UnitsExpiring,
           Moves!UnitsExpiring, Moving!Trespass, Moves!Trespass, Moving!CancelPending,
           Moves!CancelPending, Moving!NewBooking, Moves!NewBooking, Moving!Unbooked,
           Moves!Unbooked, Moving!InitiateBooking, Moves!InitiateBooking,
           Moving!CreateBooking, Moves!CreateBooking, Moving!NextStatus, Moves!NextStatus,
           Moving!AdvanceBooking, Moves!AdvanceBooking, Moving!ApproverLists,
           Moves!ApproverLists, Moving!RequestApproval, Moves!RequestApproval,
           Moving!Decidable, Moves!Decidable, Moving!Undecided, Moves!Undecided,
           Moving!RejectBooking, Moves!RejectBooking, Moving!ApproveStep, Moves!ApproveStep,
           Moving!ConfirmBooking, Moves!ConfirmBooking, Moving!DecideApproval,
           Moves!DecideApproval, Moving!CancelBooking, Moves!CancelBooking,
           Moving!TransitionBooking, Moves!TransitionBooking, Moving!BookingStep,
           Moves!BookingStep
  <1>5. Moving!TransferStep => Moves!TransferStep
    BY ZenonT(60) DEF Moving!Pending, Moves!Pending, Moving!Reviewed, Moves!Reviewed,
           Moving!Verdicts, Moves!Verdicts, Moving!MayDecide, Moves!MayDecide,
           Moving!Available, Moves!Available, Moving!RequestTransfer, Moves!RequestTransfer,
           Moving!ReviewTransfer, Moves!ReviewTransfer, Moving!DecideTransfer,
           Moves!DecideTransfer, Moving!Transferable, Moves!Transferable,
           Moving!CompleteTransfer, Moves!CompleteTransfer, Moving!TransferStep,
           Moves!TransferStep, Moving!Reserving, Moves!Reserving, Moving!vars, Moves!vars,
           Moving!HoldsKeyedTo, Moves!HoldsKeyedTo, Moving!BookingsKeyedTo,
           Moves!BookingsKeyedTo
  <1>6. Moving!CancellationStep => Moves!CancellationStep
    BY ZenonT(60) DEF Moving!Pending, Moves!Pending, Moving!Reviewed, Moves!Reviewed,
           Moving!Verdicts, Moves!Verdicts, Moving!MayDecide, Moves!MayDecide,
           Moving!RequestCancellation, Moves!RequestCancellation, Moving!ReviewCancellation,
           Moves!ReviewCancellation, Moving!DecideCancellation, Moves!DecideCancellation,
           Moving!CompleteCancellation, Moves!CompleteCancellation, Moving!CancellationStep,
           Moves!CancellationStep, Moving!vars, Moves!vars, Moving!Ended, Moves!Ended
  <1> QED BY <1>1, <1>2, <1>3, <1>4, <1>5, <1>6 DEF Moving!SalesNext, Moves!SalesNext,
             Moving!InventoryStep, Moves!InventoryStep, Moving!Next, Moves!Next

LEMMA MovingSalesKept == Moves!SalesKept => Moving!SalesKept
  BY DEF Moving!Pending, Moves!Pending, Moving!SalesKept, Moves!SalesKept, Moving!HoldType,
         Moves!HoldType, Moving!Reserving, Moves!Reserving, Moving!Open, Moves!Open,
         Moving!HoldsKeyedTo, Moves!HoldsKeyedTo, Moving!BookingsKeyedTo,
         Moves!BookingsKeyedTo, Moving!KeysAgree, Moves!KeysAgree, Moving!UnitAgrees,
         Moves!UnitAgrees, Moving!ClaimsAgree, Moves!ClaimsAgree

LEMMA ReturningStarts == Returning!SalesInit => Returns!SalesInit
  BY DEF Returning!SalesInit, Returns!SalesInit, Returning!NoHold, Returns!NoHold,
         Returning!NoBooking, Returns!NoBooking, Returning!Snapshot, Returns!Snapshot,
         Returning!Init, Returns!Init

LEMMA ReturningSteps == Returning!SalesNext => Returns!SalesNext
  <1>1. Returning!vars = Returns!vars /\ \A s : Returning!Begin(s) => Returns!Begin(s)
    BY DEF Returning!rows, Returns!rows, Returning!vars, Returns!vars, Returning!Snapshot,
           Returns!Snapshot, Returning!Begin, Returns!Begin
  <1>2. Returning!UnitStep => Returns!UnitStep
    BY DEF Returning!CreateUnit, Returns!CreateUnit, Returning!DeleteUnit,
           Returns!DeleteUnit, Returning!TransitionUnit, Returns!TransitionUnit,
           Returning!UnitStep, Returns!UnitStep
  <1>3. Returning!HoldStep => Returns!HoldStep
    BY ZenonT(60) DEF Returning!HoldType, Returns!HoldType, Returning!Reserving,
           Returns!Reserving, Returning!Snapshot, Returns!Snapshot, Returning!Views,
           Returns!Views, Returning!OverdueOn, Returns!OverdueOn, Returning!ValidOn,
           Returns!ValidOn, Returning!Ended, Returns!Ended, Returning!HoldsExpiring,
           Returns!HoldsExpiring, Returning!UnitsExpiring, Returns!UnitsExpiring,
           Returning!FallDue, Returns!FallDue, Returning!ExpireDueHolds,
           Returns!ExpireDueHolds, Returning!CreateHold, Returns!CreateHold,
           Returning!DecidableHold, Returns!DecidableHold, Returning!ApproveHold,
           Returns!ApproveHold, Returning!RejectHold, Returns!RejectHold,
           Returning!ExpireAndRefuse, Returns!ExpireAndRefuse, Returning!DecideHold,
           Returns!DecideHold, Returning!ReleaseHold, Returns!ReleaseHold,
           Returning!HoldStep, Returns!HoldStep
  <1>4. Returning!BookingStep => Returns!BookingStep
    BY ZenonT(60) DEF Returning!HoldType, Returns!HoldType, Returning!Reserving,
           Returns!Reserving, Returning!Open, Returns!Open, Returning!Final, Returns!Final,
           Returning!BookingStatus, Returns!BookingStatus, Returning!Snapshot,
           Returns!Snapshot, Returning!Views, Returns!Views, Returning!HoldsKeyedTo,
           Returns!HoldsKeyedTo, Returning!BookingsKeyedTo, Returns!BookingsKeyedTo,
           Returning!Claimed, Returns!Claimed, Returning!OverdueOn, Returns!OverdueOn,
           Returning!ValidOn, Returns!ValidOn, Returning!Ended, Returns!Ended,
           Returning!HoldsExpiring, Returns!HoldsExpiring, Returning!UnitsExpiring,
           Returns!UnitsExpiring, Returning!Trespass, Returns!Trespass,
           Returning!CancelPending, Returns!CancelPending, Returning!NewBooking,
           Returns!NewBooking, Returning!Unbooked, Returns!Unbooked,
           Returning!InitiateBooking, Returns!InitiateBooking, Returning!CreateBooking,
           Returns!CreateBooking, Returning!NextStatus, Returns!NextStatus,
           Returning!AdvanceBooking, Returns!AdvanceBooking, Returning!ApproverLists,
           Returns!ApproverLists, Returning!RequestApproval, Returns!RequestApproval,
           Returning!Decidable, Returns!Decidable, Returning!Undecided, Returns!Undecided,
           Returning!RejectBooking, Returns!RejectBooking, Returning!ApproveStep,
           Returns!ApproveStep, Returning!ConfirmBooking, Returns!ConfirmBooking,
           Returning!DecideApproval, Returns!DecideApproval, Returning!CancelBooking,
           Returns!CancelBooking, Returning!TransitionBooking, Returns!TransitionBooking,
           Returning!BookingStep, Returns!BookingStep
  <1>5. Returning!TransferStep => Returns!TransferStep
    BY ZenonT(60) DEF Returning!Pending, Returns!Pending, Returning!Reviewed,
           Returns!Reviewed, Returning!Verdicts, Returns!Verdicts, Returning!MayDecide,
           Returns!MayDecide, Returning!Available, Returns!Available,
           Returning!RequestTransfer, Returns!RequestTransfer, Returning!ReviewTransfer,
           Returns!ReviewTransfer, Returning!DecideTransfer, Returns!DecideTransfer,
           Returning!Transferable, Returns!Transferable, Returning!CompleteTransfer,
           Returns!CompleteTransfer, Returning!TransferStep, Returns!TransferStep,
           Returning!Reserving, Returns!Reserving, Returning!vars, Returns!vars,
           Returning!HoldsKeyedTo, Returns!HoldsKeyedTo, Returning!BookingsKeyedTo,
           Returns!BookingsKeyedTo
  <1>6. Returning!CancellationStep => Returns!CancellationStep
    BY ZenonT(60) DEF Returning!Pending, Returns!Pending, Returning!Reviewed,
           Returns!Reviewed, Returning!Verdicts, Returns!Verdicts, Returning!MayDecide,
           Returns!MayDecide, Returning!RequestCancellation, Returns!RequestCancellation,
           Returning!ReviewCancellation, Returns!ReviewCancellation,
           Returning!DecideCancellation, Returns!DecideCancellation,
           Returning!CompleteCancellation, Returns!CompleteCancellation,
           Returning!CancellationStep, Returns!CancellationStep, Returning!vars,
           Returns!vars, Returning!Ended, Returns!Ended
  <1> QED BY <1>1, <1>2, <1>3, <1>4, <1>5, <1>6 DEF Returning!SalesNext, Returns!SalesNext,
             Returning!InventoryStep, Returns!InventoryStep, Returning!Next, Returns!Next

LEMMA ReturningSalesKept == Returns!SalesKept => Returning!SalesKept
  BY DEF Returning!Pending, Returns!Pending, Returning!SalesKept, Returns!SalesKept,
         Returning!HoldType, Returns!HoldType, Returning!Reserving, Returns!Reserving,
         Returning!Open, Returns!Open, Returning!HoldsKeyedTo, Returns!HoldsKeyedTo,
         Returning!BookingsKeyedTo, Returns!BookingsKeyedTo, Returning!KeysAgree,
         Returns!KeysAgree, Returning!UnitAgrees, Returns!UnitAgrees, Returning!ClaimsAgree,
         Returns!ClaimsAgree

(* The types of the rows.                                                  *)
LEMMA LettingTyped == First!Rental!TypeOK => Letting!TypeOK
  BY DEF Letting!PropertyStatus, First!Rental!PropertyStatus, Letting!LeaseStatus,
         First!Rental!LeaseStatus, Letting!Drawn, First!Rental!Drawn, Letting!NoDocument,
         First!Rental!NoDocument, Letting!DocumentStatus, First!Rental!DocumentStatus,
         Letting!ScheduleStatus, First!Rental!ScheduleStatus, Letting!InvoiceStatus,
         First!Rental!InvoiceStatus, Letting!NoPayment, First!Rental!NoPayment,
         Letting!PaymentStatus, First!Rental!PaymentStatus, Letting!NoRenewal,
         First!Rental!NoRenewal, Letting!WorkflowStatus, First!Rental!WorkflowStatus,
         Letting!NoMove, First!Rental!NoMove, Letting!TypeOK, First!Rental!TypeOK

LEMMA RenewingTyped == Second!Rental!TypeOK => Renewing!TypeOK
  BY DEF Renewing!PropertyStatus, Second!Rental!PropertyStatus, Renewing!LeaseStatus,
         Second!Rental!LeaseStatus, Renewing!Drawn, Second!Rental!Drawn, Renewing!NoDocument,
         Second!Rental!NoDocument, Renewing!DocumentStatus, Second!Rental!DocumentStatus,
         Renewing!ScheduleStatus, Second!Rental!ScheduleStatus, Renewing!InvoiceStatus,
         Second!Rental!InvoiceStatus, Renewing!NoPayment, Second!Rental!NoPayment,
         Renewing!PaymentStatus, Second!Rental!PaymentStatus, Renewing!NoRenewal,
         Second!Rental!NoRenewal, Renewing!WorkflowStatus, Second!Rental!WorkflowStatus,
         Renewing!NoMove, Second!Rental!NoMove, Renewing!TypeOK, Second!Rental!TypeOK

LEMMA CollectingTyped == Third!Rental!TypeOK => Collecting!TypeOK
  BY DEF Collecting!PropertyStatus, Third!Rental!PropertyStatus, Collecting!LeaseStatus,
         Third!Rental!LeaseStatus, Collecting!Drawn, Third!Rental!Drawn, Collecting!NoDocument,
         Third!Rental!NoDocument, Collecting!DocumentStatus, Third!Rental!DocumentStatus,
         Collecting!ScheduleStatus, Third!Rental!ScheduleStatus, Collecting!InvoiceStatus,
         Third!Rental!InvoiceStatus, Collecting!NoPayment, Third!Rental!NoPayment,
         Collecting!PaymentStatus, Third!Rental!PaymentStatus, Collecting!NoRenewal,
         Third!Rental!NoRenewal, Collecting!WorkflowStatus, Third!Rental!WorkflowStatus,
         Collecting!NoMove, Third!Rental!NoMove, Collecting!TypeOK, Third!Rental!TypeOK

LEMMA HandingTyped == First!TypeOK => Handing!TypeOK
  BY DEF Handing!Finances, First!Finances, Handing!Lasting, First!Lasting, Handing!Condition,
         First!Condition, Handing!Update, First!Update, Handing!Stage, First!Stage,
         Handing!AgreementStatus, First!AgreementStatus, Handing!ProgressStatus,
         First!ProgressStatus, Handing!SnagStatus, First!SnagStatus, Handing!WorkflowStatus,
         First!WorkflowStatus, Handing!PossessionStatus, First!PossessionStatus,
         Handing!HandoverStatus, First!HandoverStatus, Handing!DocumentStatus,
         First!DocumentStatus, Handing!TypeOK, First!TypeOK

LEMMA RacingTyped == Second!TypeOK => Racing!TypeOK
  BY DEF Racing!Finances, Second!Finances, Racing!Lasting, Second!Lasting, Racing!Condition,
         Second!Condition, Racing!Update, Second!Update, Racing!Stage, Second!Stage,
         Racing!AgreementStatus, Second!AgreementStatus, Racing!ProgressStatus,
         Second!ProgressStatus, Racing!SnagStatus, Second!SnagStatus, Racing!WorkflowStatus,
         Second!WorkflowStatus, Racing!PossessionStatus, Second!PossessionStatus,
         Racing!HandoverStatus, Second!HandoverStatus, Racing!DocumentStatus,
         Second!DocumentStatus, Racing!TypeOK, Second!TypeOK

LEMMA ServingTyped == First!Service!TypeOK => Serving!TypeOK
  BY DEF Serving!CategoryStatus, First!Service!CategoryStatus, Serving!Statuses,
         First!Service!Statuses, Serving!EscalationStatus, First!Service!EscalationStatus,
         Serving!Time, First!Service!Time, Serving!InOrder, First!Service!InOrder,
         Serving!TypeOK, First!Service!TypeOK

LEMMA AnsweringTyped == Second!Service!TypeOK => Answering!TypeOK
  BY DEF Answering!CategoryStatus, Second!Service!CategoryStatus, Answering!Statuses,
         Second!Service!Statuses, Answering!EscalationStatus, Second!Service!EscalationStatus,
         Answering!Time, Second!Service!Time, Answering!InOrder, Second!Service!InOrder,
         Answering!TypeOK, Second!Service!TypeOK

LEMMA MovingTyped == Moves!SalesTypeOK => Moving!SalesTypeOK
  <1>1. /\ Moving!UnitStatus = Moves!UnitStatus /\ Moving!HoldType = Moves!HoldType
        /\ Moving!HoldStatus = Moves!HoldStatus
        /\ Moving!BookingStatus = Moves!BookingStatus
        /\ Moving!ApprovalStatus = Moves!ApprovalStatus
    BY DEF Moving!HoldType, Moves!HoldType, Moving!UnitStatus, Moves!UnitStatus,
           Moving!Reserving, Moves!Reserving, Moving!HoldStatus, Moves!HoldStatus, Moving!Open,
           Moves!Open, Moving!Final, Moves!Final, Moving!BookingStatus, Moves!BookingStatus,
           Moving!ApprovalStatus, Moves!ApprovalStatus
  <1>2. Moving!HoldRow = Moves!HoldRow
    BY <1>1 DEF Moving!HoldRow, Moves!HoldRow
  <1>3. Moving!BookingRow = Moves!BookingRow
    BY <1>1 DEF Moving!BookingRow, Moves!BookingRow
  <1>4. Moving!ApprovalRow = Moves!ApprovalRow
    BY <1>1 DEF Moving!ApprovalRow, Moves!ApprovalRow
  <1>5. Moving!ReadView = Moves!ReadView
    BY <1>1, <1>3, <1>4 DEF Moving!ReadView, Moves!ReadView
  <1>6. Moves!TypeOK => Moving!TypeOK
    BY <1>1, <1>2, <1>3, <1>4, <1>5 DEF Moving!TypeOK, Moves!TypeOK
  <1>7. Moving!TransferRow = Moves!TransferRow /\ Moving!CancellationRow = Moves!CancellationRow
    BY DEF Moving!WorkflowStatus, Moves!WorkflowStatus, Moving!TransferRow, Moves!TransferRow,
           Moving!CancellationRow, Moves!CancellationRow
  <1> QED BY <1>6, <1>7 DEF Moving!SalesTypeOK, Moves!SalesTypeOK

LEMMA ReturningTyped == Returns!SalesTypeOK => Returning!SalesTypeOK
  <1>1. /\ Returning!UnitStatus = Returns!UnitStatus /\ Returning!HoldType = Returns!HoldType
        /\ Returning!HoldStatus = Returns!HoldStatus
        /\ Returning!BookingStatus = Returns!BookingStatus
        /\ Returning!ApprovalStatus = Returns!ApprovalStatus
    BY DEF Returning!HoldType, Returns!HoldType, Returning!UnitStatus, Returns!UnitStatus,
           Returning!Reserving, Returns!Reserving, Returning!HoldStatus, Returns!HoldStatus,
           Returning!Open, Returns!Open, Returning!Final, Returns!Final,
           Returning!BookingStatus, Returns!BookingStatus, Returning!ApprovalStatus,
           Returns!ApprovalStatus
  <1>2. Returning!HoldRow = Returns!HoldRow
    BY <1>1 DEF Returning!HoldRow, Returns!HoldRow
  <1>3. Returning!BookingRow = Returns!BookingRow
    BY <1>1 DEF Returning!BookingRow, Returns!BookingRow
  <1>4. Returning!ApprovalRow = Returns!ApprovalRow
    BY <1>1 DEF Returning!ApprovalRow, Returns!ApprovalRow
  <1>5. Returning!ReadView = Returns!ReadView
    BY <1>1, <1>3, <1>4 DEF Returning!ReadView, Returns!ReadView
  <1>6. Returns!TypeOK => Returning!TypeOK
    BY <1>1, <1>2, <1>3, <1>4, <1>5 DEF Returning!TypeOK, Returns!TypeOK
  <1>7. /\ Returning!TransferRow = Returns!TransferRow
        /\ Returning!CancellationRow = Returns!CancellationRow
    BY DEF Returning!WorkflowStatus, Returns!WorkflowStatus, Returning!TransferRow,
           Returns!TransferRow, Returning!CancellationRow, Returns!CancellationRow
  <1> QED BY <1>6, <1>7 DEF Returning!SalesTypeOK, Returns!SalesTypeOK

-----------------------------------------------------------------------------
(***************************************************************************)
(* The run's behaviours: a step is at the desk, and leaves the rows of the *)
(* others as they are.                                                     *)
(***************************************************************************)
all == <<desk, rentalVars, caseVars, ticketVars, saleVars>>

LEMMA DeskStays ==
    ASSUME [Next]_all
    PROVE  /\ desk' = desk
           /\ desk \in Rentals => UNCHANGED rentalVars \/ RentalNext
           /\ desk \in Cases => UNCHANGED caseVars \/ CaseNext
           /\ desk \in Tickets => UNCHANGED ticketVars \/ TicketNext
           /\ desk \in Sales => UNCHANGED saleVars \/ SaleNext
  BY DEF all, Next, RentalNext, CaseNext, TicketNext, SaleNext

LEMMA FirstSteps ==
    ASSUME [Next]_all
    PROVE  /\ desk = "handing" => [First!Step]_(First!vars)
           /\ desk = "serving" => [First!Service!Step]_(First!Service!vars)
           /\ desk = "letting" => [First!Rental!Step]_(First!Rental!vars)
  <1>1. ASSUME desk = "handing" PROVE [First!Step]_(First!vars)
    BY <1>1, DeskStays, HandingSteps
       DEF Cases, CaseNext, caseVars, First!vars, First!dossier, First!vouching,
           First!ending
  <1>2. ASSUME desk = "serving" PROVE [First!Service!Step]_(First!Service!vars)
    BY <1>2, DeskStays, ServingSteps
       DEF Tickets, TicketNext, ticketVars, First!Service!vars, First!Service!settings
  <1>3. ASSUME desk = "letting" PROVE [First!Rental!Step]_(First!Rental!vars)
    BY <1>3, DeskStays, LettingSteps
       DEF Rentals, RentalNext, rentalVars, First!Rental!vars, First!Rental!money,
           First!Rental!workflow
  <1> QED BY <1>1, <1>2, <1>3

LEMMA SecondSteps ==
    ASSUME [Next]_all
    PROVE  /\ desk = "racing" => [Second!Next]_(Second!vars)
           /\ desk = "answering" => [Second!Service!Next]_(Second!Service!vars)
           /\ desk = "renewing" => [Second!Rental!Step]_(Second!Rental!vars)
  <1>1. ASSUME desk = "racing" PROVE [Second!Next]_(Second!vars)
    BY <1>1, DeskStays, RacingSteps
       DEF Cases, CaseNext, caseVars, Second!vars, Second!dossier, Second!vouching,
           Second!ending
  <1>2. ASSUME desk = "answering" PROVE [Second!Service!Next]_(Second!Service!vars)
    BY <1>2, DeskStays, AnsweringSteps
       DEF Tickets, TicketNext, ticketVars, Second!Service!vars, Second!Service!settings
  <1>3. ASSUME desk = "renewing" PROVE [Second!Rental!Step]_(Second!Rental!vars)
    BY <1>3, DeskStays, RenewingSteps
       DEF Rentals, RentalNext, rentalVars, Second!Rental!vars, Second!Rental!money,
           Second!Rental!workflow
  <1> QED BY <1>1, <1>2, <1>3

LEMMA ThirdSteps ==
    ASSUME [Next]_all
    PROVE  desk = "collecting" => [Third!Rental!Next]_(Third!Rental!vars)
  BY DeskStays, CollectingSteps
     DEF Rentals, RentalNext, rentalVars, Third!Rental!vars, Third!Rental!money,
         Third!Rental!workflow

LEMMA SaleSteps ==
    ASSUME [Next]_all
    PROVE  /\ desk = "moving" => [Moves!SalesNext]_<<Moves!vars, transfer, cancellation>>
           /\ desk = "returning" => [Returns!SalesNext]_<<Returns!vars, transfer, cancellation>>
  BY DeskStays, MovingSteps, ReturningSteps
     DEF Sales, SaleNext, saleVars, Moves!vars, Moves!rows, Returns!vars, Returns!rows

LEMMA Conditions ==
    /\ None \notin Override
    /\ {"NO_OUTSTANDING"} \cap First!Lasting = {} /\ {} \cap Second!Lasting = {}
  BY PremisesAssumption DEF First!Lasting, Second!Lasting

LEMMA Dates == First!MinutesApart /\ Second!MinutesApart /\ First!TermsDated /\ Second!TermsDated
  BY PremisesAssumption
     DEF First!MinutesApart, Second!MinutesApart, First!TermsDated, Second!TermsDated,
         Deadlines, Short, Long

(* The days before the months, and the terms in them.                      *)
LEMMA Calendars == First!RentTerms /\ Second!RentTerms /\ Third!RentTerms
  <1>1. /\ Months \in Seq(Nat) /\ Len(Months) = 6 /\ DOMAIN Months = 1..6
        /\ Months[1] = 0 /\ Months[2] = 31 /\ Months[3] = 59 /\ Months[4] = 90
        /\ Months[5] = 120 /\ Months[6] = 151
    BY DEF Months
  <1>2. \A m, n \in DOMAIN Months : m < n => Months[m] < Months[n]
    BY <1>1
  <1>3. First!CalendarRuns /\ Second!CalendarRuns /\ Third!CalendarRuns
    BY <1>1, <1>2 DEF First!CalendarRuns, Second!CalendarRuns, Third!CalendarRuns
  <1>4. First!Horizon = 120 /\ Second!Horizon = 120 /\ Third!Horizon = 120
    BY <1>1 DEF First!Horizon, Second!Horizon, Third!Horizon
  <1>5. First!Calendared /\ Second!Calendared /\ Third!Calendared
    BY <1>3, <1>4 DEF First!Calendared, Second!Calendared, Third!Calendared, Long, Short
  <1>6. First!IsFiniteSet({}) /\ Second!IsFiniteSet({})
    BY First!FS_EmptySet, Second!FS_EmptySet
  <1>7. Third!IsFiniteSet(Pair)
    BY PremisesAssumption DEF IsFiniteSet, Third!IsFiniteSet
  <1> QED BY <1>5, <1>6, <1>7 DEF First!RentTerms, Second!RentTerms, Third!RentTerms

LEMMA Nulls ==
    /\ 1 \in Nat \ {0} /\ None \notin Another \cup Tenant \cup {"a1", "a2"} /\ {} = {}
    /\ Pair \cap Single = {} /\ Single \cap Pair = {}
  BY PremisesAssumption

-----------------------------------------------------------------------------
(* Possession is offered, scheduled and completed on what was met or       *)
(* overridden, whatever requests read (_authorized_readiness).             *)
THEOREM PremisesVouched == Spec => []PossessionVouched
  <1> DEFINE IInv == (desk = "handing" => First!Inv) /\ (desk = "racing" => Second!Inv)
  <1>1. Init => IInv
    BY HandingStarts, RacingStarts, First!InvStart, Second!InvStart DEF Init
  <1>2. ASSUME IInv, [Next]_all PROVE IInv'
    <2>1. ASSUME desk = "handing" PROVE First!Inv'
      BY <1>2, <2>1, FirstSteps, Conditions, First!InvStep DEF First!Next
    <2>2. ASSUME desk = "racing" PROVE Second!Inv'
      BY <1>2, <2>2, SecondSteps, Conditions, Second!InvStep
    <2> QED BY <1>2, <2>1, <2>2, DeskStays
  <1>3. IInv => PossessionVouched
    BY Conditions, First!InvVouches, Second!InvVouches, HandingPossessionVouched,
       RacingPossessionVouched DEF PossessionVouched
  <1> QED BY <1>1, <1>2, <1>3, PTL DEF Spec, all

(* One request after the other, a case's stage tells of its possession and *)
(* its handover (_sync_stage).                                             *)
THEOREM PremisesStages == Spec => []StageTells
  <1> DEFINE IInv == desk = "handing" => First!StageInv
  <1>1. Init => IInv
    BY HandingStarts, First!StageStart DEF Init
  <1>2. ASSUME IInv, [Next]_all PROVE IInv'
    <2>1. ASSUME desk = "handing" PROVE First!StageInv'
      BY <1>2, <2>1, FirstSteps, First!StageStep
    <2> QED BY <1>2, <2>1, DeskStays
  <1>3. IInv => StageTells
    BY First!StageShows, HandingStageTells DEF StageTells
  <1> QED BY <1>1, <1>2, <1>3, PTL DEF Spec, all

(* The list of tickets in breach agrees with their pages, whatever         *)
(* requests read.                                                          *)
THEOREM PremisesDeadlines == Spec => []DeadlinesAgree
  <1> DEFINE IInv == /\ desk = "serving" => First!ServiceInv
                     /\ desk = "answering" => Second!ServiceInv
  <1>1. Init => IInv
    BY Dates, ServingStarts, AnsweringStarts, First!ServiceStart, Second!ServiceStart
       DEF Init
  <1>2. ASSUME IInv, [Next]_all PROVE IInv'
    <2>1. ASSUME desk = "serving" PROVE First!ServiceInv'
      BY <1>2, <2>1, Dates, FirstSteps, First!ServiceStep DEF First!Service!Next
    <2>2. ASSUME desk = "answering" PROVE Second!ServiceInv'
      BY <1>2, <2>2, Dates, SecondSteps, Second!ServiceStep
    <2> QED BY <1>2, <2>1, <2>2, DeskStays
  <1>3. IInv => DeadlinesAgree
    BY First!ServiceShows, Second!ServiceShows, ServingDeadlinesAgree,
       AnsweringDeadlinesAgree
       DEF DeadlinesAgree
  <1> QED BY <1>1, <1>2, <1>3, PTL DEF Spec, all

(* One request after the other, a ticket shows as escalated exactly while  *)
(* one escalation of it awaits its end.                                    *)
THEOREM PremisesEscalations == Spec => []EscalationsAgree
  <1> DEFINE IInv == desk = "serving" => First!SerialInv
  <1>1. Init => IInv
    BY Dates, ServingStarts, First!SerialStart DEF Init
  <1>2. ASSUME IInv, [Next]_all PROVE IInv'
    <2>1. ASSUME desk = "serving" PROVE First!SerialInv'
      BY <1>2, <2>1, Dates, FirstSteps, First!SerialStep
    <2> QED BY <1>2, <2>1, DeskStays
  <1>3. IInv => EscalationsAgree
    BY First!SerialShows, ServingEscalationsAgree DEF EscalationsAgree
  <1> QED BY <1>1, <1>2, <1>3, PTL DEF Spec, all

(* One request after the other, who has a property or a unit has it alone, *)
(* and it does not look free: tenants from the signature to the move out,  *)
(* sales wherever transfers took them.                                     *)
THEOREM PremisesOccupied == Spec => []OccupantsAgree
  <1> DEFINE IInv == /\ desk = "letting" => First!RentalInv
                     /\ desk = "renewing" => Second!RentalInv
                     /\ desk = "moving" => Moves!SalesInv
                     /\ desk = "returning" => Returns!SalesInv
  <1>1. Init => IInv
    <2>1. Init => /\ desk = "letting" => First!RentalInv
                  /\ desk = "renewing" => Second!RentalInv
      BY LettingStarts, RenewingStarts, First!RentalStart, Second!RentalStart DEF Init
    <2>2. Init => /\ desk = "moving" => Moves!SalesInv
                  /\ desk = "returning" => Returns!SalesInv
      BY Nulls, MovingStarts, ReturningStarts, Moves!SalesInvInit, Returns!SalesInvInit
         DEF Init
    <2> QED BY <2>1, <2>2
  <1>2. ASSUME IInv, [Next]_all PROVE IInv'
    <2>1. ASSUME desk = "letting" PROVE First!RentalInv'
      BY <1>2, <2>1, Dates, FirstSteps, First!RentalStep
    <2>2. ASSUME desk = "renewing" PROVE Second!RentalInv'
      BY <1>2, <2>2, Dates, SecondSteps, Second!RentalStep
    <2>3. ASSUME desk = "moving" PROVE Moves!SalesInv'
      BY <1>2, <2>3, Nulls, SaleSteps, Moves!SalesInvStep
    <2>4. ASSUME desk = "returning" PROVE Returns!SalesInv'
      BY <1>2, <2>4, Nulls, SaleSteps, Returns!SalesInvStep
    <2> QED BY <1>2, <2>1, <2>2, <2>3, <2>4, DeskStays
  <1>3. IInv => OccupantsAgree
    <2>1. IInv => /\ desk = "letting" => Letting!OccupantsAgree
                  /\ desk = "renewing" => Renewing!OccupantsAgree
      BY First!RentalShows, Second!RentalShows, LettingOccupantsAgree,
         RenewingOccupantsAgree
    <2>2. IInv => /\ desk = "moving" => Moving!SalesKept
                  /\ desk = "returning" => Returning!SalesKept
      BY Nulls, Moves!SalesInvShows, Returns!SalesInvShows, MovingSalesKept,
         ReturningSalesKept
    <2> QED BY <2>1, <2>2 DEF OccupantsAgree
  <1> QED BY <1>1, <1>2, <1>3, PTL DEF Spec, all

(* Every day of a lease is in one period of its schedule, the requests     *)
(* following one another; and the rent of a period is paid once, whatever  *)
(* they read (_append_schedule, submit_payment, decide_payment).           *)
THEOREM PremisesRent == Spec => []RentStands
  <1> DEFINE IInv == /\ desk = "renewing" => Second!TermsInv
                     /\ desk = "collecting" => Third!TermsInv
  <1>1. Init => IInv
    BY Calendars, RenewingStarts, CollectingStarts, Second!TermsStart, Third!TermsStart DEF Init
  <1>2. ASSUME IInv, [Next]_all PROVE IInv'
    <2>1. ASSUME desk = "renewing" PROVE Second!TermsInv'
      BY <1>2, <2>1, Calendars, SecondSteps, Second!TermsStep
    <2>2. ASSUME desk = "collecting" PROVE Third!TermsInv'
      BY <1>2, <2>2, Calendars, ThirdSteps, Third!TermsStep
    <2> QED BY <1>2, <2>1, <2>2, DeskStays
  <1>3. IInv => RentStands
    <2>1. Third!TermsInv => Third!RentInv
      BY DEF Third!TermsInv
    <2> QED BY <2>1, Second!TermsShow, Third!TermsShow, Third!RentShows, RenewingTermsTiled,
               CollectingTermsTiled, CollectingRentAddsUp
               DEF RentStands
  <1> QED BY <1>1, <1>2, <1>3, PTL DEF Spec, all

(* The rows of each component are of their types, and refer to rows that   *)
(* are there, whatever requests read where they may read what is old.      *)
THEOREM PremisesTyped == Spec => []TypeOK
  <1> DEFINE Lets == /\ desk = "letting" => First!RentInv
                     /\ desk = "renewing" => Second!RentInv
                     /\ desk = "collecting" => Third!RentInv
             Hands == /\ desk = "handing" => First!CaseInv
                      /\ desk = "racing" => Second!CaseInv
             Serves == /\ desk = "serving" => First!ServiceInv
                       /\ desk = "answering" => Second!ServiceInv
             Sells == /\ desk = "moving" => Moves!SalesInv
                      /\ desk = "returning" => Returns!SalesInv
             At == desk \in Rentals \cup Cases \cup Tickets \cup Sales
             IInv == At /\ Lets /\ Hands /\ Serves /\ Sells
  <1>1. Init => IInv
    <2>1. Init => At
      BY DEF Init
    <2>2. Init => Lets
      BY Calendars, LettingStarts, RenewingStarts, CollectingStarts, First!RentStart,
         Second!RentStart, Third!RentStart DEF Init
    <2>3. Init => Hands
      BY HandingStarts, RacingStarts, First!CaseStart, Second!CaseStart DEF Init
    <2>4. Init => Serves
      BY Dates, ServingStarts, AnsweringStarts, First!ServiceStart, Second!ServiceStart
         DEF Init
    <2>5. Init => Sells
      BY Nulls, MovingStarts, ReturningStarts, Moves!SalesInvInit, Returns!SalesInvInit
         DEF Init
    <2> QED BY <2>1, <2>2, <2>3, <2>4, <2>5
  <1>2. ASSUME IInv, [Next]_all PROVE IInv'
    <2>0. /\ First!Rental!Step => First!Rental!Next
          /\ Second!Rental!Step => Second!Rental!Next
          /\ First!Step => First!Next
          /\ First!Service!Step => First!Service!Next
      BY DEF First!Rental!Next, Second!Rental!Next, First!Next, First!Service!Next
    <2>1. ASSUME desk = "letting" PROVE First!RentInv'
      BY <1>2, <2>0, <2>1, Calendars, FirstSteps, First!RentStep
    <2>2. ASSUME desk = "renewing" PROVE Second!RentInv'
      BY <1>2, <2>0, <2>2, Calendars, SecondSteps, Second!RentStep
    <2>3. ASSUME desk = "collecting" PROVE Third!RentInv'
      BY <1>2, <2>3, Calendars, ThirdSteps, Third!RentStep
    <2>4. ASSUME desk = "handing" PROVE First!CaseInv'
      BY <1>2, <2>0, <2>4, Conditions, FirstSteps, First!CaseStep
    <2>5. ASSUME desk = "racing" PROVE Second!CaseInv'
      BY <1>2, <2>5, Conditions, SecondSteps, Second!CaseStep
    <2>6. ASSUME desk = "serving" PROVE First!ServiceInv'
      BY <1>2, <2>0, <2>6, Dates, FirstSteps, First!ServiceStep
    <2>7. ASSUME desk = "answering" PROVE Second!ServiceInv'
      BY <1>2, <2>7, Dates, SecondSteps, Second!ServiceStep
    <2>8. ASSUME desk = "moving" PROVE Moves!SalesInv'
      BY <1>2, <2>8, Nulls, SaleSteps, Moves!SalesInvStep
    <2>9. ASSUME desk = "returning" PROVE Returns!SalesInv'
      BY <1>2, <2>9, Nulls, SaleSteps, Returns!SalesInvStep
    <2> QED BY <1>2, <2>1, <2>2, <2>3, <2>4, <2>5, <2>6, <2>7, <2>8, <2>9, DeskStays
  <1>3. IInv => TypeOK
    <2> SUFFICES ASSUME IInv PROVE TypeOK
      OBVIOUS
    <2>1. /\ desk = "letting" => Letting!TypeOK
          /\ desk = "renewing" => Renewing!TypeOK
          /\ desk = "collecting" => Collecting!TypeOK
      BY First!RentTypes, Second!RentTypes, Third!RentTypes, LettingTyped, RenewingTyped,
         CollectingTyped
    <2>2. /\ desk = "handing" => Handing!TypeOK
          /\ desk = "racing" => Racing!TypeOK
      BY First!CaseTyped, Second!CaseTyped, HandingTyped, RacingTyped
    <2>3. /\ desk = "serving" => Serving!TypeOK
          /\ desk = "answering" => Answering!TypeOK
      BY Dates, First!ServiceTyped, Second!ServiceTyped, ServingTyped, AnsweringTyped
    <2>4. /\ desk = "moving" => Moving!SalesTypeOK
          /\ desk = "returning" => Returning!SalesTypeOK
      BY Nulls, Moves!SalesTyped, Returns!SalesTyped, MovingTyped, ReturningTyped
    <2> QED BY <2>1, <2>2, <2>3, <2>4 DEF TypeOK, Rentals, Cases, Tickets, Sales
  <1> QED BY <1>1, <1>2, <1>3, PTL DEF Spec, all
=============================================================================
