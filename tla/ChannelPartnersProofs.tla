----------------------- MODULE ChannelPartnersProofs -----------------------
(***************************************************************************)
(* What holds of channel partners for any number of partners, contacts,    *)
(* bookings and payouts, and of concurrent requests whose read views may   *)
(* be as old as they like.                                                 *)
(***************************************************************************)
EXTENDS MCPartners, FiniteSetTheorems, TLAPS

(* The types of the rows.  What a payout's sum is worth is nobody's type   *)
(* here: it comes of a fold over the commissions.                          *)
PayoutRowOf(Amounts) ==
    [partner: Partner \cup {None}, status: PayoutStatus, amount: Amounts,
     members: SUBSET Booking]

Rows ==
    /\ partner \in [Partner -> PartnerStatus]
    /\ compliant \in SUBSET Partner
    /\ document \in [Document -> DocumentRow]
    /\ agreement \in [Agreement -> AgreementRow]
    /\ structure \in [Partner -> [Scope -> Structure]]
    /\ registration \in [Registration -> RegistrationRow]
    /\ booking \in [Booking -> BookingRow]
    /\ commission \in [Booking -> CommissionRow]
    /\ \E Amounts : payout \in [Payout -> PayoutRowOf(Amounts)]
    /\ \A s \in Session : /\ view[s].partner \in [Partner -> PartnerStatus]
                          /\ view[s].structure \in [Partner -> [Scope -> Structure]]
    /\ view = [s \in Session |-> view[s]]

-----------------------------------------------------------------------------
(* The ways a step can treat the rows of one table.                        *)

LEMMA RegistrationStep ==
    ASSUME [Next]_vars
    PROVE  \/ registration' = registration
           \/ \E r \in Registration : ProtectionEnds(r)
           \/ \E r \in Registration, p \in Partner, keys \in SUBSET Contact \ {{}} :
                 RegisterLead(r, p, keys)
  BY DEF Next, vars, vetting, money, Begin, VettingStep, TermsStep, SaleStep, PayoutStep,
         CreateApplication, StartDocumentVerification, CompleteDocumentVerification,
         SubmitApproval, DecideApproval, UpdateCompliance, Activate, SetOperationalStatus,
         MovePartner, UpdateAssignments, RequestDocument, UploadDocument, DecideDocument,
         SetDocument, CreateAgreement, UploadSignedAgreement, AgreementAges, SetAgreement,
         CreateCommissionStructure, StructureAges, CreateBooking, ConfirmBooking, EndBooking,
         CompleteCancellation, DecideCommission, RequestPayout, ApprovePayout, RejectPayout,
         ProcessPayout, SettleCommissions

LEMMA DocumentStep ==
    ASSUME [Next]_vars
    PROVE  \/ document' = document
           \/ \E v \in Views, d \in Document, p \in Partner : RequestDocument(v, d, p)
           \/ \E d \in Document : UploadDocument(d)
           \/ \E d \in Document, verdict \in {"VERIFIED", "REJECTED"} : DecideDocument(d, verdict)
  BY DEF Next, vars, vetting, money, Begin, VettingStep, TermsStep, SaleStep, PayoutStep,
         CreateApplication, StartDocumentVerification, CompleteDocumentVerification,
         SubmitApproval, DecideApproval, UpdateCompliance, Activate, SetOperationalStatus,
         MovePartner, UpdateAssignments,
         CreateAgreement, UploadSignedAgreement, AgreementAges, SetAgreement,
         CreateCommissionStructure, StructureAges, RegisterLead, ProtectionEnds,
         CreateBooking, ConfirmBooking, EndBooking,
         CompleteCancellation, DecideCommission, RequestPayout, ApprovePayout, RejectPayout,
         ProcessPayout, SettleCommissions

LEMMA AgreementStep ==
    ASSUME [Next]_vars
    PROVE  \/ agreement' = agreement
           \/ \E v \in Views, a \in Agreement, p \in Partner, w \in Windows :
                 CreateAgreement(v, a, p, w)
           \/ \E a \in Agreement : UploadSignedAgreement(a)
           \/ \E a \in Agreement : AgreementAges(a)
  BY DEF Next, vars, vetting, money, Begin, VettingStep, TermsStep, SaleStep, PayoutStep,
         CreateApplication, StartDocumentVerification, CompleteDocumentVerification,
         SubmitApproval, DecideApproval, UpdateCompliance, Activate, SetOperationalStatus,
         MovePartner, UpdateAssignments, RequestDocument, UploadDocument, DecideDocument,
         SetDocument,
         CreateCommissionStructure, StructureAges, RegisterLead, ProtectionEnds,
         CreateBooking, ConfirmBooking, EndBooking,
         CompleteCancellation, DecideCommission, RequestPayout, ApprovePayout, RejectPayout,
         ProcessPayout, SettleCommissions

LEMMA PartnerStep ==
    ASSUME [Next]_vars
    PROVE  \/ partner' = partner
           \/ \E p \in Partner :
                 \/ CreateApplication(p) \/ StartDocumentVerification(p)
                 \/ CompleteDocumentVerification(p) \/ SubmitApproval(p) \/ DecideApproval(p)
           \/ \E p \in Partner, v \in Views : Activate(v, p)
           \/ \E p \in Partner, status \in Operational : SetOperationalStatus(p, status)
  BY DEF Next, vars, vetting, money, Begin, VettingStep, TermsStep, SaleStep, PayoutStep,
         UpdateCompliance, UpdateAssignments, RequestDocument, UploadDocument, DecideDocument,
         SetDocument, CreateAgreement, UploadSignedAgreement, AgreementAges, SetAgreement,
         CreateCommissionStructure, StructureAges, RegisterLead, ProtectionEnds,
         CreateBooking, ConfirmBooking, EndBooking,
         CompleteCancellation, DecideCommission, RequestPayout, ApprovePayout, RejectPayout,
         ProcessPayout, SettleCommissions

LEMMA SaleSteps ==
    ASSUME [Next]_vars
    PROVE  \/ booking' = booking /\ commission' = commission /\ payout' = payout
           \/ \E v \in Views, b \in Booking, p \in Partner, j \in Project :
                 CreateBooking(v, b, p, j)
           \/ \E v \in Views, b \in Booking : ConfirmBooking(v, b)
           \/ \E b \in Booking : EndBooking(b) \/ CompleteCancellation(b) \/ DecideCommission(b)
           \/ PayoutStep
  BY DEF Next, vars, vetting, money, Begin, VettingStep, TermsStep, SaleStep,
         CreateApplication, StartDocumentVerification, CompleteDocumentVerification,
         SubmitApproval, DecideApproval, UpdateCompliance, Activate, SetOperationalStatus,
         MovePartner, UpdateAssignments, RequestDocument, UploadDocument, DecideDocument,
         SetDocument, CreateAgreement, UploadSignedAgreement, AgreementAges, SetAgreement,
         CreateCommissionStructure, StructureAges, RegisterLead, ProtectionEnds

LEMMA ViewStep ==
    ASSUME [Next]_vars
    PROVE  view' = view \/ \E s \in Session : view' = [view EXCEPT ![s] = Snapshot]
  BY DEF Next, vars, vetting, money, Begin, VettingStep, TermsStep, SaleStep, PayoutStep,
         CreateApplication, StartDocumentVerification, CompleteDocumentVerification,
         SubmitApproval, DecideApproval, UpdateCompliance, Activate, SetOperationalStatus,
         MovePartner, UpdateAssignments, RequestDocument, UploadDocument, DecideDocument,
         SetDocument, CreateAgreement, UploadSignedAgreement, AgreementAges, SetAgreement,
         CreateCommissionStructure, StructureAges, RegisterLead, ProtectionEnds,
         CreateBooking, ConfirmBooking, EndBooking,
         CompleteCancellation, DecideCommission, RequestPayout, ApprovePayout, RejectPayout,
         ProcessPayout, SettleCommissions

LEMMA StructureStep ==
    ASSUME [Next]_vars
    PROVE  \/ structure' = structure
           \/ \E p \in Partner, s \in Scope, rate \in Rates, w \in Windows :
                 CreateCommissionStructure(p, s, rate, w)
           \/ \E p \in Partner, s \in Scope : StructureAges(p, s)
  BY DEF Next, vars, vetting, money, Begin, VettingStep, TermsStep, SaleStep, PayoutStep,
         CreateApplication, StartDocumentVerification, CompleteDocumentVerification,
         SubmitApproval, DecideApproval, UpdateCompliance, Activate, SetOperationalStatus,
         MovePartner, UpdateAssignments, RequestDocument, UploadDocument, DecideDocument,
         SetDocument, CreateAgreement, UploadSignedAgreement, AgreementAges, SetAgreement,
         RegisterLead, ProtectionEnds, CreateBooking, ConfirmBooking, EndBooking,
         CompleteCancellation, DecideCommission, RequestPayout, ApprovePayout, RejectPayout,
         ProcessPayout, SettleCommissions

LEMMA ComplianceStep ==
    ASSUME Rows, [Next]_vars
    PROVE  compliant \subseteq compliant' /\ compliant' \in SUBSET Partner
  BY DEF Rows, Next, vars, vetting, money, Begin, VettingStep, TermsStep, SaleStep, PayoutStep,
         CreateApplication, StartDocumentVerification, CompleteDocumentVerification,
         SubmitApproval, DecideApproval, UpdateCompliance, Activate, SetOperationalStatus,
         MovePartner, UpdateAssignments, RequestDocument, UploadDocument, DecideDocument,
         SetDocument, CreateAgreement, UploadSignedAgreement, AgreementAges, SetAgreement,
         CreateCommissionStructure, StructureAges, RegisterLead, ProtectionEnds,
         CreateBooking, ConfirmBooking, EndBooking,
         CompleteCancellation, DecideCommission, RequestPayout, ApprovePayout, RejectPayout,
         ProcessPayout, SettleCommissions

-----------------------------------------------------------------------------
(* Protected contacts.                                                     *)

(* The keys of a registration outlive its protection, so they are apart    *)
(* whether it is in force or not.                                          *)
Apart ==
    /\ registration \in [Registration -> RegistrationRow]
    /\ \A q, r \in Registration : q # r => registration[q].keys \cap registration[r].keys = {}

LEMMA ApartStep ==
    ASSUME Apart, [Next]_vars PROVE Apart'
  <1>1. CASE registration' = registration
    BY <1>1 DEF Apart
  <1>2. ASSUME NEW r \in Registration, ProtectionEnds(r) PROVE Apart'
    <2>1. registration[r] \in RegistrationRow
      BY DEF Apart
    <2>2. registration' \in [Registration -> RegistrationRow]
      BY <1>2, <2>1 DEF Apart, ProtectionEnds, RegistrationRow
    <2>3. ASSUME NEW q \in Registration PROVE registration'[q].keys = registration[q].keys
      BY <1>2, <2>1 DEF Apart, ProtectionEnds, RegistrationRow
    <2> QED BY <2>2, <2>3 DEF Apart
  <1>3. ASSUME NEW r \in Registration, NEW p \in Partner, NEW keys \in SUBSET Contact \ {{}},
               RegisterLead(r, p, keys)
        PROVE  Apart'
    <2>1. registration' \in [Registration -> RegistrationRow]
      BY <1>3 DEF Apart, RegisterLead, RegistrationRow
    <2>2. registration'[r].keys = keys
      BY <1>3 DEF Apart, RegisterLead
    <2>3. ASSUME NEW q \in Registration, q # r PROVE registration'[q] = registration[q]
      BY <1>3, <2>3 DEF Apart, RegisterLead
    <2>4. \A q \in Registration : keys \cap registration[q].keys = {}
      BY <1>3 DEF RegisterLead
    <2> QED BY <2>1, <2>2, <2>3, <2>4 DEF Apart
  <1> QED BY <1>1, <1>2, <1>3, RegistrationStep

LEMMA ApartInit == Init => Apart
  BY DEF Init, Apart, RegistrationRow

(* Two registrations in force never share an address or a number,          *)
(* whichever partners register whichever leads (register_lead).            *)
THEOREM ProtectorCorrect == Spec => []OneProtector
  <1>1. Apart => OneProtector
    BY DEF Apart, OneProtector
  <1> QED BY <1>1, ApartInit, ApartStep, PTL DEF Spec

-----------------------------------------------------------------------------
(* The rows keep their types.                                              *)

LEMMA WindowLater == \A w \in Window : Later(w) \in Window
  BY DEF Window, Later

LEMMA ViewTypes ==
    ASSUME Rows, NEW v \in Views
    PROVE  /\ v.partner \in [Partner -> PartnerStatus]
           /\ v.structure \in [Partner -> [Scope -> Structure]]
  <1>1. CASE v = Snapshot
    BY <1>1 DEF Rows, Snapshot
  <1>2. ASSUME NEW s \in Session, v = view[s]
        PROVE  /\ v.partner \in [Partner -> PartnerStatus]
               /\ v.structure \in [Partner -> [Scope -> Structure]]
    BY <1>2 DEF Rows
  <1>3. v = Snapshot \/ \E s \in Session : v = view[s]
    BY DEF Views
  <1> QED BY <1>1, <1>2, <1>3

LEMMA PartnerRows == ASSUME Rows, [Next]_vars PROVE partner' \in [Partner -> PartnerStatus]
  <1>1. ASSUME NEW p \in Partner, NEW from, NEW to \in PartnerStatus, MovePartner(p, from, to)
        PROVE  partner' \in [Partner -> PartnerStatus]
    BY <1>1 DEF MovePartner, Rows
  <1>2. \/ partner' = partner
        \/ \E p \in Partner, from \in SUBSET PartnerStatus, to \in PartnerStatus :
              MovePartner(p, from, to)
    BY PartnerStep DEF CreateApplication, StartDocumentVerification,
       CompleteDocumentVerification, SubmitApproval, DecideApproval, Activate,
       SetOperationalStatus, PartnerStatus, Operational
  <1> QED BY <1>1, <1>2 DEF Rows

LEMMA DocumentRows == ASSUME Rows, [Next]_vars PROVE document' \in [Document -> DocumentRow]
  <1>0. document \in [Document -> DocumentRow]
    BY DEF Rows
  <1>1. ASSUME NEW v \in Views, NEW d \in Document, NEW p \in Partner, RequestDocument(v, d, p)
        PROVE  document' \in [Document -> DocumentRow]
    <2>1. [partner |-> p, status |-> "PENDING"] \in DocumentRow
      BY DEF DocumentRow, DocumentStatus
    <2> QED BY <1>0, <1>1, <2>1 DEF RequestDocument, SetDocument
  <1>2. ASSUME NEW d \in Document, NEW status \in {"UPLOADED", "VERIFIED", "REJECTED"},
               SetDocument(d, [document[d] EXCEPT !.status = status])
        PROVE  document' \in [Document -> DocumentRow]
    <2>1. [document[d] EXCEPT !.status = status] \in DocumentRow
      BY <1>0 DEF DocumentRow, DocumentStatus
    <2> QED BY <1>0, <1>2, <2>1 DEF SetDocument
  <1> QED BY <1>0, <1>1, <1>2, DocumentStep DEF UploadDocument, DecideDocument

LEMMA AgreementRows == ASSUME Rows, [Next]_vars PROVE agreement' \in [Agreement -> AgreementRow]
  <1>0. agreement \in [Agreement -> AgreementRow]
    BY DEF Rows
  <1>1. ASSUME NEW v \in Views, NEW a \in Agreement, NEW p \in Partner, NEW w \in Windows,
               CreateAgreement(v, a, p, w)
        PROVE  agreement' \in [Agreement -> AgreementRow]
    <2>1. [partner |-> p, status |-> "DRAFT", window |-> w] \in AgreementRow
      BY WindowsAssumption DEF AgreementRow, AgreementStatus
    <2> QED BY <1>0, <1>1, <2>1 DEF CreateAgreement, SetAgreement
  <1>2. ASSUME NEW a \in Agreement, UploadSignedAgreement(a)
        PROVE  agreement' \in [Agreement -> AgreementRow]
    <2>1. [agreement[a] EXCEPT !.status = "SIGNED"] \in AgreementRow
      BY <1>0 DEF AgreementRow, AgreementStatus
    <2> QED BY <1>0, <1>2, <2>1 DEF UploadSignedAgreement, SetAgreement
  <1>3. ASSUME NEW a \in Agreement, AgreementAges(a)
        PROVE  agreement' \in [Agreement -> AgreementRow]
    <2>1. [agreement[a] EXCEPT !.window = Later(@)] \in AgreementRow
      BY <1>0, WindowLater DEF AgreementRow
    <2> QED BY <1>0, <1>3, <2>1 DEF AgreementAges, SetAgreement
  <1> QED BY <1>0, <1>1, <1>2, <1>3, AgreementStep

LEMMA StructureRows ==
    ASSUME Rows, [Next]_vars PROVE structure' \in [Partner -> [Scope -> Structure]]
  <1>0. structure \in [Partner -> [Scope -> Structure]]
    BY DEF Rows
  <1>1. ASSUME NEW p \in Partner, NEW s \in Scope, NEW rate \in Rates, NEW w \in Windows,
               CreateCommissionStructure(p, s, rate, w)
        PROVE  structure' \in [Partner -> [Scope -> Structure]]
    <2>1. [rate |-> rate, window |-> w] \in Structure
      BY WindowsAssumption DEF Structure
    <2> QED BY <1>0, <1>1, <2>1 DEF CreateCommissionStructure
  <1>2. ASSUME NEW p \in Partner, NEW s \in Scope, StructureAges(p, s)
        PROVE  structure' \in [Partner -> [Scope -> Structure]]
    <2>1. structure[p][s] \in Structure
      BY <1>0
    <2>2. [structure[p][s] EXCEPT !.window = Later(@)] \in Structure
      BY <2>1, WindowLater DEF Structure
    <2>3. structure' = [structure EXCEPT ![p][s] = [structure[p][s] EXCEPT !.window = Later(@)]]
      BY <1>0, <1>2, <2>1 DEF StructureAges, Structure
    <2> QED BY <1>0, <2>2, <2>3
  <1> QED BY <1>0, <1>1, <1>2, StructureStep

LEMMA RegistrationRows ==
    ASSUME Rows, [Next]_vars PROVE registration' \in [Registration -> RegistrationRow]
  <1>0. registration \in [Registration -> RegistrationRow]
    BY DEF Rows
  <1>1. ASSUME NEW r \in Registration, ProtectionEnds(r)
        PROVE  registration' \in [Registration -> RegistrationRow]
    <2>1. [registration[r] EXCEPT !.protected = FALSE] \in RegistrationRow
      BY <1>0 DEF RegistrationRow
    <2> QED BY <1>0, <1>1, <2>1 DEF ProtectionEnds
  <1>2. ASSUME NEW r \in Registration, NEW p \in Partner, NEW keys \in SUBSET Contact \ {{}},
               RegisterLead(r, p, keys)
        PROVE  registration' \in [Registration -> RegistrationRow]
    <2>1. [partner |-> p, keys |-> keys, protected |-> TRUE] \in RegistrationRow
      BY DEF RegistrationRow
    <2> QED BY <1>0, <1>2, <2>1 DEF RegisterLead
  <1> QED BY <1>0, <1>1, <1>2, RegistrationStep

(* The ways a step can treat one booking and its commission.  A payout     *)
(* moves only commissions it has or is given.                              *)
BookingCourse(b) ==
    \/ booking'[b] = booking[b]
    \/ /\ booking[b].status = "NONE"
       /\ booking'[b].status = "OPEN"
       /\ \E v \in Views, p \in Partner : v.partner[p] = "ACTIVE" /\ booking'[b].partner = p
    \/ /\ booking'[b].partner = booking[b].partner
       /\ \/ booking[b].status = "OPEN" /\ booking'[b].status \in {"CONFIRMED", "CANCELLED"}
          \/ booking[b].status = "CONFIRMED" /\ booking'[b].status = "CANCELLED"

LEMMA BookingRows ==
    ASSUME Rows, [Next]_vars
    PROVE  /\ booking' \in [Booking -> BookingRow]
           /\ \A b \in Booking : BookingCourse(b)
  <1> DEFINE Goal == /\ booking' \in [Booking -> BookingRow]
                     /\ \A b \in Booking : BookingCourse(b)
  <1>0. booking \in [Booking -> BookingRow]
    BY DEF Rows
  <1>1. CASE booking' = booking
    BY <1>0, <1>1 DEF BookingCourse
  <1>2. ASSUME NEW v \in Views, NEW c \in Booking, NEW p \in Partner, NEW j \in Project,
               CreateBooking(v, c, p, j)
        PROVE  Goal
    <2> DEFINE row == [partner |-> p, project |-> j, status |-> "OPEN"]
    <2>1. row \in BookingRow
      BY DEF BookingRow, Scope
    <2>2. booking' = [booking EXCEPT ![c] = row]
      BY <1>2 DEF CreateBooking
    <2>3. booking' \in [Booking -> BookingRow] /\ booking'[c] = row
          /\ \A b \in Booking : b # c => booking'[b] = booking[b]
      BY <1>0, <2>1, <2>2
    <2> QED BY <1>2, <2>3 DEF BookingCourse, CreateBooking
  <1>3. ASSUME NEW c \in Booking, NEW s \in {"CONFIRMED", "CANCELLED"},
               booking' = [booking EXCEPT ![c].status = s],
               \/ booking[c].status = "OPEN"
               \/ booking[c].status = "CONFIRMED" /\ s = "CANCELLED"
        PROVE  Goal
    <2> DEFINE row == [booking[c] EXCEPT !.status = s]
    <2>1. row \in BookingRow /\ row.status = s /\ row.partner = booking[c].partner
      BY <1>0 DEF BookingRow
    <2>2. booking' \in [Booking -> BookingRow] /\ booking'[c] = row
          /\ \A b \in Booking : b # c => booking'[b] = booking[b]
      BY <1>0, <1>3, <2>1
    <2> QED BY <1>3, <2>1, <2>2 DEF BookingCourse
  <1>4. ASSUME PayoutStep PROVE booking' = booking
    BY <1>4 DEF PayoutStep, RequestPayout, ApprovePayout, RejectPayout, ProcessPayout,
                SettleCommissions
  <1>5. ASSUME NEW v \in Views, NEW c \in Booking, ConfirmBooking(v, c) PROVE Goal
    BY <1>3, <1>5 DEF ConfirmBooking
  <1>6. ASSUME NEW c \in Booking, EndBooking(c) \/ CompleteCancellation(c) PROVE Goal
    BY <1>3, <1>6 DEF EndBooking, CompleteCancellation
  <1>7. ASSUME NEW c \in Booking, DecideCommission(c) PROVE booking' = booking
    BY <1>7 DEF DecideCommission, SettleCommissions
  <1> QED BY <1>1, <1>2, <1>4, <1>5, <1>6, <1>7, SaleSteps

LEMMA ViewRows ==
    ASSUME Rows, [Next]_vars
    PROVE  /\ \A s \in Session : /\ view'[s].partner \in [Partner -> PartnerStatus]
                                 /\ view'[s].structure \in [Partner -> [Scope -> Structure]]
           /\ view' = [s \in Session |-> view'[s]]
  <1>1. CASE view' = view
    BY <1>1 DEF Rows
  <1>2. ASSUME NEW t \in Session, view' = [view EXCEPT ![t] = Snapshot]
        PROVE  /\ \A s \in Session : /\ view'[s].partner \in [Partner -> PartnerStatus]
                                     /\ view'[s].structure \in [Partner -> [Scope -> Structure]]
               /\ view' = [s \in Session |-> view'[s]]
    <2>1. \A s \in Session : view'[s] = IF s = t THEN Snapshot ELSE view[s]
      BY <1>2 DEF Rows
    <2> QED BY <1>2, <2>1 DEF Rows, Snapshot
  <1> QED BY <1>1, <1>2, ViewStep

LEMMA ApplicableRate ==
    ASSUME Rows, NEW v \in Views, NEW b \in Booking, booking[b].partner \in Partner,
           NEW s \in Applicable(v, b)
    PROVE  s.rate \in Nat
  <1>1. v.structure[booking[b].partner] \in [Scope -> Structure]
    BY ViewTypes
  <1>2. booking[b].project \in Scope /\ None \in Scope
    BY DEF Rows, BookingRow, Scope
  <1>3. s \in Structure /\ InForce(s)
    BY <1>1, <1>2 DEF Applicable
  <1> QED BY <1>3, RatesAssumption DEF Structure, InForce

(* The ways a step can treat one commission.                               *)
CommissionCourse(b) ==
    \/ /\ booking[b].status = "OPEN" /\ booking'[b].status = "CONFIRMED"
       /\ commission'[b].status = "ELIGIBLE" /\ commission'[b].payout = None
    \/ /\ commission'[b].amount = commission[b].amount
       /\ \/ /\ commission'[b] = commission[b]
             /\ booking'[b] = booking[b] \/ booking[b].status \in {"NONE", "OPEN"}
          \/ /\ booking[b].status = "CONFIRMED"
             /\ commission'[b].status = "REVERSED"
             /\ commission'[b].payout = commission[b].payout
          \/ /\ booking'[b] = booking[b]
             /\ commission[b].status = "ELIGIBLE" /\ commission[b].payout = None
             /\ commission'[b].status \in {"APPROVED", "REVERSED"}
             /\ commission'[b].payout = None
          \/ /\ booking'[b] = booking[b]
             /\ commission[b].status = "APPROVED" /\ commission[b].payout = None
             /\ commission'[b].status = "APPROVED"
          \/ /\ booking'[b] = booking[b]
             /\ commission[b].payout # None /\ commission'[b].payout = commission[b].payout
             /\ commission'[b].status = "PAID"
          \/ /\ booking'[b] = booking[b]
             /\ commission'[b].status = commission[b].status /\ commission'[b].payout = None

(* A booking of which there is a row has its partner.                      *)
Sold == \A b \in Booking : booking[b].status # "NONE" => booking[b].partner \in Partner

LEMMA CommissionRows ==
    ASSUME Rows, Sold, [Next]_vars
    PROVE  /\ commission' \in [Booking -> CommissionRow]
           /\ \A b \in Booking : CommissionCourse(b)
  <1> DEFINE Goal == /\ commission' \in [Booking -> CommissionRow]
                     /\ \A b \in Booking : CommissionCourse(b)
  <1>0. commission \in [Booking -> CommissionRow] /\ booking \in [Booking -> BookingRow]
    BY DEF Rows
  <1>1. CASE commission' = commission /\ booking' = booking
    BY <1>0, <1>1 DEF CommissionCourse
  <1>2. ASSUME NEW v \in Views, NEW c \in Booking, ConfirmBooking(v, c) PROVE Goal
    <2>1. PICK s \in Applicable(v, c) :
             commission' = [commission EXCEPT ![c] =
                               [status |-> "ELIGIBLE", amount |-> s.rate, payout |-> None]]
      BY <1>2 DEF ConfirmBooking
    <2>2. booking[c].status = "OPEN" /\ booking'[c].status = "CONFIRMED"
      BY <1>0, <1>2 DEF ConfirmBooking, BookingRow
    <2>3. s.rate \in Nat
      BY <2>2, ApplicableRate DEF Sold
    <2> DEFINE row == [status |-> "ELIGIBLE", amount |-> s.rate, payout |-> None]
    <2>4. row \in CommissionRow
      BY <2>3 DEF CommissionRow, CommissionStatus
    <2>5. commission' \in [Booking -> CommissionRow] /\ commission'[c] = row
          /\ \A b \in Booking : b # c => commission'[b] = commission[b]
      BY <1>0, <2>1, <2>4
    <2>6. \A b \in Booking : b # c => booking'[b] = booking[b]
      BY <1>0, <1>2 DEF ConfirmBooking
    <2> QED BY <2>2, <2>5, <2>6 DEF CommissionCourse
  <1>3. ASSUME NEW c \in Booking, CompleteCancellation(c) PROVE Goal
    <2> DEFINE row == [commission[c] EXCEPT !.status = "REVERSED"]
    <2>1. row \in CommissionRow /\ row.status = "REVERSED" /\ row.payout = commission[c].payout
          /\ row.amount = commission[c].amount
      BY <1>0 DEF CommissionRow, CommissionStatus
    <2>2. commission' \in [Booking -> CommissionRow] /\ commission'[c] = row
          /\ \A b \in Booking : b # c => commission'[b] = commission[b]
      BY <1>0, <1>3, <2>1 DEF CompleteCancellation
    <2>3. \A b \in Booking : b # c => booking'[b] = booking[b]
      BY <1>0, <1>3 DEF CompleteCancellation
    <2> QED BY <1>3, <2>1, <2>2, <2>3 DEF CommissionCourse, CompleteCancellation
  <1>4. ASSUME NEW c \in Booking, DecideCommission(c) PROVE Goal
    <2>1. PICK verdict \in {"APPROVED", "REVERSED"} :
             SettleCommissions([commission EXCEPT ![c].status = verdict], payout)
      BY <1>4 DEF DecideCommission
    <2> DEFINE row == [commission[c] EXCEPT !.status = verdict]
    <2>2. row \in CommissionRow /\ row.status = verdict /\ row.payout = commission[c].payout
          /\ row.amount = commission[c].amount
      BY <1>0 DEF CommissionRow, CommissionStatus
    <2>3. commission' \in [Booking -> CommissionRow] /\ commission'[c] = row
          /\ \A b \in Booking : b # c => commission'[b] = commission[b]
      BY <1>0, <2>1, <2>2 DEF SettleCommissions
    <2>4. booking' = booking /\ commission[c].status = "ELIGIBLE" /\ commission[c].payout = None
      BY <1>4, <2>1 DEF DecideCommission, SettleCommissions
    <2> QED BY <2>2, <2>3, <2>4 DEF CommissionCourse
  <1>5. ASSUME NEW o \in Payout, NEW p \in Partner, NEW S \in SUBSET Booking,
               RequestPayout(o, p, S)
        PROVE  Goal
    <2>1. ASSUME NEW b \in Booking
          PROVE  /\ [commission[b] EXCEPT !.payout = o] \in CommissionRow
                 /\ [commission[b] EXCEPT !.payout = o].status = commission[b].status
                 /\ [commission[b] EXCEPT !.payout = o].amount = commission[b].amount
      BY <1>0 DEF CommissionRow
    <2>2. commission' = [b \in Booking |-> IF b \in S THEN [commission[b] EXCEPT !.payout = o]
                                                      ELSE commission[b]]
          /\ booking' = booking
      BY <1>5 DEF RequestPayout, SettleCommissions
    <2>3. \A b \in S : commission[b].status = "APPROVED" /\ commission[b].payout = None
      BY <1>5 DEF RequestPayout, Payable
    <2> QED BY <1>0, <2>1, <2>2, <2>3 DEF CommissionCourse
  <1>6. ASSUME NEW o \in Payout, RejectPayout(o) PROVE Goal
    <2>1. ASSUME NEW b \in Booking
          PROVE  /\ [commission[b] EXCEPT !.payout = None] \in CommissionRow
                 /\ [commission[b] EXCEPT !.payout = None].status = commission[b].status
                 /\ [commission[b] EXCEPT !.payout = None].payout = None
                 /\ [commission[b] EXCEPT !.payout = None].amount = commission[b].amount
      BY <1>0 DEF CommissionRow
    <2>2. commission' = [b \in Booking |->
                            IF b \in Linked(o) THEN [commission[b] EXCEPT !.payout = None]
                                               ELSE commission[b]]
          /\ booking' = booking
      BY <1>6 DEF RejectPayout, SettleCommissions
    <2> QED BY <1>0, <2>1, <2>2 DEF CommissionCourse
  <1>7. ASSUME NEW o \in Payout, ProcessPayout(o) PROVE Goal
    <2>1. ASSUME NEW b \in Booking
          PROVE  /\ [commission[b] EXCEPT !.status = "PAID"] \in CommissionRow
                 /\ [commission[b] EXCEPT !.status = "PAID"].status = "PAID"
                 /\ [commission[b] EXCEPT !.status = "PAID"].payout = commission[b].payout
                 /\ [commission[b] EXCEPT !.status = "PAID"].amount = commission[b].amount
      BY <1>0 DEF CommissionRow, CommissionStatus
    <2>2. commission' = [b \in Booking |->
                            IF b \in Linked(o) THEN [commission[b] EXCEPT !.status = "PAID"]
                                               ELSE commission[b]]
          /\ booking' = booking
      BY <1>7 DEF ProcessPayout, SettleCommissions
    <2>3. \A b \in Linked(o) : commission[b].payout # None
      BY NoneAssumption DEF Linked
    <2> QED BY <1>0, <2>1, <2>2, <2>3 DEF CommissionCourse
  <1>8. ASSUME NEW o \in Payout, ApprovePayout(o)
        PROVE  commission' = commission /\ booking' = booking
    BY <1>8 DEF ApprovePayout, SettleCommissions
  <1>9. ASSUME NEW v \in Views, NEW c \in Booking, NEW p \in Partner, NEW j \in Project,
               CreateBooking(v, c, p, j)
        PROVE  Goal
    <2>1. commission' = commission /\ booking[c].status = "NONE"
          /\ \A b \in Booking : b # c => booking'[b] = booking[b]
      BY <1>0, <1>9 DEF CreateBooking, money
    <2> QED BY <1>0, <2>1 DEF CommissionCourse
  <1>10. ASSUME NEW c \in Booking, EndBooking(c) PROVE Goal
    <2>1. commission' = commission /\ booking[c].status = "OPEN"
          /\ \A b \in Booking : b # c => booking'[b] = booking[b]
      BY <1>0, <1>10 DEF EndBooking, money
    <2> QED BY <1>0, <2>1 DEF CommissionCourse
  <1> QED BY <1>1, <1>2, <1>3, <1>4, <1>5, <1>6, <1>7, <1>8, <1>9, <1>10, SaleSteps DEF PayoutStep

LEMMA PayoutRows ==
    ASSUME Rows, [Next]_vars PROVE \E A : payout' \in [Payout -> PayoutRowOf(A)]
  <1>0. PICK A : payout \in [Payout -> PayoutRowOf(A)]
    BY DEF Rows
  <1>1. CASE payout' = payout
    BY <1>0, <1>1
  <1>2. ASSUME NEW o \in Payout, NEW s \in PayoutStatus,
               payout' = [payout EXCEPT ![o].status = s]
        PROVE  payout' \in [Payout -> PayoutRowOf(A)]
    <2>1. [payout[o] EXCEPT !.status = s] \in PayoutRowOf(A)
      BY <1>0 DEF PayoutRowOf
    <2> QED BY <1>0, <1>2, <2>1
  <1>3. ASSUME NEW o \in Payout, NEW p \in Partner, NEW S \in SUBSET Booking,
               RequestPayout(o, p, S)
        PROVE  \E B : payout' \in [Payout -> PayoutRowOf(B)]
    <2> DEFINE B == A \cup {Total(S)}
               row == [partner |-> p, status |-> "PENDING", amount |-> Total(S), members |-> S]
    <2>1. row \in PayoutRowOf(B)
      BY DEF PayoutRowOf, PayoutStatus
    <2>2. \A q \in Payout : payout[q] \in PayoutRowOf(B)
      BY <1>0 DEF PayoutRowOf
    <2>3. payout' = [payout EXCEPT ![o] = row]
      BY <1>3 DEF RequestPayout, SettleCommissions
    <2> HIDE DEF B, row
    <2>4. payout' \in [Payout -> PayoutRowOf(B)]
      BY <1>0, <2>1, <2>2, <2>3
    <2> QED BY <2>4
  <1>4. ASSUME NEW o \in Payout, ApprovePayout(o) \/ RejectPayout(o) \/ ProcessPayout(o)
        PROVE  payout' \in [Payout -> PayoutRowOf(A)]
    BY <1>2, <1>4 DEF ApprovePayout, RejectPayout, ProcessPayout, SettleCommissions, PayoutStatus
  <1>5. ASSUME ~PayoutStep PROVE payout' = payout
    BY <1>5, SaleSteps DEF CreateBooking, ConfirmBooking, EndBooking, CompleteCancellation,
                           DecideCommission, SettleCommissions, money
  <1> QED BY <1>0, <1>1, <1>3, <1>4, <1>5 DEF PayoutStep

LEMMA RowsInit == Init => Rows /\ Sold
  <1> SUFFICES ASSUME Init PROVE Rows /\ Sold
    OBVIOUS
  <1>1. /\ partner \in [Partner -> PartnerStatus]
        /\ compliant \in SUBSET Partner
        /\ document \in [Document -> DocumentRow]
        /\ agreement \in [Agreement -> AgreementRow]
    BY DEF Init, PartnerStatus, DocumentRow, DocumentStatus, AgreementRow, AgreementStatus, Window
  <1>2. structure \in [Partner -> [Scope -> Structure]]
    BY DEF Init, Structure, Window
  <1>3. /\ registration \in [Registration -> RegistrationRow]
        /\ booking \in [Booking -> BookingRow]
        /\ commission \in [Booking -> CommissionRow]
    BY DEF Init, RegistrationRow, BookingRow, Scope, CommissionRow, CommissionStatus
  <1>4. payout \in [Payout -> PayoutRowOf({0})]
    BY DEF Init, PayoutRowOf, PayoutStatus
  <1>5. view = [s \in Session |-> Snapshot]
    BY DEF Init
  <1>6. /\ \A s \in Session : /\ view[s].partner \in [Partner -> PartnerStatus]
                              /\ view[s].structure \in [Partner -> [Scope -> Structure]]
        /\ view = [s \in Session |-> view[s]]
    BY <1>1, <1>2, <1>5 DEF Snapshot
  <1>7. Sold
    BY DEF Init, Sold
  <1> QED BY <1>1, <1>2, <1>3, <1>4, <1>6, <1>7 DEF Rows

LEMMA RowsStep == ASSUME Rows, Sold, [Next]_vars PROVE Rows' /\ Sold'
  <1>1. Sold'
    BY BookingRows DEF Sold, BookingCourse
  <1>2. Rows'
    BY PartnerRows, ComplianceStep, DocumentRows, AgreementRows, StructureRows,
       RegistrationRows, BookingRows, CommissionRows, PayoutRows, ViewRows DEF Rows
  <1> QED BY <1>1, <1>2

-----------------------------------------------------------------------------
(* Sums of commissions.  That the fold over a finite set has a value is    *)
(* shown by a smallest set over which it would have none.                  *)

(* What a sum over S is computed by: g gives every subset of S the sum of  *)
(* f over it, taking one element after the other.                          *)
Some(s) == CHOOSE x \in s : TRUE
Rest(s) == s \ {Some(s)}
Adds(g, f, S) == g = [s \in SUBSET S |-> IF s = {} THEN 0 ELSE f[Some(s)] + g[Rest(s)]]

LEMMA SumIs ==
    ASSUME NEW f, NEW S PROVE SumFunctionOnSet(f, S) = (CHOOSE g : Adds(g, f, S))[S]
  BY DEF SumFunctionOnSet, FoldFunctionOnSet, MapThenFoldSet, Adds, Some, Rest

LEMMA RestIsLess ==
    ASSUME NEW s, s # {}
    PROVE  Some(s) \in s /\ Rest(s) \in SUBSET s /\ Rest(s) # s
  BY DEF Some, Rest

LEMMA AddsEmpty == ASSUME NEW g, NEW f, NEW S, Adds(g, f, S) PROVE g[{}] = 0
  BY DEF Adds

LEMMA AddsNext ==
    ASSUME NEW g, NEW f, NEW S, Adds(g, f, S), NEW s \in SUBSET S, s # {}
    PROVE  g[s] = f[Some(s)] + g[Rest(s)]
  BY DEF Adds

LEMMA AddsSame ==
    ASSUME NEW g, NEW h, NEW f, NEW S, Adds(g, f, S), Adds(h, f, S),
           \A s \in SUBSET S : g[s] = h[s]
    PROVE  g = h
  BY DEF Adds

LEMMA AddsBy ==
    ASSUME NEW S, NEW f, NEW g, g = [s \in SUBSET S |-> g[s]], g[{}] = 0,
           \A s \in SUBSET S : s # {} => g[s] = f[Some(s)] + g[Rest(s)]
    PROVE  Adds(g, f, S)
  BY DEF Adds

(* Of the subsets of a finite set that something is wrong with, one is     *)
(* minimal.                                                                *)
LEMMA MinimalSubset ==
    ASSUME NEW S, IsFiniteSet(S), NEW T \in SUBSET SUBSET S, T # {}
    PROVE  \E m \in T : \A s \in T : s \subseteq m => s = m
  <1>1. T \subseteq FiniteSubsetsOf(S)
    BY FS_FiniteSubsetsOfFinite
  <1>2. PICK m \in T : \A s \in T : <<s, m>> \notin StrictSubsetOrdering(S)
    BY <1>1, FS_StrictSubsetOrderingWellFounded, WFMin
  <1>3. ASSUME NEW s \in T, s \subseteq m, s # m PROVE FALSE
    BY <1>2, <1>3 DEF StrictSubsetOrdering
  <1> QED BY <1>2, <1>3

LEMMA AddsUnique ==
    ASSUME NEW S, IsFiniteSet(S), NEW f, NEW g, NEW h, Adds(g, f, S), Adds(h, f, S)
    PROVE  g = h
  <1> DEFINE W == {s \in SUBSET S : g[s] # h[s]}
  <1>1. CASE W = {}
    <2>1. \A s \in SUBSET S : g[s] = h[s]
      BY <1>1
    <2> QED BY <2>1, AddsSame
  <1>2. ASSUME W # {} PROVE FALSE
    <2>1. PICK m \in W : \A s \in W : s \subseteq m => s = m
      <3>1. W \in SUBSET SUBSET S
        OBVIOUS
      <3> HIDE DEF W
      <3> QED BY <1>2, <3>1, MinimalSubset
    <2>2. m # {}
      BY <2>1, AddsEmpty
    <2>3. g[Rest(m)] = h[Rest(m)] /\ Rest(m) \in SUBSET S
      BY <2>1, <2>2, RestIsLess
    <2>4. g[m] = f[Some(m)] + g[Rest(m)] /\ h[m] = f[Some(m)] + h[Rest(m)]
      BY <2>2, AddsNext
    <2> QED BY <2>1, <2>3, <2>4
  <1> QED BY <1>1, <1>2

LEMMA AddsRestricted ==
    ASSUME NEW S, NEW f, NEW g, Adds(g, f, S), NEW T \in SUBSET S
    PROVE  Adds([s \in SUBSET T |-> g[s]], f, T)
  <1> DEFINE h == [s \in SUBSET T |-> g[s]]
  <1>1. \A s \in SUBSET T : s # {} => h[s] = f[Some(s)] + h[Rest(s)]
    <2> SUFFICES ASSUME NEW s \in SUBSET T, s # {} PROVE h[s] = f[Some(s)] + h[Rest(s)]
      OBVIOUS
    <2>1. g[s] = f[Some(s)] + g[Rest(s)]
      BY AddsNext
    <2>2. Rest(s) \in SUBSET T
      BY RestIsLess
    <2> QED BY <2>1, <2>2
  <1>2. h[{}] = 0
    BY AddsEmpty
  <1> QED BY <1>1, <1>2, AddsBy

LEMMA AddsExists ==
    ASSUME NEW S, IsFiniteSet(S), NEW f
    PROVE  \E g : Adds(g, f, S)
  <1> DEFINE W == {T \in SUBSET S : ~\E g : Adds(g, f, T)}
  <1> SUFFICES ASSUME W # {} PROVE FALSE
    OBVIOUS
  <1>1. PICK m \in W : \A s \in W : s \subseteq m => s = m
    <2>1. W \in SUBSET SUBSET S
      OBVIOUS
    <2> HIDE DEF W
    <2> QED BY <2>1, MinimalSubset
  <1> DEFINE G(s) == CHOOSE g : Adds(g, f, s)
             V(s) == IF s = {} THEN 0
                     ELSE IF s = m THEN f[Some(m)] + G(Rest(m))[Rest(m)] ELSE G(s)[s]
             g == [s \in SUBSET m |-> V(s)]
  <1>2. ASSUME NEW s \in SUBSET m, s # m PROVE Adds(G(s), f, s)
    <2>1. s \in SUBSET S /\ s \notin W
      BY <1>1, <1>2
    <2> QED BY <2>1
  <1>3. ASSUME NEW s \in SUBSET m, s # m, s # {}
        PROVE  G(s)[s] = f[Some(s)] + G(Rest(s))[Rest(s)]
    <2> DEFINE h == [r \in SUBSET Rest(s) |-> G(s)[r]]
    <2>1. Rest(s) \in SUBSET m /\ Rest(s) # m /\ Rest(s) \in SUBSET s
      BY <1>3, RestIsLess
    <2>2. Adds(G(s), f, s) /\ Adds(G(Rest(s)), f, Rest(s))
      BY <1>2, <1>3, <2>1
    <2>3. IsFiniteSet(Rest(s))
      BY <1>1, <2>1, FS_Subset
    <2> HIDE DEF G
    <2>4. Adds(h, f, Rest(s))
      BY <2>1, <2>2, AddsRestricted
    <2>5. G(Rest(s)) = h
      BY <2>2, <2>3, <2>4, AddsUnique
    <2>6. G(s)[s] = f[Some(s)] + G(s)[Rest(s)]
      BY <1>3, <2>2, AddsNext
    <2> QED BY <2>5, <2>6
  <1>4. ASSUME NEW s \in SUBSET m, s # {} PROVE V(s) = f[Some(s)] + V(Rest(s))
    <2>1. Rest(s) \in SUBSET m /\ Rest(s) # m
      BY <1>4, RestIsLess
    <2>2. V(Rest(s)) = G(Rest(s))[Rest(s)]
      <3>1. CASE Rest(s) = {}
        <4>1. Adds(G(Rest(s)), f, Rest(s))
          BY <1>2, <2>1
        <4> HIDE DEF G
        <4>2. G(Rest(s))[{}] = 0
          BY <4>1, AddsEmpty
        <4> QED BY <3>1, <4>2
      <3>2. CASE Rest(s) # {}
        BY <3>2, <2>1
      <3> QED BY <3>1, <3>2
    <2>3. V(s) = f[Some(s)] + G(Rest(s))[Rest(s)]
      BY <1>3, <1>4
    <2> HIDE DEF V, G
    <2> QED BY <2>2, <2>3
  <1>5. V({}) = 0
    OBVIOUS
  <1> HIDE DEF V
  <1>6. g = [s \in SUBSET m |-> g[s]] /\ g[{}] = 0
    BY <1>5
  <1>7. \A s \in SUBSET m : s # {} => g[s] = f[Some(s)] + g[Rest(s)]
    BY <1>4, RestIsLess
  <1> HIDE DEF g
  <1>8. Adds(g, f, m)
    BY <1>6, <1>7, AddsBy
  <1> QED BY <1>1, <1>8

LEMMA AddsNat ==
    ASSUME NEW S, IsFiniteSet(S), NEW f, \A x \in S : f[x] \in Nat, NEW g, Adds(g, f, S)
    PROVE  g[S] \in Nat
  <1> DEFINE W == {s \in SUBSET S : g[s] \notin Nat}
  <1> SUFFICES ASSUME W # {} PROVE FALSE
    OBVIOUS
  <1>1. PICK m \in W : \A s \in W : s \subseteq m => s = m
    <2>1. W \in SUBSET SUBSET S
      OBVIOUS
    <2> HIDE DEF W
    <2> QED BY <2>1, MinimalSubset
  <1>2. m # {}
    <2>1. g[{}] = 0
      BY AddsEmpty
    <2>2. g[m] \notin Nat
      BY <1>1
    <2> HIDE DEF W
    <2> QED BY <2>1, <2>2
  <1>3. Some(m) \in S /\ Rest(m) \in SUBSET m /\ Rest(m) # m
    BY <1>1, <1>2, RestIsLess
  <1>4. g[Rest(m)] \in Nat /\ f[Some(m)] \in Nat
    BY <1>1, <1>3
  <1>5. g[m] = f[Some(m)] + g[Rest(m)]
    BY <1>1, <1>2, AddsNext
  <1> QED BY <1>1, <1>4, <1>5

LEMMA TotalNat ==
    ASSUME commission \in [Booking -> CommissionRow], NEW S \in SUBSET Booking
    PROVE  Total(S) \in Nat
  <1> DEFINE f == [b \in S |-> commission[b].amount]
             g == CHOOSE g : Adds(g, f, S)
  <1>1. IsFiniteSet(S)
    BY BookingAssumption, FS_Subset
  <1>2. \A b \in S : f[b] \in Nat
    BY DEF CommissionRow
  <1>3. Total(S) = SumFunctionOnSet(f, S)
    BY DEF Total, SumFunction
  <1> HIDE DEF f
  <1>4. Adds(g, f, S)
    BY <1>1, AddsExists
  <1>5. Total(S) = g[S]
    BY <1>3, SumIs
  <1> HIDE DEF g
  <1> QED BY <1>1, <1>2, <1>4, <1>5, AddsNat

-----------------------------------------------------------------------------
(* The types.                                                              *)

Types ==
    /\ assigned \in [Partner -> SUBSET Project]
    /\ payout \in [Payout -> PayoutRow]
    /\ view \in [Session -> ReadView]

TypeInv == Rows /\ Sold /\ Types

LEMMA AssignedStep ==
    ASSUME [Next]_vars
    PROVE  \/ assigned' = assigned
           \/ \E p \in Partner, projects \in SUBSET Project :
                 assigned' = [assigned EXCEPT ![p] = projects]
  BY DEF Next, vars, vetting, money, Begin, VettingStep, TermsStep, SaleStep, PayoutStep,
         CreateApplication, StartDocumentVerification, CompleteDocumentVerification,
         SubmitApproval, DecideApproval, UpdateCompliance, Activate, SetOperationalStatus,
         MovePartner, UpdateAssignments, RequestDocument, UploadDocument, DecideDocument,
         SetDocument, CreateAgreement, UploadSignedAgreement, AgreementAges, SetAgreement,
         CreateCommissionStructure, StructureAges, RegisterLead, ProtectionEnds,
         CreateBooking, ConfirmBooking, EndBooking,
         CompleteCancellation, DecideCommission, RequestPayout, ApprovePayout, RejectPayout,
         ProcessPayout, SettleCommissions

LEMMA PayoutTypes == ASSUME TypeInv, [Next]_vars PROVE payout' \in [Payout -> PayoutRow]
  <1>0. payout \in [Payout -> PayoutRow] /\ commission \in [Booking -> CommissionRow]
    BY DEF TypeInv, Types, Rows
  <1>1. CASE payout' = payout
    BY <1>0, <1>1
  <1>2. ASSUME NEW o \in Payout, NEW s \in PayoutStatus,
               payout' = [payout EXCEPT ![o].status = s]
        PROVE  payout' \in [Payout -> PayoutRow]
    <2>1. [payout[o] EXCEPT !.status = s] \in PayoutRow
      BY <1>0 DEF PayoutRow
    <2> QED BY <1>0, <1>2, <2>1
  <1>3. ASSUME NEW o \in Payout, NEW p \in Partner, NEW S \in SUBSET Booking,
               RequestPayout(o, p, S)
        PROVE  payout' \in [Payout -> PayoutRow]
    <2> DEFINE row == [partner |-> p, status |-> "PENDING", amount |-> Total(S), members |-> S]
    <2>1. Total(S) \in Nat
      BY <1>0, TotalNat
    <2>2. row \in PayoutRow
      BY <2>1 DEF PayoutRow, PayoutStatus
    <2>3. payout' = [payout EXCEPT ![o] = row]
      BY <1>3 DEF RequestPayout, SettleCommissions
    <2> QED BY <1>0, <2>2, <2>3
  <1>4. ASSUME NEW o \in Payout, ApprovePayout(o) \/ RejectPayout(o) \/ ProcessPayout(o)
        PROVE  payout' \in [Payout -> PayoutRow]
    BY <1>2, <1>4 DEF ApprovePayout, RejectPayout, ProcessPayout, SettleCommissions, PayoutStatus
  <1>5. ASSUME ~PayoutStep PROVE payout' = payout
    BY <1>5, SaleSteps DEF CreateBooking, ConfirmBooking, EndBooking, CompleteCancellation,
                           DecideCommission, SettleCommissions, money
  <1> QED BY <1>1, <1>3, <1>4, <1>5 DEF PayoutStep

LEMMA TypesStep == ASSUME TypeInv, [Next]_vars PROVE TypeInv'
  <1>1. assigned' \in [Partner -> SUBSET Project]
    BY AssignedStep DEF TypeInv, Types
  <1>2. Snapshot \in ReadView
    BY DEF TypeInv, Types, Rows, Snapshot, ReadView
  <1>3. view' \in [Session -> ReadView]
    BY <1>2, ViewStep DEF TypeInv, Types
  <1>4. Rows' /\ Sold'
    BY RowsStep DEF TypeInv
  <1> QED BY <1>1, <1>3, <1>4, PayoutTypes DEF TypeInv, Types

LEMMA TypesInit == Init => TypeInv
  <1> SUFFICES ASSUME Init PROVE TypeInv
    OBVIOUS
  <1>1. Rows /\ Sold
    BY RowsInit
  <1>2. assigned \in [Partner -> SUBSET Project] /\ payout \in [Payout -> PayoutRow]
    BY DEF Init, PayoutRow, PayoutStatus
  <1>3. Snapshot \in ReadView
    BY <1>1, <1>2 DEF Rows, Snapshot, ReadView
  <1>4. view \in [Session -> ReadView]
    BY <1>3 DEF Init
  <1> QED BY <1>1, <1>2, <1>4 DEF TypeInv, Types

(* The rows of every table keep their types: a status no handler writes    *)
(* never comes up, a payout's sum is an amount whatever commissions are in *)
(* it, and a view shows what a table held.                                 *)
THEOREM TypesCorrect == Spec => []TypeOK
  <1>1. TypeInv => TypeOK
    BY DEF TypeInv, Types, Rows, TypeOK
  <1> QED BY <1>1, TypesInit, TypesStep, PTL DEF Spec

-----------------------------------------------------------------------------
(* Commissions, their sales and their payouts.                             *)

Live == {"PENDING", "PROCESSING", "COMPLETED"}

(* A commission in a payout was decided and belongs to a booking that was  *)
(* confirmed once.                                                         *)
LinkedDecided ==
    \A b \in Booking : commission[b].payout # None =>
        /\ booking[b].status \notin {"NONE", "OPEN"}
        /\ commission[b].status \notin {"NONE", "ELIGIBLE"}

(* A payout that was not rejected has its members and what they amount to, *)
(* one that was has none.                                                  *)
Kept(o) ==
    /\ payout[o].status \in Live =>
          /\ Linked(o) = payout[o].members
          /\ payout[o].amount = Total(payout[o].members)
          /\ \A b \in Linked(o) : booking[b].partner = payout[o].partner
    /\ payout[o].status \notin Live => Linked(o) = {}
    /\ payout[o].status = "NONE" => payout[o].members = {}

PayoutInv == Rows /\ Sold /\ OwedOnSales /\ LinkedDecided /\ \A o \in Payout : Kept(o)

LEMMA LinkedDecidedStep == ASSUME PayoutInv, [Next]_vars PROVE LinkedDecided'
  <1>1. \A b \in Booking : BookingCourse(b) /\ CommissionCourse(b)
    BY BookingRows, CommissionRows DEF PayoutInv
  <1>2. ASSUME NEW b \in Booking, commission'[b].payout # None
        PROVE  /\ booking'[b].status \notin {"NONE", "OPEN"}
               /\ commission'[b].status \notin {"NONE", "ELIGIBLE"}
    BY <1>1, <1>2 DEF PayoutInv, LinkedDecided, OwedOnSales, BookingCourse, CommissionCourse
  <1> QED BY <1>2 DEF LinkedDecided

(* A sum stays what it is as long as what is added up does.                *)
LEMMA TotalStays ==
    ASSUME NEW S, \A b \in S : commission'[b].amount = commission[b].amount
    PROVE  Total(S)' = Total(S)
  <1>1. [b \in S |-> commission'[b].amount] = [b \in S |-> commission[b].amount]
    OBVIOUS
  <1> QED BY <1>1 DEF Total

(* What a commission in a payout is worth does not change.                 *)
LEMMA LinkedAmounts ==
    ASSUME PayoutInv, [Next]_vars, NEW o \in Payout, NEW b \in Linked(o)
    PROVE  commission'[b].amount = commission[b].amount
  <1>1. b \in Booking /\ commission[b].payout # None
    BY NoneAssumption DEF Linked
  <1>2. CommissionCourse(b) /\ booking[b].status # "OPEN"
    BY <1>1, CommissionRows DEF PayoutInv, LinkedDecided
  <1> QED BY <1>2 DEF CommissionCourse

(* A payout whose own row and links are what they were is still kept.      *)
LEMMA KeptFrame ==
    ASSUME PayoutInv, [Next]_vars, NEW o \in Payout, payout'[o] = payout[o],
           \A b \in Booking : (commission'[b].payout = o) <=> (commission[b].payout = o)
    PROVE  Kept(o)'
  <1>1. Linked(o)' = Linked(o)
    BY DEF Linked
  <1>2. \A b \in Linked(o) : booking'[b].partner = booking[b].partner
    BY BookingRows, NoneAssumption DEF PayoutInv, LinkedDecided, Linked, BookingCourse
  <1>3. payout[o].status \in Live => Total(payout[o].members)' = Total(payout[o].members)
    BY LinkedAmounts, TotalStays DEF PayoutInv, Kept
  <1> QED BY <1>1, <1>2, <1>3 DEF PayoutInv, Kept

LEMMA KeptStep == ASSUME PayoutInv, [Next]_vars PROVE \A o \in Payout : Kept(o)'
  <1>0. /\ commission \in [Booking -> CommissionRow] /\ booking \in [Booking -> BookingRow]
        /\ payout = [o \in Payout |-> payout[o]]
    BY DEF PayoutInv, Rows
  <1>a. ASSUME NEW o \in Payout
        PROVE  payout[o] = [partner |-> payout[o].partner, status |-> payout[o].status,
                            amount |-> payout[o].amount, members |-> payout[o].members]
    BY DEF PayoutInv, Rows, PayoutRowOf
  <1> DEFINE Same == /\ payout' = payout
                     /\ \A b \in Booking : commission'[b].payout = commission[b].payout
  <1>1. CASE Same
    BY <1>1, KeptFrame
  <1>2. ASSUME NEW v \in Views, NEW c \in Booking, ConfirmBooking(v, c) PROVE Same
    <2>1. commission[c].payout = None
      BY <1>2 DEF PayoutInv, LinkedDecided, ConfirmBooking
    <2>2. PICK s \in Applicable(v, c) :
             commission' = [commission EXCEPT ![c] =
                               [status |-> "ELIGIBLE", amount |-> s.rate, payout |-> None]]
      BY <1>2 DEF ConfirmBooking
    <2> QED BY <1>0, <1>2, <2>1, <2>2 DEF ConfirmBooking
  <1>3. ASSUME NEW c \in Booking, CompleteCancellation(c) PROVE Same
    <2>1. commission' = [commission EXCEPT ![c] = [commission[c] EXCEPT !.status = "REVERSED"]]
      BY <1>0, <1>3 DEF CompleteCancellation, CommissionRow
    <2>2. [commission[c] EXCEPT !.status = "REVERSED"].payout = commission[c].payout
      BY <1>0 DEF CommissionRow
    <2> QED BY <1>0, <1>3, <2>1, <2>2 DEF CompleteCancellation
  <1>4. ASSUME NEW c \in Booking, DecideCommission(c) PROVE Same
    <2>1. PICK s \in {"APPROVED", "REVERSED"} :
             SettleCommissions([commission EXCEPT ![c].status = s], payout)
      BY <1>4 DEF DecideCommission
    <2>2. [commission[c] EXCEPT !.status = s].payout = commission[c].payout
      BY <1>0 DEF CommissionRow
    <2> QED BY <1>0, <2>1, <2>2 DEF SettleCommissions
  <1>5. ASSUME NEW q \in Payout, NEW p \in Partner, NEW S \in SUBSET Booking,
               RequestPayout(q, p, S), NEW o \in Payout
        PROVE  Kept(o)'
    <2> DEFINE row == [partner |-> p, status |-> "PENDING", amount |-> Total(S), members |-> S]
    <2>1. payout' = [payout EXCEPT ![q] = row] /\ booking' = booking
      BY <1>5 DEF RequestPayout, SettleCommissions
    <2>2. commission' = [b \in Booking |-> IF b \in S THEN [commission[b] EXCEPT !.payout = q]
                                                      ELSE commission[b]]
      BY <1>5 DEF RequestPayout, SettleCommissions
    <2>3. \A b \in Booking : [commission[b] EXCEPT !.payout = q].payout = q
      BY <1>0 DEF CommissionRow
    <2>4. \A b \in S : commission[b].payout = None /\ booking[b].partner = p
      BY <1>5 DEF RequestPayout, Payable
    <2>5. Linked(q) = {}
      BY <1>5 DEF RequestPayout, PayoutInv, Kept, Live
    <2>6. CASE o = q
      <3>1. /\ payout'[q].status = "PENDING" /\ payout'[q].members = S
            /\ payout'[q].partner = p /\ payout'[q].amount = Total(S)
        BY <1>0, <2>1
      <3>2. Linked(q)' = S
        BY <2>2, <2>3, <2>5 DEF Linked
      <3>3. \A b \in S : commission'[b].amount = commission[b].amount
        <4>1. \A b \in Booking : [commission[b] EXCEPT !.payout = q].amount = commission[b].amount
          BY <1>0 DEF CommissionRow
        <4> QED BY <2>2, <4>1
      <3>4. Total(S)' = Total(S)
        BY <3>3, TotalStays
      <3>5. Total(payout[q].members)' = Total(S)'
        BY <3>1
      <3> QED BY <2>1, <2>4, <2>6, <3>1, <3>2, <3>4, <3>5 DEF Kept, Live
    <2>7. CASE o # q
      <3>1. payout'[o] = payout[o]
        BY <1>0, <2>1, <2>7
      <3>2. \A b \in Booking : (commission'[b].payout = o) <=> (commission[b].payout = o)
        BY <2>2, <2>3, <2>4, <2>7, NoneAssumption
      <3> QED BY <3>1, <3>2, KeptFrame
    <2> QED BY <2>6, <2>7
  <1>6. ASSUME NEW q \in Payout, NEW s \in {"PROCESSING", "COMPLETED"}, payout[q].status \in Live,
               payout' = [payout EXCEPT ![q].status = s],
               \A b \in Booking : commission'[b].payout = commission[b].payout,
               NEW o \in Payout
        PROVE  Kept(o)'
    <2> DEFINE row == [payout[q] EXCEPT !.status = s]
    <2>1. /\ row.status = s /\ row.partner = payout[q].partner
          /\ row.members = payout[q].members /\ row.amount = payout[q].amount
      BY <1>a
    <2>2. payout'[q] = row
      BY <1>0, <1>6
    <2>3. CASE o = q
      <3>1. Linked(q)' = Linked(q)
        BY <1>6 DEF Linked
      <3>2. \A b \in Linked(q) : booking'[b].partner = booking[b].partner
        BY BookingRows, NoneAssumption DEF PayoutInv, LinkedDecided, Linked, BookingCourse
      <3>3. /\ Linked(q) = payout[q].members /\ payout[q].amount = Total(payout[q].members)
            /\ \A b \in Linked(q) : booking[b].partner = payout[q].partner
        BY <1>6 DEF PayoutInv, Kept
      <3>4. Total(payout[q].members)' = Total(payout[q].members)
        <4>1. \A b \in payout[q].members : commission'[b].amount = commission[b].amount
          BY <3>3, LinkedAmounts
        <4>2. payout'[q].members = payout[q].members
          BY <2>1, <2>2
        <4> QED BY <4>1, <4>2, TotalStays
      <3> QED BY <1>6, <2>1, <2>2, <2>3, <3>1, <3>2, <3>3, <3>4 DEF Kept, Live
    <2>4. CASE o # q
      <3>1. payout'[o] = payout[o]
        BY <1>0, <1>6, <2>4
      <3> QED BY <1>6, <3>1, KeptFrame
    <2> QED BY <2>3, <2>4
  <1>7. ASSUME NEW q \in Payout, RejectPayout(q), NEW o \in Payout PROVE Kept(o)'
    <2>1. commission' = [b \in Booking |->
                            IF b \in Linked(q) THEN [commission[b] EXCEPT !.payout = None]
                                               ELSE commission[b]]
          /\ payout' = [payout EXCEPT ![q].status = "FAILED"]
      BY <1>7 DEF RejectPayout, SettleCommissions
    <2>2. \A b \in Booking : [commission[b] EXCEPT !.payout = None].payout = None
      BY <1>0 DEF CommissionRow
    <2>3. CASE o = q
      <3>1. payout'[q].status = "FAILED"
        BY <1>0, <1>a, <2>1
      <3>2. Linked(q)' = {}
        BY <2>1, <2>2, NoneAssumption DEF Linked
      <3> QED BY <2>3, <3>1, <3>2 DEF Kept, Live
    <2>4. CASE o # q
      <3>1. payout'[o] = payout[o]
        BY <1>0, <2>1, <2>4
      <3>2. \A b \in Booking : (commission'[b].payout = o) <=> (commission[b].payout = o)
        BY <2>1, <2>2, <2>4, NoneAssumption DEF Linked
      <3> QED BY <3>1, <3>2, KeptFrame
    <2> QED BY <2>3, <2>4
  <1>8. ASSUME NEW q \in Payout, ApprovePayout(q), NEW o \in Payout PROVE Kept(o)'
    BY <1>6, <1>8 DEF ApprovePayout, SettleCommissions, Live
  <1>9. ASSUME NEW q \in Payout, ProcessPayout(q), NEW o \in Payout PROVE Kept(o)'
    <2>1. \A b \in Booking : [commission[b] EXCEPT !.status = "PAID"].payout = commission[b].payout
      BY <1>0 DEF CommissionRow
    <2>2. \A b \in Booking : commission'[b].payout = commission[b].payout
      BY <1>9, <2>1 DEF ProcessPayout, SettleCommissions
    <2> QED BY <1>6, <1>9, <2>2 DEF ProcessPayout, SettleCommissions, Live
  <1>10. ASSUME NEW c \in Booking, EndBooking(c) PROVE Same
    BY <1>10 DEF EndBooking, money
  <1>11. ASSUME NEW v \in Views, NEW c \in Booking, NEW p \in Partner, NEW j \in Project,
                CreateBooking(v, c, p, j)
         PROVE  Same
    BY <1>11 DEF CreateBooking, money
  <1> QED BY <1>1, <1>2, <1>3, <1>4, <1>5, <1>7, <1>8, <1>9, <1>10, <1>11, SaleSteps DEF PayoutStep

LEMMA PayoutInvInit == Init => PayoutInv
  <1> SUFFICES ASSUME Init PROVE PayoutInv
    OBVIOUS
  <1>1. LinkedDecided /\ OwedOnSales
    BY DEF Init, LinkedDecided, OwedOnSales
  <1>2. ASSUME NEW o \in Payout PROVE Kept(o)
    BY NoneAssumption DEF Init, Kept, Live, Linked
  <1> QED BY <1>1, <1>2, RowsInit DEF PayoutInv

LEMMA PayoutInvStep == ASSUME PayoutInv, [Next]_vars PROVE PayoutInv'
  <1>1. OwedOnSales'
    BY BookingRows, CommissionRows DEF PayoutInv, OwedOnSales, BookingCourse, CommissionCourse
  <1> QED BY <1>1, RowsStep, LinkedDecidedStep, KeptStep DEF PayoutInv

(* A commission is owed only while its sale stands, whatever old reads the *)
(* requests that confirm, cancel and pay decide on: booking and commission *)
(* change together (accrue_booking_commission, complete_cancellation).     *)
THEOREM OwedCorrect == Spec => []OwedOnSales
  BY PayoutInvInit, PayoutInvStep, PTL DEF Spec, PayoutInv

(* A commission is in at most one payout that was not rejected, and in it  *)
(* only after its own decision; and a payout pays the sum of what is in it,*)
(* for a commission's amount is never touched again (request_payout,       *)
(* decide_payout, process_payout).                                         *)
THEOREM PayoutsCorrect == Spec => []PayoutsAddUp
  <1>1. ASSUME PayoutInv PROVE PayoutsAddUp
    <2>1. \A o \in Payout : payout[o].status \in PayoutStatus
      BY <1>1 DEF PayoutInv, Rows, PayoutRowOf
    <2>2. ASSUME NEW b \in Booking, NEW o \in Payout,
                 b \in payout[o].members, payout[o].status # "FAILED"
          PROVE  commission[b].payout = o
      BY <1>1, <2>1, <2>2 DEF PayoutInv, Kept, Live, Linked, PayoutStatus
    <2>3. PayoutsApart
      BY <1>1, <2>1, <2>2 DEF PayoutInv, Kept, Live, LinkedDecided, PayoutsApart
    <2> QED BY <1>1, <2>3 DEF PayoutInv, Kept, Live, PayoutsAddUp
  <1> QED BY <1>1, PayoutInvInit, PayoutInvStep, PTL DEF Spec

-----------------------------------------------------------------------------
(* Vetting.                                                                *)

HasDocument(p) == \E d \in DocumentsOf(p) : document[d].status = "VERIFIED"
HasAgreement(p) == \E a \in Agreement : agreement[a].partner = p /\ agreement[a].status = "SIGNED"

(* Evidence is never taken back.                                           *)
LEMMA DocumentStays ==
    ASSUME Rows, [Next]_vars, NEW p, HasDocument(p) PROVE HasDocument(p)'
  <1>0. document \in [Document -> DocumentRow]
    BY DEF Rows
  <1>1. PICK d \in Document : document[d].partner = p /\ document[d].status = "VERIFIED"
    BY DEF HasDocument, DocumentsOf
  <1>2. document'[d] = document[d]
    BY <1>0, <1>1, DocumentStep DEF RequestDocument, UploadDocument, DecideDocument, SetDocument
  <1> QED BY <1>1, <1>2 DEF HasDocument, DocumentsOf

LEMMA AgreementStays ==
    ASSUME Rows, [Next]_vars, NEW p, HasAgreement(p) PROVE HasAgreement(p)'
  <1>0. agreement \in [Agreement -> AgreementRow]
    BY DEF Rows
  <1>1. PICK a \in Agreement : agreement[a].partner = p /\ agreement[a].status = "SIGNED"
    BY DEF HasAgreement
  <1>2. ASSUME NEW c \in Agreement, AgreementAges(c)
        PROVE  agreement'[a].partner = p /\ agreement'[a].status = "SIGNED"
    <2>1. /\ [agreement[c] EXCEPT !.window = Later(@)].partner = agreement[c].partner
          /\ [agreement[c] EXCEPT !.window = Later(@)].status = agreement[c].status
      BY <1>0 DEF AgreementRow
    <2> QED BY <1>0, <1>1, <1>2, <2>1 DEF AgreementAges, SetAgreement
  <1>3. ASSUME NEW c \in Agreement, NEW row, SetAgreement(c, row), agreement[c].status # "SIGNED"
        PROVE  agreement'[a] = agreement[a]
    BY <1>0, <1>1, <1>3 DEF SetAgreement
  <1>4. agreement'[a].partner = p /\ agreement'[a].status = "SIGNED"
    BY <1>1, <1>2, <1>3, AgreementStep DEF CreateAgreement, UploadSignedAgreement
  <1> QED BY <1>4 DEF HasAgreement

Signed == {"APPROVAL_PENDING", "APPROVED"} \cup Operational
Documented == {"AGREEMENT_PENDING"} \cup Signed

(* How far a partner has come says what there is of it; a partner a view   *)
(* shows in operation was vetted by then; and so was everyone who sold.    *)
Vetting ==
    /\ \A p \in Partner : /\ partner[p] \in Documented => HasDocument(p)
                          /\ partner[p] \in Signed => HasAgreement(p)
                          /\ partner[p] \in Operational => p \in compliant
    /\ \A s \in Session, p \in Partner : view[s].partner[p] \in Operational => Vetted(p)
    /\ \A b \in Booking : booking[b].status # "NONE" => Vetted(booking[b].partner)
    /\ \A b \in Booking : commission[b].status # "NONE" => booking[b].status # "NONE"

VettingInv == PayoutInv /\ Vetting

LEMMA VettedStays ==
    ASSUME Rows, [Next]_vars, NEW p, Vetted(p) PROVE Vetted(p)'
  <1>1. HasDocument(p)' /\ HasAgreement(p)'
    BY DocumentStays, AgreementStays DEF Vetted, HasDocument, HasAgreement
  <1>2. p \in compliant'
    BY ComplianceStep DEF Vetted
  <1> QED BY <1>1, <1>2 DEF Vetted, HasDocument, HasAgreement

LEMMA OperationalVetted ==
    ASSUME VettingInv, NEW p \in Partner, NEW v \in Views, v.partner[p] \in Operational
    PROVE  Vetted(p)
  <1>1. CASE v = Snapshot
    BY <1>1 DEF VettingInv, Vetting, Snapshot, Signed, Documented, Vetted, HasDocument, HasAgreement
  <1>2. CASE \E s \in Session : v = view[s]
    BY <1>2 DEF VettingInv, Vetting
  <1> QED BY <1>1, <1>2 DEF Views

LEMMA OneMoves ==
    ASSUME Rows, NEW p \in Partner, NEW from, NEW to, MovePartner(p, from, to)
    PROVE  /\ partner[p] \in from /\ partner'[p] = to
           /\ \A q \in Partner : q # p => partner'[q] = partner[q]
           /\ UNCHANGED vetting
  BY DEF Rows, MovePartner

(* Each status that stands for evidence is reached with the evidence.      *)
LEMMA PartnerEvidence ==
    ASSUME VettingInv, [Next]_vars, NEW p \in Partner
    PROVE  /\ partner'[p] \in Documented => HasDocument(p)'
           /\ partner'[p] \in Signed => HasAgreement(p)'
           /\ partner'[p] \in Operational => p \in compliant'
  <1> DEFINE Goal(q) == /\ partner'[q] \in Documented => HasDocument(q)'
                        /\ partner'[q] \in Signed => HasAgreement(q)'
                        /\ partner'[q] \in Operational => q \in compliant'
  <1>0. Rows
    BY DEF VettingInv, PayoutInv
  <1>1. ASSUME NEW q \in Partner, partner'[q] = partner[q] PROVE Goal(q)
    BY <1>0, <1>1, DocumentStays, AgreementStays, ComplianceStep DEF VettingInv, Vetting
  <1>2. ASSUME NEW q \in Partner, NEW from, NEW to, MovePartner(q, from, to),
               to \in Documented => HasDocument(q),
               to \in Signed => HasAgreement(q),
               to \in Operational => q \in compliant
        PROVE  Goal(p)
    <2>1. CASE p = q
      BY <1>0, <1>2, <2>1, OneMoves, DocumentStays, AgreementStays, ComplianceStep
    <2>2. CASE p # q
      BY <1>0, <1>1, <1>2, <2>2, OneMoves
    <2> QED BY <2>1, <2>2
  <1>3. ASSUME NEW q \in Partner, CreateApplication(q) \/ StartDocumentVerification(q)
        PROVE  Goal(p)
    BY <1>2, <1>3 DEF CreateApplication, StartDocumentVerification, Documented, Signed, Operational
  <1>4. ASSUME NEW q \in Partner, CompleteDocumentVerification(q) PROVE Goal(p)
    <2>1. HasDocument(q)
      BY <1>4 DEF CompleteDocumentVerification, HasDocument
    <2> QED BY <1>2, <1>4, <2>1 DEF CompleteDocumentVerification, Signed, Operational
  <1>5. ASSUME NEW q \in Partner, SubmitApproval(q) PROVE Goal(p)
    <2>1. HasAgreement(q)
      BY <1>5 DEF SubmitApproval, HasAgreement
    <2>2. HasDocument(q)
      BY <1>5 DEF SubmitApproval, MovePartner, VettingInv, Vetting, Documented
    <2> QED BY <1>2, <1>5, <2>1, <2>2 DEF SubmitApproval, Operational
  <1>6. ASSUME NEW q \in Partner, DecideApproval(q) PROVE Goal(p)
    <2>1. PICK verdict \in {"APPROVED", "REJECTED"} : MovePartner(q, {"APPROVAL_PENDING"}, verdict)
      BY <1>6 DEF DecideApproval
    <2>2. HasDocument(q) /\ HasAgreement(q)
      BY <2>1 DEF MovePartner, VettingInv, Vetting, Documented, Signed
    <2> QED BY <1>2, <2>1, <2>2 DEF Operational
  <1>7. ASSUME NEW q \in Partner, NEW v \in Views, Activate(v, q) PROVE Goal(p)
    <2>1. HasDocument(q) /\ HasAgreement(q) /\ q \in compliant
      BY <1>7 DEF Activate, MovePartner, VettingInv, Vetting, Documented, Signed
    <2> QED BY <1>2, <1>7, <2>1 DEF Activate
  <1>8. ASSUME NEW q \in Partner, NEW status \in Operational, SetOperationalStatus(q, status)
        PROVE  Goal(p)
    <2>1. HasDocument(q) /\ HasAgreement(q) /\ q \in compliant
      BY <1>8 DEF SetOperationalStatus, MovePartner, VettingInv, Vetting, Documented, Signed
    <2> QED BY <1>2, <1>8, <2>1 DEF SetOperationalStatus
  <1> QED BY <1>1, <1>3, <1>4, <1>5, <1>6, <1>7, <1>8, PartnerStep

LEMMA VettingStays == ASSUME VettingInv, [Next]_vars PROVE Vetting'
  <1>0. Rows /\ Sold
    BY DEF VettingInv, PayoutInv
  <1>1. ASSUME NEW s \in Session, NEW p \in Partner, view'[s].partner[p] \in Operational
        PROVE  Vetted(p)'
    <2>1. view'[s] \in Views
      <3>1. view \in [Session -> {view[t] : t \in Session}]
        BY <1>0 DEF Rows
      <3> QED BY <3>1, ViewStep DEF Views
    <2> QED BY <1>0, <1>1, <2>1, OperationalVetted, VettedStays
  <1>2. ASSUME NEW b \in Booking, booking'[b].status # "NONE" PROVE Vetted(booking[b].partner)'
    <2>1. CASE booking[b].status # "NONE"
      <3>1. PICK q : q = booking[b].partner
        OBVIOUS
      <3>2. Vetted(q) /\ booking'[b].partner = q
        BY <1>0, <2>1, <3>1, BookingRows DEF VettingInv, Vetting, BookingCourse
      <3>3. Vetted(q)'
        BY <1>0, <3>2, VettedStays
      <3> QED BY <3>2, <3>3
    <2>2. CASE booking[b].status = "NONE"
      <3>1. PICK v \in Views, p \in Partner : v.partner[p] = "ACTIVE" /\ booking'[b].partner = p
        BY <1>0, <1>2, <2>2, BookingRows DEF BookingCourse
      <3>2. Vetted(p)'
        BY <1>0, <3>1, OperationalVetted, VettedStays DEF Operational
      <3> QED BY <3>1, <3>2
    <2> QED BY <2>1, <2>2
  <1>3. ASSUME NEW b \in Booking, commission'[b].status # "NONE" PROVE booking'[b].status # "NONE"
    BY <1>0, <1>3, BookingRows, CommissionRows
       DEF VettingInv, PayoutInv, LinkedDecided, Vetting, BookingCourse, CommissionCourse
  <1> QED BY <1>1, <1>2, <1>3, PartnerEvidence DEF Vetting

LEMMA VettingInit == Init => VettingInv
  BY PayoutInvInit DEF VettingInv, Init, Vetting, Snapshot, Documented, Signed, Operational

LEMMA VettingInvStep == ASSUME VettingInv, [Next]_vars PROVE VettingInv'
  BY PayoutInvStep, VettingStays DEF VettingInv

LEMMA VettingSells == VettingInv => OnlyVettedSell
  BY DEF VettingInv, Vetting, OnlyVettedSell, Vetted, HasDocument, HasAgreement, Signed, Documented

(* Nobody sells before the vetting is through, and nobody earns who did    *)
(* not: a request that decides on an old reading of the partner finds it   *)
(* in operation only if it was vetted, and evidence once given stays.      *)
THEOREM VettedCorrect == Spec => []OnlyVettedSell
  BY VettingInit, VettingInvStep, VettingSells, PTL DEF Spec

-----------------------------------------------------------------------------
(* The behaviours of the run Partners are behaviours of partners: of either *)
(* kind, they have fewer rows.  So all of the above holds in them.         *)
THEOREM PartnersBehave == PartnersSpec => Spec
  <1>1. PartnersInit => Init
    BY DEF PartnersInit
  <1>2. [PartnersNext]_<<kind, vars>> => [Next]_vars
    BY DEF PartnersNext, vars
  <1> QED BY <1>1, <1>2, PTL DEF PartnersSpec, Spec
=============================================================================
