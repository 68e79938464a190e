--------------------------- MODULE ChannelPartners ---------------------------
(***************************************************************************)
(* services/partners.py: how a channel partner is vetted and activated, the *)
(* contacts it protects, and the commissions its sales earn, from their    *)
(* accrual at confirmation (bookings.decide_approval) to their payout, or  *)
(* their reversal when the sale is cancelled (post_sales).                 *)
(*                                                                         *)
(* An action is one request, at its commit.  Rows a handler locks before   *)
(* it looks at them are current; what it reads plainly comes from the read *)
(* view v of its transaction.                                              *)
(*                                                                         *)
(* Who acts, contact persons, territories, profile data and disputes decide *)
(* nothing here and are left out.                                          *)
(***************************************************************************)
EXTENDS Integers, FiniteSets, Functions

CONSTANTS
    Partner,       \* the channel partners of an organization
    Document,      \* identities for the compliance documents asked for
    Agreement,     \* identities for the agreements drawn up
    Registration,  \* identities for the leads partners register
    Contact,       \* normalized e-mail addresses and phone numbers
    Project,
    Booking,       \* bookings made through a partner
    Payout,        \* payout numbers
    Session,       \* concurrent requests whose read view may be old
    Rates,         \* what a sale may earn: the rate applied to its price
    Windows,       \* where a new agreement's or structure's dates may lie
    None           \* SQL NULL; as a scope, a structure for every project

ASSUME RatesAssumption == Rates \subseteq Nat
ASSUME NoneAssumption == None \notin Rates \cup Project \cup Partner \cup Payout
ASSUME BookingAssumption == IsFiniteSet(Booking)

Window == {"future", "current", "past"}
ASSUME WindowsAssumption == Windows \subseteq Window

Operational == {"ACTIVE", "SUSPENDED", "INACTIVE"}
PartnerStatus == {"NONE", "APPLICATION", "DOCUMENT_VERIFICATION", "AGREEMENT_PENDING",
                  "APPROVAL_PENDING", "APPROVED", "REJECTED"} \cup Operational
DocumentStatus == {"NONE", "PENDING", "UPLOADED", "VERIFIED", "REJECTED"}
AgreementStatus == {"NONE", "DRAFT", "SIGNED"}
CommissionStatus == {"NONE", "ELIGIBLE", "APPROVED", "PAID", "REVERSED"}
PayoutStatus == {"NONE", "PENDING", "PROCESSING", "COMPLETED", "FAILED"}

Scope == Project \cup {None}
DocumentRow == [partner: Partner \cup {None}, status: DocumentStatus]
AgreementRow == [partner: Partner \cup {None}, status: AgreementStatus, window: Window]
Structure == [rate: Rates \cup {None}, window: Window]
RegistrationRow == [partner: Partner \cup {None}, keys: SUBSET Contact, protected: BOOLEAN]
BookingRow == [partner: Partner \cup {None}, project: Scope,
               status: {"NONE", "OPEN", "CONFIRMED", "CANCELLED"}]
CommissionRow == [status: CommissionStatus, amount: Nat, payout: Payout \cup {None}]
PayoutRow == [partner: Partner \cup {None}, status: PayoutStatus, amount: Nat,
              members: SUBSET Booking]

VARIABLES
    partner,       \* channel_partners.status
    compliant,     \* the partners whose tax and bank details are on file
    assigned,      \* partner_projects
    document,      \* partner_documents
    agreement,     \* partner_agreements
    structure,     \* the active commission structure of each scope
    registration,  \* partner_leads, their keys and their protection
    booking,       \* bookings, as far as commissions go
    commission,    \* the commission of each booking
    payout,        \* commission_payouts; members as the audit entry lists them
    view           \* what each session's transaction saw when it began

vetting == <<compliant, assigned, document, agreement>>
money == <<commission, payout>>
vars == <<partner, vetting, structure, registration, booking, money, view>>

Snapshot == [partner |-> partner, structure |-> structure, assigned |-> assigned]
ReadView == [partner: [Partner -> PartnerStatus],
             structure: [Partner -> [Scope -> Structure]],
             assigned: [Partner -> SUBSET Project]]
Views == {Snapshot} \cup {view[s] : s \in Session}

TypeOK ==
    /\ partner \in [Partner -> PartnerStatus]
    /\ compliant \in SUBSET Partner
    /\ assigned \in [Partner -> SUBSET Project]
    /\ document \in [Document -> DocumentRow]
    /\ agreement \in [Agreement -> AgreementRow]
    /\ structure \in [Partner -> [Scope -> Structure]]
    /\ registration \in [Registration -> RegistrationRow]
    /\ booking \in [Booking -> BookingRow]
    /\ commission \in [Booking -> CommissionRow]
    /\ payout \in [Payout -> PayoutRow]
    /\ view \in [Session -> ReadView]

Init ==
    /\ partner = [p \in Partner |-> "NONE"]
    /\ compliant = {}
    /\ assigned = [p \in Partner |-> {}]
    /\ document = [d \in Document |-> [partner |-> None, status |-> "NONE"]]
    /\ agreement = [a \in Agreement |->
                       [partner |-> None, status |-> "NONE", window |-> "past"]]
    /\ structure = [p \in Partner |-> [s \in Scope |-> [rate |-> None, window |-> "past"]]]
    /\ registration = [r \in Registration |->
                          [partner |-> None, keys |-> {}, protected |-> FALSE]]
    /\ booking = [b \in Booking |-> [partner |-> None, project |-> None, status |-> "NONE"]]
    /\ commission = [b \in Booking |-> [status |-> "NONE", amount |-> 0, payout |-> None]]
    /\ payout = [o \in Payout |-> [partner |-> None, status |-> "NONE", amount |-> 0,
                                   members |-> {}]]
    /\ view = [s \in Session |-> Snapshot]

Begin(s) ==
    /\ view' = [view EXCEPT ![s] = Snapshot]
    /\ UNCHANGED <<partner, vetting, structure, registration, booking, money>>

-----------------------------------------------------------------------------
(* Vetting: application, documents, agreement, approval, activation.       *)

MovePartner(p, from, to) ==
    /\ partner[p] \in from
    /\ partner' = [partner EXCEPT ![p] = to]
    /\ UNCHANGED <<vetting, structure, registration, booking, money, view>>

CreateApplication(p) == MovePartner(p, {"NONE"}, "APPLICATION")

StartDocumentVerification(p) == MovePartner(p, {"APPLICATION"}, "DOCUMENT_VERIFICATION")

UpdateCompliance(p) ==
    /\ partner[p] # "NONE"
    /\ compliant' = compliant \cup {p}
    /\ UNCHANGED <<partner, assigned, document, agreement, structure, registration, booking,
                   money, view>>

UpdateAssignments(p, projects) ==
    /\ partner[p] # "NONE"
    /\ assigned' = [assigned EXCEPT ![p] = projects]
    /\ UNCHANGED <<partner, compliant, document, agreement, structure, registration, booking,
                   money, view>>

SetDocument(d, row) ==
    /\ document' = [document EXCEPT ![d] = row]
    /\ UNCHANGED <<partner, compliant, assigned, agreement, structure, registration, booking,
                   money, view>>

(* The partner is read plainly, so a document can be asked for after the   *)
(* verification was completed.                                             *)
RequestDocument(v, d, p) ==
    /\ document[d].status = "NONE"
    /\ v.partner[p] \in {"APPLICATION", "DOCUMENT_VERIFICATION"}
    /\ SetDocument(d, [partner |-> p, status |-> "PENDING"])

UploadDocument(d) ==
    /\ document[d].status \in {"PENDING", "REJECTED"}
    /\ SetDocument(d, [document[d] EXCEPT !.status = "UPLOADED"])

DecideDocument(d, verdict) ==
    /\ document[d].status = "UPLOADED"
    /\ SetDocument(d, [document[d] EXCEPT !.status = verdict])

DocumentsOf(p) == {d \in Document : document[d].partner = p}

(* mutant: a partner nobody asked for documents has none to verify *)
CompleteDocumentVerification_NoneAsked(p) ==
    /\ \A d \in DocumentsOf(p) : document[d].status = "VERIFIED"
    /\ MovePartner(p, {"DOCUMENT_VERIFICATION"}, "AGREEMENT_PENDING")

CompleteDocumentVerification(p) ==
    /\ DocumentsOf(p) # {}
    /\ \A d \in DocumentsOf(p) : document[d].status = "VERIFIED"
    /\ MovePartner(p, {"DOCUMENT_VERIFICATION"}, "AGREEMENT_PENDING")

SetAgreement(a, row) ==
    /\ agreement' = [agreement EXCEPT ![a] = row]
    /\ UNCHANGED <<partner, compliant, assigned, document, structure, registration, booking,
                   money, view>>

CreateAgreement(v, a, p, window) ==
    /\ agreement[a].status = "NONE"
    /\ v.partner[p] = "AGREEMENT_PENDING"
    /\ SetAgreement(a, [partner |-> p, status |-> "DRAFT", window |-> window])

UploadSignedAgreement(a) ==
    /\ agreement[a].status = "DRAFT"
    /\ partner[agreement[a].partner] = "AGREEMENT_PENDING"
    /\ SetAgreement(a, [agreement[a] EXCEPT !.status = "SIGNED"])

(* A signature is never taken back, so the plain read of it can only miss *)
(* one: it never shows one that is not there.                              *)
SubmitApproval(p) ==
    /\ \E a \in Agreement : /\ agreement[a].partner = p
                            /\ agreement[a].status = "SIGNED"
                            /\ agreement[a].window = "current"
    /\ MovePartner(p, {"AGREEMENT_PENDING"}, "APPROVAL_PENDING")

DecideApproval(p) == \E verdict \in {"APPROVED", "REJECTED"} :
    MovePartner(p, {"APPROVAL_PENDING"}, verdict)

InForce(s) == s.rate # None /\ s.window = "current"

(* The structure is looked for in the view.                                *)
Activate(v, p) ==
    /\ p \in compliant
    /\ \E s \in Scope : InForce(v.structure[p][s])
    /\ MovePartner(p, {"APPROVED"}, "ACTIVE")

SetOperationalStatus(p, status) == MovePartner(p, Operational, status)

(* A new structure replaces the active one of its scope.                   *)
CreateCommissionStructure(p, s, rate, window) ==
    /\ partner[p] # "NONE"
    /\ structure' = [structure EXCEPT ![p][s] = [rate |-> rate, window |-> window]]
    /\ UNCHANGED <<partner, vetting, registration, booking, money, view>>

(* Days pass: agreements and structures come into force and run out, and   *)
(* the protection of a contact ends.                                       *)
Later(window) == CASE window = "future" -> "current" [] OTHER -> "past"

AgreementAges(a) ==
    /\ agreement[a].status # "NONE" /\ agreement[a].window # "past"
    /\ SetAgreement(a, [agreement[a] EXCEPT !.window = Later(@)])

StructureAges(p, s) ==
    /\ structure[p][s].rate # None /\ structure[p][s].window # "past"
    /\ structure' = [structure EXCEPT ![p][s].window = Later(@)]
    /\ UNCHANGED <<partner, vetting, registration, booking, money, view>>

ProtectionEnds(r) ==
    /\ registration[r].protected
    /\ registration' = [registration EXCEPT ![r].protected = FALSE]
    /\ UNCHANGED <<partner, vetting, structure, booking, money, view>>

-----------------------------------------------------------------------------
(* Protected leads.                                                        *)

(* mutant: a contact is a conflict only when all of it is known *)
RegisterLead_WholeMatch(r, p, keys) ==
    /\ partner[p] = "ACTIVE"
    /\ registration[r].partner = None
    /\ \A q \in Registration : ~(keys \subseteq registration[q].keys)
    /\ registration' = [registration EXCEPT ![r] =
                           [partner |-> p, keys |-> keys, protected |-> TRUE]]
    /\ UNCHANGED <<partner, vetting, structure, booking, money, view>>

(* The search for a protected registration refuses most conflicts; the     *)
(* unique keys, which are never cleared, refuse the others too, even when *)
(* the protection has run out.                                             *)
RegisterLead(r, p, keys) ==
    /\ partner[p] = "ACTIVE"
    /\ registration[r].partner = None
    /\ \A q \in Registration : keys \cap registration[q].keys = {}
    /\ registration' = [registration EXCEPT ![r] =
                           [partner |-> p, keys |-> keys, protected |-> TRUE]]
    /\ UNCHANGED <<partner, vetting, structure, booking, money, view>>

-----------------------------------------------------------------------------
(* Sales through a partner.  A booking's lead must not be protected for    *)
(* another partner; a booking for some other lead always can be made.      *)

CreateBooking(v, b, p, j) ==
    /\ booking[b].status = "NONE"
    /\ v.partner[p] = "ACTIVE"
    /\ j \in v.assigned[p]
    /\ booking' = [booking EXCEPT ![b] = [partner |-> p, project |-> j, status |-> "OPEN"]]
    /\ UNCHANGED <<partner, vetting, structure, registration, money, view>>

EndBooking(b) ==
    /\ booking[b].status = "OPEN"
    /\ booking' = [booking EXCEPT ![b].status = "CANCELLED"]
    /\ UNCHANGED <<partner, vetting, structure, registration, money, view>>

(* The structures that apply to a booking, the project's own before the    *)
(* general one.  Without any the confirmation fails as a whole.            *)
Applicable(v, b) ==
    LET own == v.structure[booking[b].partner][booking[b].project]
        general == v.structure[booking[b].partner][None]
    IN  IF InForce(own) THEN {own} ELSE {s \in {general} : InForce(s)}

ConfirmBooking(v, b) ==
    /\ booking[b].status = "OPEN"
    /\ \E s \in Applicable(v, b) :
          commission' = [commission EXCEPT ![b] =
                            [status |-> "ELIGIBLE", amount |-> s.rate, payout |-> None]]
    /\ booking' = [booking EXCEPT ![b].status = "CONFIRMED"]
    /\ UNCHANGED <<partner, vetting, structure, registration, payout, view>>

(* mutant: only a commission nobody has approved yet is reversed *)
CompleteCancellation_EligibleOnly(b) ==
    /\ booking[b].status = "CONFIRMED"
    /\ booking' = [booking EXCEPT ![b].status = "CANCELLED"]
    /\ commission' = [commission EXCEPT ![b].status = IF @ = "ELIGIBLE" THEN "REVERSED" ELSE @]
    /\ UNCHANGED <<partner, vetting, structure, registration, payout, view>>

(* Whatever the commission's status, paid included.                        *)
CompleteCancellation(b) ==
    /\ booking[b].status = "CONFIRMED"
    /\ booking' = [booking EXCEPT ![b].status = "CANCELLED"]
    /\ commission' = [commission EXCEPT ![b].status = "REVERSED"]
    /\ UNCHANGED <<partner, vetting, structure, registration, payout, view>>

-----------------------------------------------------------------------------
(* Commissions and payouts.                                                *)

SettleCommissions(commissions, payouts) ==
    /\ commission' = commissions
    /\ payout' = payouts
    /\ UNCHANGED <<partner, vetting, structure, registration, booking, view>>

DecideCommission(b) ==
    /\ commission[b].status = "ELIGIBLE"
    /\ commission[b].payout = None
    /\ \E verdict \in {"APPROVED", "REVERSED"} :
          SettleCommissions([commission EXCEPT ![b].status = verdict], payout)

Total(bookings) == SumFunction([b \in bookings |-> commission[b].amount])
Linked(o) == {b \in Booking : commission[b].payout = o}

Payable(p) ==
    {b \in Booking : /\ booking[b].partner = p
                     /\ commission[b].status = "APPROVED"
                     /\ commission[b].payout = None}

RequestPayout(o, p, bookings) ==
    /\ partner[p] = "ACTIVE"
    /\ payout[o].status = "NONE"
    /\ bookings \subseteq Payable(p)
    /\ SettleCommissions(
          [b \in Booking |-> IF b \in bookings THEN [commission[b] EXCEPT !.payout = o]
                                               ELSE commission[b]],
          [payout EXCEPT ![o] = [partner |-> p, status |-> "PENDING",
                                 amount |-> Total(bookings), members |-> bookings]])

ApprovePayout(o) ==
    /\ payout[o].status = "PENDING"
    /\ SettleCommissions(commission, [payout EXCEPT ![o].status = "PROCESSING"])

(* mutant: a rejected payout keeps its commissions *)
RejectPayout_KeepsLinks(o) ==
    /\ payout[o].status = "PENDING"
    /\ SettleCommissions(commission, [payout EXCEPT ![o].status = "FAILED"])

(* mutant: the verdict is stored as the payout's status *)
RejectPayout_VerdictAsStatus(o) ==
    /\ payout[o].status = "PENDING"
    /\ SettleCommissions(commission, [payout EXCEPT ![o].status = "REJECTED"])

RejectPayout(o) ==
    /\ payout[o].status = "PENDING"
    /\ SettleCommissions(
          [b \in Booking |-> IF b \in Linked(o) THEN [commission[b] EXCEPT !.payout = None]
                                                ELSE commission[b]],
          [payout EXCEPT ![o].status = "FAILED"])

(* The amount is compared again, the commissions' statuses are not.        *)
ProcessPayout(o) ==
    /\ payout[o].status = "PROCESSING"
    /\ Total(Linked(o)) = payout[o].amount
    /\ SettleCommissions(
          [b \in Booking |-> IF b \in Linked(o) THEN [commission[b] EXCEPT !.status = "PAID"]
                                                ELSE commission[b]],
          [payout EXCEPT ![o].status = "COMPLETED"])

-----------------------------------------------------------------------------
VettingStep ==
    \/ \E p \in Partner :
          \/ CreateApplication(p) \/ StartDocumentVerification(p)
          \/ CompleteDocumentVerification(p) \/ SubmitApproval(p) \/ DecideApproval(p)
          \/ UpdateCompliance(p)
    \/ \E p \in Partner, v \in Views : Activate(v, p)
    \/ \E p \in Partner, status \in Operational : SetOperationalStatus(p, status)
    \/ \E p \in Partner, projects \in SUBSET Project : UpdateAssignments(p, projects)
    \/ \E v \in Views, d \in Document, p \in Partner : RequestDocument(v, d, p)
    \/ \E d \in Document : UploadDocument(d)
    \/ \E d \in Document, verdict \in {"VERIFIED", "REJECTED"} : DecideDocument(d, verdict)
    \/ \E v \in Views, a \in Agreement, p \in Partner, w \in Windows : CreateAgreement(v, a, p, w)
    \/ \E a \in Agreement : UploadSignedAgreement(a) \/ AgreementAges(a)

TermsStep ==
    \/ \E p \in Partner, s \in Scope, rate \in Rates, w \in Windows :
          CreateCommissionStructure(p, s, rate, w)
    \/ \E p \in Partner, s \in Scope : StructureAges(p, s)
    \/ \E r \in Registration, p \in Partner, keys \in SUBSET Contact \ {{}} :
          RegisterLead(r, p, keys)
    \/ \E r \in Registration : ProtectionEnds(r)

SaleStep ==
    \/ \E v \in Views, b \in Booking, p \in Partner, j \in Project : CreateBooking(v, b, p, j)
    \/ \E v \in Views, b \in Booking : ConfirmBooking(v, b)
    \/ \E b \in Booking : EndBooking(b) \/ CompleteCancellation(b) \/ DecideCommission(b)

PayoutStep ==
    \/ \E o \in Payout, p \in Partner, bookings \in SUBSET Booking \ {{}} :
          RequestPayout(o, p, bookings)
    \/ \E o \in Payout : ApprovePayout(o) \/ RejectPayout(o) \/ ProcessPayout(o)

Next ==
    \/ \E s \in Session : Begin(s)
    \/ VettingStep
    \/ TermsStep
    \/ SaleStep
    \/ PayoutStep

Spec == Init /\ [][Next]_vars

-----------------------------------------------------------------------------
(* Properties.                                                             *)

(* Nobody sells before the vetting is through: a partner that was ever     *)
(* activated, and everyone a commission is owed to, has a verified         *)
(* document, a signed agreement and its tax and bank details on file.      *)
Vetted(p) ==
    /\ p \in compliant
    /\ \E d \in DocumentsOf(p) : document[d].status = "VERIFIED"
    /\ \E a \in Agreement : agreement[a].partner = p /\ agreement[a].status = "SIGNED"
OnlyVettedSell ==
    /\ \A p \in Partner : partner[p] \in Operational => Vetted(p)
    /\ \A b \in Booking : commission[b].status # "NONE" => Vetted(booking[b].partner)

(* "This contact is protected for another partner": two registrations in   *)
(* force never share an address or a number.                               *)
OneProtector ==
    \A q, r \in Registration :
        q # r /\ registration[q].protected /\ registration[r].protected
            => registration[q].keys \cap registration[r].keys = {}

(* A payout has the commissions its audit entry lists, all of them its own *)
(* partner's; a rejected payout lets every commission go; and a            *)
(* commission's money leaves once, and only after its own decision: it is  *)
(* in at most one payout that was not rejected.                            *)
PayoutsApart ==
    /\ \A o \in Payout :
          /\ payout[o].status \in {"PENDING", "PROCESSING", "COMPLETED"} =>
                /\ Linked(o) = payout[o].members
                /\ \A b \in Linked(o) : booking[b].partner = payout[o].partner
          /\ payout[o].status = "FAILED" => Linked(o) = {}
    /\ \A b \in Booking : \A o, q \in Payout :
          /\ b \in payout[o].members /\ payout[o].status # "FAILED"
          /\ b \in payout[q].members /\ payout[q].status # "FAILED"
          => o = q
    /\ \A b \in Booking : commission[b].payout # None => commission[b].status # "ELIGIBLE"

(* What a payout pays is the sum of the commissions that are in it.        *)
PayoutsAddUp ==
    /\ PayoutsApart
    /\ \A o \in Payout : payout[o].status \in {"PENDING", "PROCESSING", "COMPLETED"} =>
          payout[o].amount = Total(payout[o].members)

(* A commission is owed only while its sale stands.                        *)
OwedOnSales ==
    \A b \in Booking : commission[b].status \in {"ELIGIBLE", "APPROVED"} =>
        booking[b].status = "CONFIRMED"

(* "A payout groups zero or more approved commissions": one that was       *)
(* reversed stays reversed, and is not paid.                               *)
ReversedStays ==
    [][\A b \in Booking : commission[b].status = "REVERSED" =>
          commission'[b].status = "REVERSED"]_vars
=============================================================================
