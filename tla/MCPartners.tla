------------------------------ MODULE MCPartners ------------------------------
(***************************************************************************)
(* Channel partners with the values TLC checks them on.  Each behaviour is *)
(* of one kind: a partner's way to its first sale, with requests that race;*)
(* registrations and payouts, by requests that follow one another.  The    *)
(* kinds differ in which rows there are, and in nothing else.              *)
(***************************************************************************)
EXTENDS ChannelPartners, TLC

VARIABLE kind

(* One sale, nothing registered or paid, and no wait for a date.           *)
FirstSale ==
    /\ Cardinality({b \in Booking : booking[b].status # "NONE"}) <= 1
    /\ \A r \in Registration : registration[r].partner = None
    /\ \A o \in Payout : payout[o].status = "NONE"
    /\ \A a \in Agreement : agreement[a].window # "future"
    /\ \A p \in Partner, s \in Scope : structure[p][s].window # "future"

(* One compliance document, one commission structure, and no old reads.    *)
OneByOne ==
    /\ Cardinality({d \in Document : document'[d].status # "NONE"}) <= 1
    /\ \A p \in Partner : Cardinality({s \in Scope : structure'[p][s].rate # None}) <= 1
    /\ UNCHANGED view

PartnersInit ==
    /\ kind \in {"payouts", "races"}
    /\ Init

PartnersNext ==
    /\ UNCHANGED kind
    /\ Next
    /\ IF kind = "races" THEN FirstSale' ELSE OneByOne

PartnersSpec == PartnersInit /\ [][PartnersNext]_<<kind, vars>>

Symmetry == Permutations(Document) \cup Permutations(Contact)
            \cup Permutations(Registration) \cup Permutations(Booking)
            \cup Permutations(Payout)
=============================================================================
