------------------------------ MODULE Documents ------------------------------
(***************************************************************************)
(* services/documents.py: the papers of one customer, from the request to  *)
(* the verdict, in versions, each of which may run out; and the bookings   *)
(* that ask whether any of them is verified (_has_verified_kyc).           *)
(*                                                                         *)
(* An action is one request, at its commit.  Handlers lock the document    *)
(* they change.  Only expire_due_documents, which runs inside reads and    *)
(* before bookings look at the papers, decides on a plain read: the read   *)
(* view v.  Requests end on the day they began.                            *)
(***************************************************************************)
EXTENDS Integers

CONSTANTS
    Document,   \* identities for documents
    Reviewer,   \* users with documents.approve
    Manager,    \* and those with documents.manage
    LastDay,    \* the last day there is
    None        \* SQL NULL

Statuses == {"NONE", "PENDING", "UPLOADED", "UNDER_REVIEW", "VERIFIED", "REJECTED", "EXPIRED"}
EXPIRABLE_STATUSES == {"PENDING", "UPLOADED", "UNDER_REVIEW", "VERIFIED"}
Date == 0..LastDay \cup {None}

VARIABLES
    today,
    document,   \* customer_documents; `file' tells whether there is a storage key
    old,        \* read views of requests that began some time ago
    lapsed      \* history only: documents that a booking counted after their date

vars == <<today, document, old, lapsed>>

Views == {document} \cup old

CustomerDocument ==
    [status: Statuses, set: Document \cup {None}, version: Nat, current: BOOLEAN,
     file: BOOLEAN, expiry: Date, reviewer: Reviewer \cup {None}]

Known == {d \in Document : document[d].status # "NONE"}
Versions(d) == {e \in Known : document[e].set = document[d].set}

TypeOK ==
    /\ today \in 0..LastDay
    /\ \A view \in Views : view \in [Document -> CustomerDocument]
    /\ lapsed \subseteq Known
    (* versions of a set are counted from the request that began it *)
    /\ \A d \in Known : document[d].set \in Known /\ document[d].version >= 1

NoDocument == [status |-> "NONE", set |-> None, version |-> 0, current |-> FALSE, file |-> FALSE,
               expiry |-> None, reviewer |-> None]

Init ==
    /\ today = 0
    /\ document = [d \in Document |-> NoDocument]
    /\ old = {}
    /\ lapsed = {}

(* A request begins, and lets others go first.                             *)
Begin ==
    /\ old' = {document}
    /\ UNCHANGED <<today, document, lapsed>>

NextDay ==
    /\ today < LastDay
    /\ today' = today + 1
    /\ old' = {}
    /\ UNCHANGED <<document, lapsed>>

-----------------------------------------------------------------------------
Past(d) == document[d].expiry # None /\ document[d].expiry < today
ValidExpiry(expiry) == expiry # None => expiry >= today

(* A paper is asked for; it comes, and may come in a newer version as long *)
(* as it is the current one.                                               *)
CreateRequest(d, expiry) ==
    /\ document[d].status = "NONE"
    /\ ValidExpiry(expiry)
    /\ document' = [document EXCEPT ![d] =
          [status |-> "PENDING", set |-> d, version |-> 1, current |-> TRUE, file |-> FALSE,
           expiry |-> expiry, reviewer |-> None]]
    /\ UNCHANGED <<today, old, lapsed>>

Uploaded(row) == [row EXCEPT !.status = "UPLOADED", !.file = TRUE, !.reviewer = None]

UploadInitial(d) ==
    /\ document[d].current /\ document[d].status = "PENDING" /\ ~document[d].file
    /\ ValidExpiry(document[d].expiry)
    /\ document' = [document EXCEPT ![d] = Uploaded(@)]
    /\ UNCHANGED <<today, old, lapsed>>

(* The keys of customer_documents refuse a version that exists, and a      *)
(* second current one.                                                     *)
UploadVersion(d, next, expiry) ==
    LET given == IF expiry # None THEN expiry ELSE document[d].expiry
        version == document[d].version + 1
    IN  /\ document[d].current /\ document[d].file
        /\ document[next].status = "NONE"
        /\ ValidExpiry(given)
        /\ \A e \in Versions(d) \ {d} : ~document[e].current /\ document[e].version # version
        /\ document' = [document EXCEPT
              ![d].current = FALSE,
              ![next] = Uploaded([document[d] EXCEPT !.version = version, !.expiry = given])]
        /\ UNCHANGED <<today, old, lapsed>>

-----------------------------------------------------------------------------
(* A review has a reviewer, who decides, unless a manager does.  Nobody    *)
(* looks at the date.                                                      *)
StartReview(d, reviewer) ==
    /\ document[d].current /\ document[d].status = "UPLOADED"
    /\ document' = [document EXCEPT ![d].status = "UNDER_REVIEW", ![d].reviewer = reviewer]
    /\ UNCHANGED <<today, old, lapsed>>

DecideReview(d, actor, verdict) ==
    /\ document[d].current /\ document[d].status = "UNDER_REVIEW"
    /\ actor = document[d].reviewer \/ actor \in Manager
    /\ document' = [document EXCEPT ![d].status = verdict]
    /\ UNCHANGED <<today, old, lapsed>>

-----------------------------------------------------------------------------
(* What v shows as current and overdue; its row is written as it is now.   *)
Due(v) == {d \in Document :
    /\ v[d].current /\ v[d].status \in EXPIRABLE_STATUSES
    /\ v[d].expiry # None /\ v[d].expiry < today}

Expired(due) == [d \in Document |->
    IF d \in due THEN [document[d] EXCEPT !.status = "EXPIRED"] ELSE document[d]]

ExpireDueDocuments(v) ==
    /\ Due(v) # {}
    /\ document' = Expired(Due(v))
    /\ UNCHANGED <<today, old, lapsed>>

Verified(rows) == {d \in Document : rows[d].current /\ rows[d].status = "VERIFIED"}

(* mutant: as readiness in property_lifecycle.py does it                   *)
RelyOnKyc_AsItIs(v) ==
    /\ Verified(v) # {}
    /\ lapsed' = lapsed \cup {d \in Verified(v) : Past(d)}
    /\ UNCHANGED <<today, document, old>>

(* A booking is created, advanced or put up for approval: what is due      *)
(* expires, and if that was committed, the search has a new snapshot.      *)
RelyOnKyc(v) ==
    LET rows == IF Due(v) = {} THEN v ELSE Expired(Due(v)) IN
    /\ Verified(rows) # {}
    /\ document' = Expired(Due(v))
    /\ lapsed' = lapsed \cup {d \in Verified(rows) : Past(d)}
    /\ UNCHANGED <<today, old>>

-----------------------------------------------------------------------------
Next ==
    \/ Begin
    \/ NextDay
    \/ \E d \in Document :
          \/ \E expiry \in Date : CreateRequest(d, expiry)
          \/ UploadInitial(d)
          \/ \E next \in Document, expiry \in Date : UploadVersion(d, next, expiry)
          \/ \E reviewer \in Reviewer : StartReview(d, reviewer)
          \/ \E actor \in Reviewer, verdict \in {"VERIFIED", "REJECTED"} :
                DecideReview(d, actor, verdict)
    \/ \E v \in Views : ExpireDueDocuments(v) \/ RelyOnKyc(v)

-----------------------------------------------------------------------------
(* Of a paper's versions one is current, and it is the newest; what was    *)
(* looked at has a file; what expired is past its date, however old the    *)
(* reading that found it so; and no booking goes on with a paper that is,  *)
(* although it may have been verified after its date.                      *)
NewestCounts ==
    /\ \A d \in Known :
          /\ document[d].current <=> \A e \in Versions(d) : document[e].version <= document[d].version
          /\ \A e \in Versions(d) \ {d} : document[e].version # document[d].version
          /\ document[d].status \in {"UNDER_REVIEW", "VERIFIED", "REJECTED"} => document[d].file
          /\ document[d].status = "EXPIRED" => Past(d)
    /\ lapsed = {}
=============================================================================
