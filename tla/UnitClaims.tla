----------------------------- MODULE UnitClaims -----------------------------
(***************************************************************************)
(* What the inventory promises, without sessions, statuses or keys: a unit *)
(* is claimed by one hold or one booking at a time, a claim is taken only *)
(* from nobody, from an overdue hold, or by a booking from an approved     *)
(* hold, and a claimant that lost its claim never has it again.           *)
(*                                                                         *)
(* The one thing the promise leaves open is Contest: the inventory lets a *)
(* booking that lost a unit write over the claim of its next holder, and  *)
(* nothing is promised about such a unit afterwards.                       *)
(***************************************************************************)
CONSTANTS Unit, Hold, Booking

VARIABLES
    stage,      \* how far each unit's sale has come
    claim,      \* the holds and bookings that claim each unit: one at most
    approved,   \* the claiming holds that may be booked
    overdue,    \* the claiming holds whose time is up
    spent       \* every hold and booking that ever claimed a unit

vars == <<stage, claim, approved, overdue, spent>>

Claimant == Hold \cup Booking

Init ==
    /\ stage = [u \in Unit |-> "unlisted"]
    /\ claim = [u \in Unit |-> {}]
    /\ approved = {}
    /\ overdue = {}
    /\ spent = {}

(* Between claims a unit is listed, put on offer, or withdrawn.            *)
Offer(u) ==
    /\ stage[u] \in {"unlisted", "open", "withheld"}
    /\ \E s \in {"unlisted", "open", "withheld"} : stage' = [stage EXCEPT ![u] = s]
    /\ UNCHANGED <<claim, approved, overdue, spent>>

(* Nobody's claim stands in the way.                                       *)
Takeable(u) == stage[u] = "open" \/ (stage[u] = "held" /\ claim[u] \subseteq overdue)

Take(u, x, s) ==
    /\ x \notin spent
    /\ stage' = [stage EXCEPT ![u] = s]
    /\ claim' = [claim EXCEPT ![u] = {x}]
    /\ approved' = approved \ claim[u]
    /\ overdue' = overdue \ claim[u]
    /\ spent' = spent \cup {x}

Reserve(u, h) == Takeable(u) /\ Take(u, h, "held")

Approve(h) ==
    /\ \E u \in Unit : stage[u] = "held" /\ claim[u] = {h}
    /\ h \notin overdue
    /\ approved' = approved \cup {h}
    /\ UNCHANGED <<stage, claim, overdue, spent>>

FallDue(h) ==
    /\ \E u \in Unit : stage[u] = "held" /\ claim[u] = {h}
    /\ overdue' = overdue \cup {h}
    /\ UNCHANGED <<stage, claim, approved, spent>>

(* Several holds may end at once, when they are overdue.                   *)
Free(U, s) ==
    /\ stage' = [u \in Unit |-> IF u \in U THEN s ELSE stage[u]]
    /\ claim' = [u \in Unit |-> IF u \in U THEN {} ELSE claim[u]]
    /\ approved' = approved \ UNION {claim[u] : u \in U}
    /\ overdue' = overdue \ UNION {claim[u] : u \in U}
    /\ UNCHANGED spent

Lapse(U) == (\A u \in U : stage[u] = "held" /\ claim[u] \subseteq overdue) /\ Free(U, "open")
EndHold(u) == stage[u] = "held" /\ Free({u}, "open")

Book(u, b) ==
    /\ Takeable(u) \/ (stage[u] = "held" /\ claim[u] \subseteq approved)
    /\ Take(u, b, "booking")

Sell(u) ==
    /\ stage[u] = "booking"
    /\ stage' = [stage EXCEPT ![u] = "sold"]
    /\ UNCHANGED <<claim, approved, overdue, spent>>

EndBooking(u) == stage[u] \in {"booking", "sold"} /\ Free({u}, "withheld")

Contest(u) == stage[u] \in {"held", "booking", "sold"} /\ Free({u}, "contested")

(* Claims on a contested unit are not followed, only that they are spent. *)
TakeContested(u, x) ==
    /\ stage[u] = "contested"
    /\ x \notin spent
    /\ spent' = spent \cup {x}
    /\ UNCHANGED <<stage, claim, approved, overdue>>

Next ==
    \/ \E u \in Unit : Offer(u) \/ EndHold(u) \/ Sell(u) \/ EndBooking(u) \/ Contest(u)
    \/ \E u \in Unit, h \in Hold : Reserve(u, h)
    \/ \E u \in Unit, b \in Booking : Book(u, b)
    \/ \E u \in Unit, x \in Claimant : TakeContested(u, x)
    \/ \E h \in Hold : Approve(h) \/ FallDue(h)
    \/ \E U \in SUBSET Unit : Lapse(U)

Spec == Init /\ [][Next]_vars
=============================================================================
