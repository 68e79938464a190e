----------------------------- MODULE UnitPromise -----------------------------
(* UnitInventory implements UnitClaims: a claim is a row that holds the    *)
(* unit's active_unit_key, and the unit's own status says how far it is.   *)
EXTENDS UnitInventory

(* Holds and bookings are rows of two tables, and claimants of one set.    *)
ASSUME IdentitiesAssumption == Hold \cap Booking = {}

Kept(u) == u \notin trespassed

Stage(u) ==
    IF ~Kept(u) THEN "contested"
    ELSE CASE unit[u] = "NONE" -> "unlisted"
           [] unit[u] = "AVAILABLE" -> "open"
           [] unit[u] = "CANCELLED_RELEASED" -> "withheld"
           [] unit[u] \in HoldType -> "held"
           [] unit[u] = "BOOKING_INITIATED" -> "booking"
           [] OTHER -> "sold"

Claim(u) == IF Kept(u) THEN HoldsKeyedTo(u) \cup BookingsKeyedTo(u) ELSE {}

Followed(h) == hold[h].key /\ Kept(hold[h].unit)

Claims == INSTANCE UnitClaims WITH
    stage <- [u \in Unit |-> Stage(u)],
    claim <- [u \in Unit |-> Claim(u)],
    approved <- {h \in Hold : Followed(h) /\ hold[h].status = "ACTIVE"},
    overdue <- {h \in Hold : Followed(h) /\ hold[h].due},
    spent <- {h \in Hold : hold[h].status # "NONE"}
             \cup {b \in Booking : booking[b].status # "NONE"}

(* Every step of the handlers is a step the promise allows, or none.       *)
PromiseKept == Claims!Spec
=============================================================================
