------------------------------- MODULE MCAccess -------------------------------
(* Access with the values TLC checks it on.                                *)
EXTENDS Access, TLC

Administrators == [r \in {Admin} |-> Permission]
Nobody == [r \in {} |-> {}]
=============================================================================
