-------------------------- MODULE MCUnitInventory --------------------------
(* UnitInventory with the values TLC checks it on.                         *)
EXTENDS UnitPromise, TLC

Rows == Permutations(Hold) \cup Permutations(Booking)
People == Rows \cup Permutations(User) \cup Permutations(Customer)
Symmetry == People \cup Permutations(Unit)
=============================================================================
