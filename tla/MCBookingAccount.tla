-------------------------- MODULE MCBookingAccount --------------------------
(* BookingAccount with the values on which TLC refutes what the code says. *)
EXTENDS BookingAccount, TLC

Halves == {<<1, 1>>}
Symmetry == Permutations(Payment) \cup Permutations(Refund)
            \cup Permutations(Cancellation)
=============================================================================
