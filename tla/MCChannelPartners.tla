-------------------------- MODULE MCChannelPartners --------------------------
(* ChannelPartners with the values TLC checks it on.                       *)
EXTENDS ChannelPartners, TLC

Symmetry == Permutations(Document) \cup Permutations(Agreement)
            \cup Permutations(Registration) \cup Permutations(Contact)
            \cup Permutations(Booking) \cup Permutations(Payout)
=============================================================================
