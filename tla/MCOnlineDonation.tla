-------------------------- MODULE MCOnlineDonation --------------------------
(***************************************************************************)
(* Symmetry for the runs of OnlineDonation on its own.                     *)
(***************************************************************************)
EXTENDS OnlineDonation, TLC

Symmetry == Permutations(Donations) \cup Permutations(Payments) \cup Permutations(Requests)

=============================================================================
