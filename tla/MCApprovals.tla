----------------------------- MODULE MCApprovals -----------------------------
(* Model checking of Approvals.                                             *)
EXTENDS Approvals, TLC

Symmetry == Permutations(Deciders) \cup Permutations(Items)

=============================================================================
