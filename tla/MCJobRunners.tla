---------------------------- MODULE MCJobRunners ----------------------------
(* Model checking of JobRunners.                                            *)
EXTENDS JobRunners, TLC

Symmetry == Permutations(Threads) \cup Permutations(Rows) \cup Permutations(Requesters)

=============================================================================
