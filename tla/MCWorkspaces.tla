---------------------------- MODULE MCWorkspaces ----------------------------
(* Model checking of Workspaces.                                            *)
EXTENDS Workspaces, TLC

Symmetry == Permutations(Users \ {DemoUser}) \cup Permutations(Workspaces)

=============================================================================
