-------------------------- MODULE MCCheckPipeline --------------------------
(* Model checking of CheckPipeline: surfaces, threads and requests are      *)
(* interchangeable.                                                         *)
EXTENDS CheckPipeline, TLC

Symmetry == Permutations(Surfaces) \cup Permutations(Threads)
            \cup Permutations(Requesters)

=============================================================================
