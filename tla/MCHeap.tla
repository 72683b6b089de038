------------------------------- MODULE MCHeap -------------------------------
(* LosMemory and its refinement for TLC. *)
EXTENDS LosMemoryRefinement

=============================================================================
