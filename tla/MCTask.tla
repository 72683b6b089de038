------------------------------- MODULE MCTask -------------------------------
(* LosTask for TLC. *)
EXTENDS LosTask

CONSTANTS t1, t2, t3

Tasks2 == {t1, t2}
Tasks3 == {t1, t2, t3}

\* Nothing tells tasks apart but the order of the free list, and Init has all.
TaskSymmetry == Permutations(Task)

=============================================================================
