------------------------------- MODULE MCMux -------------------------------
(* LosMux and its refinement for TLC. *)
EXTENDS LosMuxRefinement

CONSTANTS t1, t2, t3, m1, m2

Tasks2 == {t1, t2}
Tasks3 == {t1, t2, t3}
Mux1 == {m1}
Mux2 == {m1, m2}

Timeouts == {NoTime, 0, 1}

\* Bound: three tasks with one mutex; or two tasks, which suspend each other, with
\* two mutexes, which they nest.
ThreeTasksOrTwoMutexes ==
    \/ /\ Cardinality({m \in Mux : Used(m)}) <= 1
       /\ \A x \in handles : ~Has(kernel, x, {"SUSPEND"})
    \/ Cardinality({x \in Task : Created(x)}) <= 2

Symmetry == Permutations(Task) \cup Permutations(Mux)

=============================================================================
