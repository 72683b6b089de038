------------------------------- MODULE MCLive -------------------------------
(* LosLive for TLC. *)
EXTENDS LosLive

CONSTANTS t1, t2, t3, s1

Tasks2 == {t1, t2}
Tasks3 == {t1, t2, t3}
Sems1 == {s1}

Timeouts == {NoTime, 1}

=============================================================================
