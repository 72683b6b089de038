------------------------------ MODULE MCQueue ------------------------------
(* LosMail, on its LosQueue and the refinement of that, for TLC. *)
EXTENDS LosMail, LosQueueRefinement

CONSTANTS t1, t2, t3, q1, m1, m2, b1, b2

Tasks2 == {t1, t2}
Tasks3 == {t1, t2, t3}
Queues1 == {q1}
Lists == Queues1 \X {"READ", "WRITE", "MEM"}
Msgs == {m1, m2}
Blocks2 == {b1, b2}

\* One message is written at the tail and the other one at the head.
QueueJobs == {[rw |-> "READ", at |-> "HEAD", msg |-> NoMsg],
              [rw |-> "WRITE", at |-> "TAIL", msg |-> m1],
              [rw |-> "WRITE", at |-> "HEAD", msg |-> m2]}

\* A short timeout and LOS_WAIT_FOREVER; no wait at all.
Timeouts == {NoTime, 0, 1}

\* Bound: in one state the application uses messages or mails, not both.
MessagesOrMails ==
    \/ out \cup InHand \cup gone = {}
    \/ \A q \in Queue : /\ Filled(q) = {}
                        /\ \A rw \in RW : kernel.pend[<<q, rw>>] = <<>> /\ lost[q][rw] = 0

Symmetry == Permutations(Task) \cup Permutations(Block)

=============================================================================
