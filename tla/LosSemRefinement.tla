-------------------------- MODULE LosSemRefinement --------------------------
EXTENDS LosSem

(***************************************************************************)
(* The semaphore s implements the abstract one: whether the call of a task *)
(* will succeed is in its status, PEND while it waits, then TIMEOUT or     *)
(* not; the status, the wait list and the counter stay consistent under    *)
(* every interleaving of posts, timeouts, suspensions and deletions.       *)
(***************************************************************************)
InPend(s) == {t \in Task : arg[t] = s /\ Contains(todo[t], "result")}
Handed(s) == {t \in InPend(s) : ~Has(kernel, t, {"PEND", "TIMEOUT"})}
TimedOut(s) == {t \in InPend(s) : ~Has(kernel, t, {"PEND"}) /\ Has(kernel, t, {"TIMEOUT"})}

Abstract(s) == INSTANCE Semaphore WITH
    Client <- Task,
    open <- Used(s), count <- semCB[s].count, limit <- semCB[s].max,
    waiting <- kernel.pend[s],
    granted <- Handed(s), expired <- TimedOut(s)

\* From its creation on, every step of the system is for each semaphore a step of
\* the abstract one or none: no wake-up is lost or given twice, no call returns
\* both, waiters are served in the order they came, no token appears.
EachIsASemaphore ==
    /\ \A s \in Sem : Abstract(s)!Init
    /\ [][\A s \in Sem : UNCHANGED Abstract(s)!semaphore \/ Abstract(s)!Next]_allSemVars

=============================================================================
