------------------------- MODULE LosQueueRefinement -------------------------
EXTENDS LosQueue

(***************************************************************************)
(* The queue q implements the abstract one: its content is what the nodes  *)
(* from the head on hold, as many as are filled, and the tasks in their    *)
(* calls are told apart by the wait lists and by PEND and TIMEOUT in their *)
(* status.                                                                 *)
(***************************************************************************)
Content(q) ==
    [i \in 1 .. Cardinality(Filled(q)) |->
        queueCB[q].node[(queueCB[q].head + i - 1) % queueCB[q].len]]

InCall(q, rw) == {t \in Task : arg[t] = <<q, rw>> /\ Contains(todo[t], "result")}
GaveUp(q, rw) ==
    {t \in InCall(q, rw) : ~Has(kernel, t, {"PEND"}) /\ Has(kernel, t, {"TIMEOUT"})}

WaitingOn(q) == [rw \in RW |-> kernel.pend[<<q, rw>>]]
GrantedBy(q) == [rw \in RW |-> Reserved(q, rw)]
ExpiredOn(q) == [rw \in RW |-> GaveUp(q, rw)]
JobsOn(q) == [t \in Task |-> IF \E rw \in RW : t \in InCall(q, rw) THEN job[t] ELSE NoJob]

AbstractQueue(q) == INSTANCE BoundedQueue WITH
    Client <- Task, Jobs <- Job, Capacity <- QueueLen,
    open <- InUse(q), capacity <- queueCB[q].len, content <- Content(q),
    waiting <- WaitingOn(q), granted <- GrantedBy(q), expired <- ExpiredOn(q),
    doing <- JobsOn(q), dead <- lost[q]

\* Every step of the system is for each queue a step of the abstract one or none:
\* messages come out in order, once, whoever waits, times out or is deleted between
\* its wake-up and its return; a reader that was woken finds its message, and no
\* late-comer takes it.
EachIsAQueue ==
    /\ \A q \in Queue : AbstractQueue(q)!Init
    /\ [][\A q \in Queue :
             UNCHANGED AbstractQueue(q)!queue \/ AbstractQueue(q)!Next]_allQueueVars

=============================================================================
