------------------------------ MODULE LosQueue ------------------------------
(***************************************************************************)
(* The message queues of the kernel (kernel/src/los_queue.c): a ring of    *)
(* nodes, a list of tasks that wait to read and one of tasks that wait to  *)
(* write.  A task that is woken from either has a node reserved for it: it *)
(* was taken off the count of the other side and not put on its own.       *)
(***************************************************************************)
EXTENDS LosTask

CONSTANTS
    Queue,          \* the queue control blocks g_allQueue
    QueueLen,       \* the lengths that queues are created with
    MaxLen,         \* the longest of them
    Msg,            \* messages
    NoMsg,          \* a node whose message has been read
    Jobs,           \* what the application does with queues, see Job
    QueueTimeout    \* the timeouts passed; NoTime is LOS_WAIT_FOREVER

RW == {"READ", "WRITE"}
Other(rw) == IF rw = "READ" THEN "WRITE" ELSE "READ"

\* The operate types: read the head, write the tail, write the head.
Job == [rw : {"READ"}, at : {"HEAD"}, msg : {NoMsg}]
       \cup [rw : {"WRITE"}, at : {"HEAD", "TAIL"}, msg : Msg]
NoJob == [rw |-> "READ", at |-> "HEAD", msg |-> NoMsg]

ASSUME QueueAssumption ==
    /\ Queue \X {"READ", "WRITE", "MEM"} \subseteq WaitObj /\ IsFiniteSet(Queue)
    /\ MaxLen \in Nat \ {0} /\ QueueLen \subseteq 1 .. MaxLen
    /\ NoMsg \notin Msg /\ Jobs \subseteq Job
    /\ QueueTimeout \subseteq (0 .. MaxDelay) \cup {NoTime}
    /\ NoArg \notin Queue \X RW

VARIABLES
    queueCB,    \* state, length, counts, ring; the wait lists are in kernel.pend
    freeQueue,  \* g_freeQueueList
    job,        \* what a task that waits is going to do with its node
    lost        \* history: nodes reserved for tasks that were deleted

queueVars == <<queueCB, freeQueue, job, lost>>
allQueueVars == <<kernel, todo, arg, handles, queueCB, freeQueue, job, lost>>

\* The nodes that a queue may have; those from its length on are not there.
Node == 0 .. MaxLen - 1
InUse(q) == queueCB[q].stat = "INUSE"
NoCount == [rw \in RW |-> 0]

QueueInit ==
    /\ Init
    /\ queueCB = [q \in Queue |-> [stat |-> "UNUSED", len |-> 0, cnt |-> NoCount,
                                   head |-> 0, tail |-> 0, node |-> [i \in Node |-> NoMsg]]]
    /\ freeQueue \in Bijection(1 .. Cardinality(Queue), Queue)
    /\ job = [t \in TCB |-> NoJob]
    /\ lost = [q \in Queue |-> NoCount]

\* The memory for the nodes was allocated before; without it, or without a free
\* control block, nothing changes.
OsQueueCreate(t, len) ==
    /\ Caller(t, "queueCreate") /\ freeQueue # <<>>
    /\ queueCB' = [queueCB EXCEPT ![Head(freeQueue)] =
          [stat |-> "INUSE", len |-> len, cnt |-> [READ |-> 0, WRITE |-> len],
           head |-> 0, tail |-> 0, node |-> [i \in Node |-> NoMsg]]]
    /\ freeQueue' = Tail(freeQueue)
    /\ lost' = [lost EXCEPT ![Head(freeQueue)] = NoCount]
    /\ UNCHANGED <<taskVars, job>>

\* MUTATION: reserved nodes are not looked at.
OnlyLists_QueueDeletable(q) ==
    /\ InUse(q)
    /\ \A list \in {"READ", "WRITE", "MEM"} : kernel.pend[<<q, list>>] = <<>>

\* Refused while tasks wait, or have a node reserved.
QueueDeletable(q) ==
    /\ InUse(q)
    /\ \A list \in {"READ", "WRITE", "MEM"} : kernel.pend[<<q, list>>] = <<>>
    /\ queueCB[q].cnt["READ"] + queueCB[q].cnt["WRITE"] = queueCB[q].len

QueueDelete(t, q) ==
    /\ App(t, "queueDelete") /\ QueueDeletable(q)
    /\ queueCB' = [queueCB EXCEPT ![q].stat = "UNUSED", ![q].node = [i \in Node |-> NoMsg]]
    /\ freeQueue' = <<q>> \o freeQueue
    /\ UNCHANGED <<taskVars, job, lost>>

-----------------------------------------------------------------------------
(* The ring. *)

\* MUTATION: the index wraps one node too late.
Beyond_Forward(cb, i) == IF i = cb.len THEN 0 ELSE i + 1

Forward(cb, i) == IF i + 1 = cb.len THEN 0 ELSE i + 1

Backward(cb, i) == IF i = 0 THEN cb.len - 1 ELSE i - 1

\* MUTATION: a message is written at the head, which is then moved.
PostMove_OsQueueBufferOperate(cb, j) ==
    IF j.rw = "READ"
    THEN [cb EXCEPT !.node[cb.head] = NoMsg, !.head = Forward(cb, @)]
    ELSE IF j.at = "TAIL"
    THEN [cb EXCEPT !.node[cb.tail] = j.msg, !.tail = Forward(cb, @)]
    ELSE [cb EXCEPT !.node[cb.head] = j.msg, !.head = Backward(cb, @)]

OsQueueBufferOperate(cb, j) ==
    IF j.rw = "READ"
    THEN [cb EXCEPT !.node[cb.head] = NoMsg, !.head = Forward(cb, @)]
    ELSE IF j.at = "TAIL"
    THEN [cb EXCEPT !.node[cb.tail] = j.msg, !.tail = Forward(cb, @)]
    ELSE [cb EXCEPT !.node[Backward(cb, cb.head)] = j.msg, !.head = Backward(cb, @)]

-----------------------------------------------------------------------------
(* Reading and writing: OsQueueOperate. *)

Opposite(q, rw) == kernel.pend[<<q, Other(rw)>>]

\* MUTATION: the node is counted for the other side although a task is woken for it.
CountsAnyway_Operated(q, j, cb) ==
    [OsQueueBufferOperate(cb, j) EXCEPT !.cnt[Other(j.rw)] = @ + 1]

\* The control block after the operation on cb; the node goes to the first task
\* that waits on the other side, or to its count.
Operated(q, j, cb) ==
    IF Opposite(q, j.rw) = <<>>
    THEN [OsQueueBufferOperate(cb, j) EXCEPT !.cnt[Other(j.rw)] = @ + 1]
    ELSE OsQueueBufferOperate(cb, j)

OperatedCall(t, q, j) ==
    IF Opposite(q, j.rw) = <<>> THEN Call(t, kernel, <<>>, NoArg)
    ELSE Call(t, OsSchedTaskWake(kernel, Head(Opposite(q, j.rw))), <<"schedule">>, NoArg)

Counted(q, rw) == [queueCB[q] EXCEPT !.cnt[rw] = @ - 1]

QueueOperate(t, q, j) ==
    /\ App(t, "queue") /\ InUse(q) /\ queueCB[q].cnt[j.rw] > 0
    /\ OperatedCall(t, q, j)
    /\ queueCB' = [queueCB EXCEPT ![q] = Operated(q, j, Counted(q, j.rw))]
    /\ UNCHANGED <<freeQueue, job, lost>>

QueueWait(t, q, j, timeout) ==
    /\ App(t, "queue") /\ InUse(q) /\ queueCB[q].cnt[j.rw] = 0
    /\ timeout # 0 /\ kernel.lock = 0
    /\ Call(t, OsSchedTaskWait(kernel, <<q, j.rw>>, timeout), <<"schedule", "result">>,
            <<q, j.rw>>)
    /\ job' = [job EXCEPT ![t] = j]
    /\ UNCHANGED <<queueCB, freeQueue, lost>>

QueueTimedOut(t) ==
    /\ Doing(t, "result") /\ arg[t] \in Queue \X RW /\ Has(kernel, t, {"TIMEOUT"})
    /\ Call(t, [kernel EXCEPT !.status[t] = @ \ {"TIMEOUT"}], <<>>, NoArg)
    /\ job' = [job EXCEPT ![t] = NoJob]
    /\ UNCHANGED <<queueCB, freeQueue, lost>>

\* MUTATION: a woken task takes its node off the count, like one that did not wait.
Twice_GrantedBlock(q, rw) == Counted(q, rw)

GrantedBlock(q, rw) == queueCB[q]

\* Nothing is looked at again: the node is reserved.
QueueGranted(t) ==
    /\ Doing(t, "result") /\ arg[t] \in Queue \X RW /\ ~Has(kernel, t, {"TIMEOUT"})
    /\ LET q == arg[t][1]
       IN  /\ OperatedCall(t, q, job[t])
           /\ queueCB' = [queueCB EXCEPT ![q] =
                             Operated(q, job[t], GrantedBlock(q, job[t].rw))]
    /\ job' = [job EXCEPT ![t] = NoJob]
    /\ UNCHANGED <<freeQueue, lost>>

\* With LOS_NO_WAIT an interrupt handler may read and write.
IsrQueueOperate(q, j) ==
    /\ Interrupt /\ "isrQueue" \in Calls /\ InUse(q) /\ queueCB[q].cnt[j.rw] > 0
    /\ kernel' = IF Opposite(q, j.rw) = <<>> THEN kernel
                 ELSE LOS_Schedule(OsSchedTaskWake(kernel, Head(Opposite(q, j.rw))))
    /\ queueCB' = [queueCB EXCEPT ![q] = Operated(q, j, Counted(q, j.rw))]
    /\ UNCHANGED <<todo, arg, handles, freeQueue, job, lost>>

QueueStep(t) ==
    \/ \E len \in QueueLen : OsQueueCreate(t, len)
    \/ QueueTimedOut(t) \/ QueueGranted(t)
    \/ \E q \in Queue :
          \/ QueueDelete(t, q)
          \/ \E j \in Jobs :
                \/ QueueOperate(t, q, j)
                \/ \E timeout \in QueueTimeout : QueueWait(t, q, j, timeout)

IsrQueueStep == \E q \in Queue : \E j \in Jobs : IsrQueueOperate(q, j)

\* The tasks that have been woken for a node of q and have not yet come back.
Reserved(q, rw) ==
    {t \in Task : /\ arg[t] = <<q, rw>> /\ Contains(todo[t], "result")
                  /\ ~Has(kernel, t, {"PEND", "TIMEOUT"})}

\* A step of the tasks: LOS_TaskDelete does not give back what was reserved.
TaskStepOfQueues ==
    /\ TaskNext
    /\ job' = [t \in TCB |-> IF todo'[t] = <<>> THEN NoJob ELSE job[t]]
    /\ lost' = [q \in Queue |-> [rw \in RW |->
          lost[q][rw] + Cardinality({t \in Reserved(q, rw) : todo'[t] = <<>>})]]
    /\ UNCHANGED <<queueCB, freeQueue>>

QueueNext ==
    \/ TaskStepOfQueues
    \/ \E t \in TCB : QueueStep(t)
    \/ IsrQueueStep

QueueSpec == QueueInit /\ [][QueueNext]_allQueueVars

-----------------------------------------------------------------------------
(* Correctness. *)

\* The nodes of q with a message.
Filled(q) == {i \in Node : queueCB[q].node[i] # NoMsg}

\* Every variable keeps its type, and head and tail stay on the ring.
QueueTypeOK ==
    /\ TaskTypeOK
    /\ queueCB \in [Queue -> [stat : {"UNUSED", "INUSE"}, len : {0} \cup QueueLen,
                              cnt : [RW -> Nat], head : Nat, tail : Nat,
                              node : [Node -> Msg \cup {NoMsg}]]]
    /\ freeQueue \in Seq(Queue)
    /\ job \in [TCB -> Job]
    /\ \A q \in Queue : InUse(q) =>
          queueCB[q].head < queueCB[q].len /\ queueCB[q].tail < queueCB[q].len

\* Every node of a queue is counted once: it can be read, or is reserved for a
\* reader, or was for one who has been deleted, and likewise for writing; so a task
\* that comes back from its wait finds what it was woken for.
NodesConserved ==
    \A q \in Queue : InUse(q) =>
        LET full == Cardinality(Filled(q))
            Sum(rw) == queueCB[q].cnt[rw] + Cardinality(Reserved(q, rw)) + lost[q][rw]
        IN  Sum("READ") = full /\ Sum("WRITE") = queueCB[q].len - full

\* No task waits for what is there: to read while a message can be read, or to
\* write while a node is free.
NoWaitWithNodes ==
    \A q \in Queue : \A rw \in RW : queueCB[q].cnt[rw] > 0 => kernel.pend[<<q, rw>>] = <<>>

\* Tasks wait on, and have nodes reserved in, created queues only; the free list has
\* the others.
WaitersHaveQueue ==
    /\ \A q \in Queue : ~InUse(q) =>
          /\ \A list \in {"READ", "WRITE", "MEM"} : kernel.pend[<<q, list>>] = <<>>
          /\ \A rw \in RW : Reserved(q, rw) = {}
    /\ IsInjective(freeQueue)
    /\ \A q \in Queue : InUse(q) <=> ~Contains(freeQueue, q)

=============================================================================
