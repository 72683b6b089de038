------------------------------ MODULE LosMail ------------------------------
(***************************************************************************)
(* Mails: blocks of a memory pool (kernel/src/mm/los_membox.c) that tasks  *)
(* allocate, pass on by their address and free, and that they may wait for *)
(* on a third list of a message queue (OsQueueMailAlloc, OsQueueMailFree). *)
(* A free wakes only those who wait there, so a pool belongs to one queue. *)
(***************************************************************************)
EXTENDS LosQueue

CONSTANTS
    Block,      \* the blocks of the pool
    NoBlock,    \* a null pointer
    MailQueue   \* the queue that the pool belongs to

ASSUME MailAssumption ==
    /\ IsFiniteSet(Block) /\ NoBlock \notin Block
    /\ MailQueue \in Queue /\ <<MailQueue, "MEM">> # NoArg

VARIABLES
    pool,   \* stFreeList of the pool
    msg,    \* msg of each TCB
    out,    \* the blocks that the application has
    gone    \* history: blocks handed to tasks that were deleted

mailVars == <<pool, msg, out, gone>>
allMailVars == <<allQueueVars, mailVars>>

\* LOS_MemboxInit links all the blocks.
MailInit ==
    /\ QueueInit
    /\ pool \in Bijection(1 .. Cardinality(Block), Block)
    /\ msg = [t \in TCB |-> NoBlock]
    /\ out = {} /\ gone = {}

\* Who waits for a block waits on memList of the queue.
memList == <<MailQueue, "MEM">>

MemboxAlloc ==
    /\ pool # <<>>
    /\ pool' = Tail(pool) /\ out' = out \cup {Head(pool)}

\* The magic of a block that is allocated is right: it is freed.
MemboxFree(b) == pool' = <<b>> \o pool

MailTake(t) ==
    /\ App(t, "mail") /\ InUse(MailQueue)
    /\ MemboxAlloc
    /\ UNCHANGED <<allQueueVars, msg, gone>>

\* The lock of the scheduler is not looked at, unlike in OsQueueOperate.
MailWait(t, timeout) ==
    /\ App(t, "mail") /\ InUse(MailQueue) /\ pool = <<>> /\ timeout # 0
    /\ kernel.lock > 0 => "mailLocked" \in Unprotected
    /\ Call(t, OsSchedTaskWait(kernel, memList, timeout), <<"schedule", "result">>, memList)
    /\ UNCHANGED <<queueVars, mailVars>>

ForMail(t) == Doing(t, "result") /\ arg[t] = memList

MailTimedOut(t) ==
    /\ ForMail(t) /\ Has(kernel, t, {"TIMEOUT"})
    /\ Call(t, [kernel EXCEPT !.status[t] = @ \ {"TIMEOUT"}], <<>>, NoArg)
    /\ UNCHANGED <<queueVars, mailVars>>

MailGranted(t) ==
    /\ ForMail(t) /\ ~Has(kernel, t, {"TIMEOUT"})
    /\ Call(t, kernel, <<>>, NoArg)
    /\ out' = out \cup ({msg[t]} \ {NoBlock})
    /\ msg' = [msg EXCEPT ![t] = NoBlock]
    /\ UNCHANGED <<queueVars, pool, gone>>

MailWaiters == kernel.pend[memList]

\* MUTATION: a waiter is woken, but the block goes to the pool.
ToPool_Deliver(b) == MemboxFree(b) /\ UNCHANGED msg

\* The block goes to the first task that waits, or back to the pool.
Deliver(b) ==
    IF MailWaiters = <<>> THEN MemboxFree(b) /\ UNCHANGED msg
    ELSE msg' = [msg EXCEPT ![Head(MailWaiters)] = b] /\ UNCHANGED pool

MailFree(t, b) ==
    /\ App(t, "mail") /\ InUse(MailQueue) /\ b \in out
    /\ Deliver(b) /\ out' = out \ {b}
    /\ IF MailWaiters = <<>> THEN Call(t, kernel, <<>>, NoArg)
       ELSE Call(t, OsSchedTaskWake(kernel, Head(MailWaiters)), <<"schedule">>, NoArg)
    /\ UNCHANGED <<queueVars, gone>>

\* With LOS_NO_WAIT an interrupt handler may allocate, and it may free.
IsrMailTake ==
    /\ Interrupt /\ "isrMail" \in Calls /\ InUse(MailQueue)
    /\ MemboxAlloc
    /\ UNCHANGED <<allQueueVars, msg, gone>>

IsrMailFree(b) ==
    /\ Interrupt /\ "isrMail" \in Calls /\ InUse(MailQueue) /\ b \in out
    /\ Deliver(b) /\ out' = out \ {b}
    /\ kernel' = IF MailWaiters = <<>> THEN kernel
                 ELSE LOS_Schedule(OsSchedTaskWake(kernel, Head(MailWaiters)))
    /\ UNCHANGED <<todo, arg, handles, queueVars, gone>>

MailStep(t) ==
    \/ MailTimedOut(t) \/ MailGranted(t) \/ MailTake(t)
    \/ \E timeout \in QueueTimeout : MailWait(t, timeout)
    \/ \E b \in Block : MailFree(t, b)

IsrMailStep == IsrMailTake \/ \E b \in Block : IsrMailFree(b)

\* The tasks whose TCB is cleared in this step, or whose call is over for good.
Ended == {t \in Task : arg[t] # NoArg /\ todo'[t] = <<>>}

\* A step of the tasks and queues: a block handed to a task that is deleted is lost.
QueueStepOfMails ==
    /\ QueueNext
    /\ msg' = [t \in TCB |-> IF t \in Ended THEN NoBlock ELSE msg[t]]
    /\ gone' = gone \cup ({msg[t] : t \in Ended} \ {NoBlock})
    /\ UNCHANGED <<pool, out>>

MailNext ==
    \/ QueueStepOfMails
    \/ \E t \in TCB : MailStep(t)
    \/ IsrMailStep

MailSpec == MailInit /\ [][MailNext]_allMailVars

-----------------------------------------------------------------------------
(* Correctness. *)

InHand == {msg[t] : t \in TCB} \ {NoBlock}

\* A block is in one place: in the pool, with the application, on its way to one
\* task that was woken for it, or lost with such a task; whatever the order of
\* frees, timeouts and deletions.
MailBlocksConserved ==
    /\ pool \in Seq(Block) /\ IsInjective(pool)
    /\ ToSet(pool) \cup out \cup InHand \cup gone = Block
    /\ Len(pool) + Cardinality(out) + Cardinality(gone)
          + Cardinality({t \in TCB : msg[t] # NoBlock}) = Cardinality(Block)

\* A task that comes back from its wait without a timeout got a block: its msg
\* cannot be null (los_queue.c:601-602); and nobody waits while the pool has one.
MailNotNull ==
    /\ \A t \in Task : ForMail(t) /\ ~Has(kernel, t, {"TIMEOUT"}) => msg[t] # NoBlock
    /\ MailWaiters # <<>> => pool = <<>>

\* However frees, timeouts and deletions come, OsQueueMailAlloc and OsQueueMailFree
\* pass every block on once and nobody comes back without one.
MailsAreSafe == MailBlocksConserved /\ MailNotNull

=============================================================================
