------------------------------ MODULE LosSched ------------------------------
(***************************************************************************)
(* The scheduler of the LiteOS-M kernel (kernel/src/los_sched.c) and the   *)
(* sort link it keeps its timeouts on (kernel/src/los_sortlink.c).         *)
(*                                                                         *)
(* The module has no variables.  The scheduler's globals and the fields of *)
(* the task control blocks are one record, SchedState, and every function  *)
(* of the source is an operator from such a record to the next one, so     *)
(* that the modules of the tasks, semaphores, ... call several of them in  *)
(* one critical section, the way the C code does.                          *)
(*                                                                         *)
(* A TCB has a single list node (pendList): it is on one ready queue, one  *)
(* wait list, the free list or the recycle list.  Lists are sequences; the *)
(* invariants of LosTask say that no TCB is on two of them.                *)
(*                                                                         *)
(* A definition marked MUTATION is a plausible error in the one after it;  *)
(* nothing uses it.  README.md names the property each of them breaks.     *)
(***************************************************************************)
EXTENDS Integers, FiniteSets, SequencesExt

CONSTANTS
    Task,       \* the TCBs 0 .. LOSCFG_BASE_CORE_TSK_LIMIT - 1 of the application
    Idle,       \* the idle task's TCB (g_idleTaskID)
    Boot,       \* the extra TCB g_taskCBArray[g_taskMaxNum]
    WaitObj,    \* the IPC objects that have a wait list
    Lowest,     \* OS_TASK_PRIORITY_LOWEST: the idle task's priority
    TimeSlice,  \* g_schedTimeSlice, in ticks
    MaxDelay    \* the longest delay or timeout, in ticks

ASSUME SchedAssumption ==
    /\ Idle \notin Task /\ Boot \notin Task /\ Idle # Boot
    /\ IsFiniteSet(Task) /\ WaitObj \cap Task = {}
    /\ Lowest \in Nat \ {0}
    /\ TimeSlice \in Nat \ {0}
    /\ MaxDelay \in Nat \ {0}

TCB      == Task \cup {Idle, Boot}
Prio     == 0 .. Lowest
WaitList == Task \cup WaitObj      \* a task's own list is its joinList

Flag == {"UNUSED", "SUSPEND", "READY", "PEND", "RUNNING", "DELAY", "TIMEOUT",
         "PEND_TIME", "EXIT", "STACK_FREE", "JOINABLE"}

NoTime == -1                       \* OS_SORT_LINK_INVALID_TIME

(***************************************************************************)
(* The scheduler's state.  due[t] is the sort link node's responseTime     *)
(* minus the current time, so that time itself needs no variable.          *)
(* timeSlice 0 stands for every value up to g_schedTimeSliceMin.           *)
(* panic: a LOS_ASSERT failed and the system hangs with interrupts locked. *)
(* tick: the tick interrupt is inside its scan of the sort link.           *)
(***************************************************************************)
SchedState ==
    [status      : [TCB -> SUBSET Flag],
     priority    : [TCB -> 0 .. Lowest + 1],
     timeSlice   : [TCB -> 0 .. TimeSlice],
     waitTimes   : [TCB -> 0 .. MaxDelay],
     due         : [TCB -> -1 .. MaxDelay],
     ready       : [Prio -> Seq(Task)],     \* g_priQueueList
     queueBitmap : SUBSET Prio,             \* g_queueBitmap
     pend        : [WaitList -> Seq(Task)],
     sortLink    : Seq(Task),               \* g_taskSortLink
     free        : Seq(Task),               \* g_losFreeTask
     recycle     : Seq(Task),               \* g_taskRecycleList
     run         : TCB,                     \* g_losTask.runTask
     lock        : Nat,                     \* g_losTaskLock
     started     : BOOLEAN,                 \* g_taskScheduled
     pendSV      : BOOLEAN,
     tick        : BOOLEAN,
     panic       : BOOLEAN]

\* The two TCBs that are not the application's: the idle task is only ever ready
\* or running, and Boot, on no list, stands for code that never comes back.
SpecialTasks(k) ==
    /\ k.status[Idle] \subseteq {"READY", "RUNNING", "STACK_FREE"}
    /\ "UNUSED" \in k.status[Boot]
    /\ k.status[Boot] \cap {"READY", "DELAY", "PEND_TIME"} = {}
    /\ \A t \in Task \cup {Idle} : k.priority[t] \in Prio

\* The bitmap has exactly the bits of the queues that are not empty.
BitmapMatches(k) == k.queueBitmap = {p \in Prio : k.ready[p] # <<>>}

\* LOS_ListDelete of the node of t.
Unlink(s, t) == RemoveFirst(s, t)

Has(k, t, flags) == k.status[t] \cap flags # {}

-----------------------------------------------------------------------------
(* The ready queues and their bitmap. *)

OsSchedPriQueueEnHead(k, t) ==
    LET p == k.priority[t] IN
    [k EXCEPT !.queueBitmap = IF k.ready[p] = <<>> THEN @ \cup {p} ELSE @,
              !.ready[p] = <<t>> \o @]

OsSchedPriQueueEnTail(k, t) ==
    LET p == k.priority[t] IN
    [k EXCEPT !.queueBitmap = IF k.ready[p] = <<>> THEN @ \cup {p} ELSE @,
              !.ready[p] = Append(@, t)]

\* MUTATION: the bit of a queue that has become empty stays set.
StaleBit_OsSchedPriQueueDelete(k, t) ==
    [k EXCEPT !.ready[k.priority[t]] = Unlink(@, t)]

OsSchedPriQueueDelete(k, t) ==
    LET p == k.priority[t]
        s == Unlink(k.ready[p], t)
    IN  [k EXCEPT !.queueBitmap = IF s = <<>> THEN @ \ {p} ELSE @,
                  !.ready[p] = s]

\* MUTATION: a task that has used up its slice goes to the head like the others.
AlwaysHead_ReadyQueueIn(k, t) ==
    IF t = Idle THEN k ELSE OsSchedPriQueueEnHead(k, t)

\* A task with slice left goes back to the head of its queue, one without it
\* gets a new slice and goes to the tail.  The idle task is in no queue.
ReadyQueueIn(k, t) ==
    IF t = Idle THEN k
    ELSE IF k.timeSlice[t] > 0 THEN OsSchedPriQueueEnHead(k, t)
    ELSE [OsSchedPriQueueEnTail(k, t) EXCEPT !.timeSlice[t] = TimeSlice]

OsSchedTaskEnQueue(k, t) ==
    IF "READY" \in k.status[t]
    THEN [k EXCEPT !.panic = TRUE]
    ELSE [ReadyQueueIn(k, t) EXCEPT !.status[t] =
             (@ \ {"PEND", "SUSPEND", "DELAY", "PEND_TIME"}) \cup {"READY"}]

OsSchedTaskDeQueue(k, t) ==
    IF "READY" \in k.status[t]
    THEN [(IF t = Idle THEN k ELSE OsSchedPriQueueDelete(k, t))
             EXCEPT !.status[t] = @ \ {"READY"}]
    ELSE k

\* CLZ of the bitmap, then the head of that queue.
OsGetTopTask(k) ==
    IF k.queueBitmap = {} THEN Idle
    ELSE Head(k.ready[CHOOSE p \in k.queueBitmap : \A q \in k.queueBitmap : p <= q])

-----------------------------------------------------------------------------
(* The sort link: ordered by response time.  A node equal to the first one *)
(* goes right behind it, any other behind the last that is not later.      *)

SortLinkPos(k, d) ==
    IF k.sortLink = <<>> THEN 1
    ELSE LET first == k.due[Head(k.sortLink)] IN
         IF first > d THEN 1
         ELSE IF first = d THEN 2
         ELSE 1 + SelectLastInSeq(k.sortLink, LAMBDA u : k.due[u] <= d)

\* waitTimes is dead once it has become a response time: it is zeroed here.
OsAdd2SortLink(k, t) ==
    LET d == k.waitTimes[t] IN
    [k EXCEPT !.sortLink = InsertAt(@, SortLinkPos(k, d), t),
              !.due[t] = d,
              !.waitTimes[t] = 0]

OsDeleteNodeSortLink(k, t) ==
    [k EXCEPT !.sortLink = Unlink(@, t), !.due[t] = NoTime]

OsDeleteSortLink(k, t) ==
    IF k.due[t] # NoTime THEN OsDeleteNodeSortLink(k, t) ELSE k

-----------------------------------------------------------------------------
(* Blocking, waking, suspending and leaving. *)

\* LOS_ListDelete of a task that waits: whichever wait list it is on.
LeaveWaitList(k, t) == [k EXCEPT !.pend = [o \in WaitList |-> Unlink(@[o], t)]]

OsSchedYield(k) == [k EXCEPT !.timeSlice[k.run] = 0]

OsSchedDelay(k, ticks) ==
    [k EXCEPT !.status[k.run] = @ \cup {"DELAY"}, !.waitTimes[k.run] = ticks]

\* MUTATION: the last to come is the first to be served.
Lifo_OsSchedTaskWait(k, list, ticks) ==
    LET w == [k EXCEPT !.status[k.run] = @ \cup {"PEND"}, !.pend[list] = <<k.run>> \o @]
    IN  IF ticks = NoTime THEN w
        ELSE [w EXCEPT !.status[k.run] = @ \cup {"PEND_TIME"}, !.waitTimes[k.run] = ticks]

\* ticks = NoTime is LOS_WAIT_FOREVER.
OsSchedTaskWait(k, list, ticks) ==
    LET r == k.run
        w == [k EXCEPT !.status[r] = @ \cup {"PEND"}, !.pend[list] = Append(@, r)]
    IN  IF ticks = NoTime THEN w
        ELSE [w EXCEPT !.status[r] = @ \cup {"PEND_TIME"}, !.waitTimes[r] = ticks]

ClearPendTime(k, t) ==
    IF "PEND_TIME" \in k.status[t]
    THEN [OsDeleteSortLink(k, t) EXCEPT !.status[t] = @ \ {"PEND_TIME"}]
    ELSE k

OsSchedTaskWake(k, t) ==
    LET k1 == [LeaveWaitList(k, t) EXCEPT !.status[t] = @ \ {"PEND"}]
        k2 == ClearPendTime(k1, t)
    IN  IF Has(k2, t, {"SUSPEND", "RUNNING"}) THEN k2
        ELSE OsSchedTaskEnQueue(k2, t)

\* MUTATION: the timeout of a suspended task makes it ready.
EvenSuspended_OsSchedWakePendTimeTask(k, t) ==
    LET k1 == [k EXCEPT !.status[t] = @ \ {"PEND", "PEND_TIME", "DELAY"}]
    IN  OsSchedTaskEnQueue(LeaveWaitList(k1, t), t)

\* The timeout of a delayed or waiting task.
OsSchedWakePendTimeTask(k, t) ==
    LET k1 == [k EXCEPT !.status[t] = @ \ {"PEND", "PEND_TIME", "DELAY"}]
        k2 == IF Has(k, t, {"PEND"})
              THEN [LeaveWaitList(k1, t) EXCEPT !.status[t] = @ \cup {"TIMEOUT"}]
              ELSE k1
    IN  IF ~Has(k, t, {"PEND", "DELAY"}) THEN k
        ELSE IF Has(k, t, {"SUSPEND"}) THEN k2
        ELSE OsSchedTaskEnQueue(k2, t)

OsSchedSuspend(k, t) ==
    [OsSchedTaskDeQueue(k, t) EXCEPT !.status[t] = @ \cup {"SUSPEND"}]

\* MUTATION: a task that waits is made ready by its resumption.
EvenWaiting_ResumeNeedSched(k, t) == ~Has(k, t, {"DELAY"})

\* OsSchedResume returns whether the task became ready: ResumeNeedSched.
ResumeNeedSched(k, t) == ~Has(k, t, {"DELAY", "PEND"})

OsSchedResume(k, t) ==
    LET k1 == [k EXCEPT !.status[t] = @ \ {"SUSPEND"}]
    IN  IF ResumeNeedSched(k, t) THEN OsSchedTaskEnQueue(k1, t) ELSE k1

\* MUTATION: a task that lowers its own priority goes on.
NotOwn_ModifyNeedSched(k, t) == Has(k, t, {"READY"})

ModifyNeedSched(k, t) == Has(k, t, {"READY", "RUNNING"})

\* MUTATION: a ready task stays in the queue of its old priority.
InPlace_OsSchedModifyTaskSchedParam(k, t, p) == [k EXCEPT !.priority[t] = p]

OsSchedModifyTaskSchedParam(k, t, p) ==
    IF "READY" \in k.status[t]
    THEN OsSchedTaskEnQueue([OsSchedTaskDeQueue(k, t) EXCEPT !.priority[t] = p], t)
    ELSE [k EXCEPT !.priority[t] = p]

\* MUTATION: the timeout of a task that exits keeps running.
LeavesTimeout_OsSchedTaskExit(k, t) ==
    LET k1 == IF Has(k, t, {"READY"}) THEN OsSchedTaskDeQueue(k, t)
              ELSE IF Has(k, t, {"PEND"}) THEN LeaveWaitList(k, t) ELSE k
    IN  [k1 EXCEPT !.status[t] = (@ \ {"PEND", "DELAY", "PEND_TIME"}) \cup {"EXIT"}]

OsSchedTaskExit(k, t) ==
    LET k1 == IF Has(k, t, {"READY"}) THEN OsSchedTaskDeQueue(k, t)
              ELSE IF Has(k, t, {"PEND"})
              THEN [LeaveWaitList(k, t) EXCEPT !.status[t] = @ \ {"PEND"}]
              ELSE k
        k2 == IF Has(k1, t, {"DELAY", "PEND_TIME"})
              THEN [OsDeleteSortLink(k1, t) EXCEPT !.status[t] = @ \ {"DELAY", "PEND_TIME"}]
              ELSE k1
    IN  [k2 EXCEPT !.status[t] = @ \cup {"EXIT"}]

-----------------------------------------------------------------------------
(* Scheduling. *)

\* MUTATION: a task that has exited is not blocked.
NoExit_OS_TASK_BLOCKED_STATUS == {"PEND", "SUSPEND", "UNUSED"}

OS_TASK_BLOCKED_STATUS == {"PEND", "SUSPEND", "EXIT", "UNUSED"}

\* MUTATION: the scheduler's lock is not looked at.
Unlocked_LOS_Schedule(k) == IF k.started THEN [k EXCEPT !.pendSV = TRUE] ELSE k

LOS_Schedule(k) ==
    IF k.started /\ k.lock = 0 THEN [k EXCEPT !.pendSV = TRUE] ELSE k

OsSchedStart(k) ==
    LET n == OsGetTopTask(k)
        k1 == [k EXCEPT !.status[n] = @ \cup {"RUNNING"}, !.run = n]
    IN  [OsSchedTaskDeQueue(k1, n) EXCEPT !.started = TRUE]

\* MUTATION: a blocked task is not put on the sort link.
BlockedFirst_PutBack(k) ==
    IF Has(k, k.run, OS_TASK_BLOCKED_STATUS) THEN k
    ELSE IF Has(k, k.run, {"PEND_TIME", "DELAY"}) THEN OsAdd2SortLink(k, k.run)
    ELSE OsSchedTaskEnQueue(k, k.run)

\* Where the task that is switched out goes.
PutBack(k) ==
    IF Has(k, k.run, {"PEND_TIME", "DELAY"}) THEN OsAdd2SortLink(k, k.run)
    ELSE IF ~Has(k, k.run, OS_TASK_BLOCKED_STATUS) THEN OsSchedTaskEnQueue(k, k.run)
    ELSE k

\* MUTATION: the task that is switched out keeps its RUNNING flag.
KeepsFlag_OsSchedTaskSwitch(k) ==
    LET k1 == PutBack(k)
        n  == OsGetTopTask(k1)
    IN  [OsSchedTaskDeQueue([k1 EXCEPT !.status[n] = @ \cup {"RUNNING"}, !.run = n], n)
            EXCEPT !.pendSV = FALSE]

\* The context switch of HalPendSV.  A failed assertion of the enqueue ends it.
OsSchedTaskSwitch(k) ==
    LET k1 == PutBack(k)
        n  == OsGetTopTask(k1)
        k2 == [k1 EXCEPT !.status[k.run] = @ \ {"RUNNING"}]
        k3 == [k2 EXCEPT !.status[n] = @ \cup {"RUNNING"}, !.run = n]
    IN  IF k1.panic THEN k1
        ELSE [OsSchedTaskDeQueue(k3, n) EXCEPT !.pendSV = FALSE]

\* The running task has used up to a tick since the last update; a slice that
\* is overdrawn is as good as an empty one.
OsTimeSliceUpdate(k, used) ==
    IF k.run = Idle THEN k
    ELSE [k EXCEPT !.timeSlice[k.run] = IF @ >= used THEN @ - used ELSE 0]

\* A tick later every response time is one tick nearer.
Elapse(k) == [k EXCEPT !.due = [t \in TCB |-> IF @[t] > 0 THEN @[t] - 1 ELSE @[t]]]

Expired(k) == k.sortLink # <<>> /\ k.due[Head(k.sortLink)] <= 0

=============================================================================
