------------------------------ MODULE LosTask ------------------------------
(***************************************************************************)
(* The tasks of the LiteOS-M kernel (kernel/src/los_task.c), the tick      *)
(* interrupt (LOS_SchedTickHandler) and the context switch (HalPendSV of   *)
(* arch/arm/cortex-m4/gcc/los_dispatch.S).                                 *)
(*                                                                         *)
(* A critical section, from LOS_IntLock to LOS_IntRestore, is one step.    *)
(* Between two critical sections of a call an interrupt may run, and after *)
(* it another task: todo[t] is what is left of the call that task t is in, *)
(* one string per remaining critical section, and arg[t] is the object of  *)
(* the call.  <<>> means that t runs application code, which may make any  *)
(* call of Calls at any time.                                              *)
(***************************************************************************)
EXTENDS LosSched

CONSTANTS
    Calls,       \* the API calls that the application makes
    CreatePrio,  \* the priorities that it gives to tasks
    Delay,       \* the ticks that it passes to LOS_TaskDelay
    MaxLock,     \* bound of the nesting of LOS_TaskLock
    Unprotected, \* the call patterns nothing in the code refuses (see below)
    NoArg        \* "no object"

(***************************************************************************)
(* Calls that break the kernel's state although no check refuses them.  An *)
(* application that keeps to a discipline makes none of them               *)
(* (Unprotected = {}); README.md says what each of them does.              *)
(*   isrResume       an interrupt resumes the task it interrupted          *)
(*   resumeExited    a suspended joinable task is resumed after its exit   *)
(*   doubleJoin      an exited task is joined by several tasks             *)
(*   earlyHandle     a task is named before LOS_TaskCreate has returned    *)
(*   deleteOwner     a task that owns a mutex ends (LosMux)                *)
(*   notLifo         mutexes are not released last in, first out (LosMux)  *)
(*   destroyInUse    an event is destroyed in the middle of a call on it   *)
(*                   (LosEvent)                                            *)
(*   mailLocked      a mail is waited for with the scheduler locked        *)
(*                   (LosMail)                                             *)
(***************************************************************************)
Pattern == {"isrResume", "resumeExited", "doubleJoin", "earlyHandle", "deleteOwner",
            "notLifo", "destroyInUse", "mailLocked"}

\* The critical sections that a call is left with when it leaves the first one;
\* "result" is the last one of a call that waited on an IPC object; "eventRead"
\* and "eventWrite" follow the check of an event's parameters.
Step == {"recycle", "take", "noStack", "enqueue", "schedule", "join", "joinReclaim",
         "result", "eventRead", "eventWrite"}

ASSUME TaskAssumption ==
    /\ CreatePrio \subseteq 0 .. (Lowest - 1)
    /\ Delay \subseteq 0 .. MaxDelay
    /\ MaxLock \in Nat
    /\ Unprotected \subseteq Pattern
    /\ NoArg \notin WaitList

VARIABLES
    kernel,     \* the scheduler's state
    todo, arg,  \* what is left of each task's call, and its object
    handles     \* the tasks whose IDs the application has from LOS_TaskCreate

taskVars == <<kernel, todo, arg, handles>>

-----------------------------------------------------------------------------
(* Where code runs. *)

\* The processor executes the thread t: no interrupt is pending or active.
Thread(t) ==
    /\ t = kernel.run
    /\ ~kernel.pendSV /\ ~kernel.tick /\ ~kernel.panic

\* t is in application code; main() runs on the TCB Boot until LOS_Start.
App(t, call) ==
    /\ Thread(t) /\ todo[t] = <<>> /\ call \in Calls
    /\ t \in Task

\* A task, or main() before LOS_Start.
Caller(t, call) ==
    \/ App(t, call)
    \/ Thread(Boot) /\ t = Boot /\ ~kernel.started /\ todo[t] = <<>> /\ call \in Calls

Doing(t, step) == Thread(t) /\ todo[t] # <<>> /\ Head(todo[t]) = step

\* The critical section leaves the state k; the call goes on with steps on x.
Call(t, k, steps, x) ==
    /\ kernel' = k
    /\ todo' = [todo EXCEPT ![t] = steps]
    /\ arg' = [arg EXCEPT ![t] = IF steps = <<>> THEN NoArg ELSE x]
    /\ UNCHANGED handles

Continue(t, k) == Call(t, k, Tail(todo[t]), arg[t])

Interrupt == kernel.started /\ ~kernel.tick /\ ~kernel.panic

\* The application may name x in a call.
Named(x) ==
    \/ x \in handles
    \/ "earlyHandle" \in Unprotected /\ \E u \in TCB : arg[u] = x /\ todo[u] = <<"enqueue">>

Created(x) == "UNUSED" \notin kernel.status[x]

-----------------------------------------------------------------------------
(* Initial state: OsTaskInit and OsIdleTaskCreate of LOS_KernelInit. *)

Init ==
    /\ \E freeList \in {s \in [1 .. Cardinality(Task) -> Task] : IsInjective(s)} :
        kernel = [
            status      |-> [t \in TCB |-> IF t = Idle THEN {"READY", "STACK_FREE"}
                                           ELSE IF t = Boot THEN {"UNUSED", "RUNNING"}
                                           ELSE {"UNUSED"}],
            priority    |-> [t \in TCB |-> IF t = Idle THEN Lowest
                                           ELSE IF t = Boot THEN Lowest + 1 ELSE 0],
            timeSlice   |-> [t \in TCB |-> 0],
            waitTimes   |-> [t \in TCB |-> 0],
            due         |-> [t \in TCB |-> IF t = Idle THEN NoTime ELSE 0],
            ready       |-> [p \in Prio |-> <<>>],
            queueBitmap |-> {},
            pend        |-> [o \in WaitList |-> <<>>],
            sortLink    |-> <<>>,
            free        |-> freeList,
            recycle     |-> <<>>,
            run         |-> Boot,
            lock        |-> 0,
            started     |-> FALSE,
            pendSV      |-> FALSE,
            tick        |-> FALSE,
            panic       |-> FALSE]
    /\ todo = [t \in TCB |-> <<>>]
    /\ arg = [t \in TCB |-> NoArg]
    /\ handles = {}

\* LOS_Start, at the end of main().
Start ==
    /\ Thread(Boot) /\ ~kernel.started /\ todo[Boot] = <<>>
    /\ kernel' = OsSchedStart(kernel)
    /\ UNCHANGED <<todo, arg, handles>>

-----------------------------------------------------------------------------
(* TCBs and their resources. *)

OsInsertTCBToFreeList(k, t) ==
    [k EXCEPT !.status[t] = {"UNUSED"}, !.priority[t] = 0, !.timeSlice[t] = 0,
              !.waitTimes[t] = 0, !.due[t] = 0, !.pend[t] = <<>>,
              !.free = <<t>> \o @]

\* MUTATION: the TCB of a joinable task is freed before anybody has joined it.
FreesJoinable_OsRecycleTaskResources(k, t) == OsInsertTCBToFreeList(k, t)

OsRecycleTaskResources(k, t) ==
    LET k1 == [k EXCEPT !.status[t] = @ \ {"STACK_FREE"}]
    IN  IF Has(k, t, {"JOINABLE"}) THEN k1 ELSE OsInsertTCBToFreeList(k1, t)

\* One iteration; the idle task does nothing else.
OsRecycleFinishedTask(t) ==
    /\ Thread(t) /\ (t = Idle \/ Doing(t, "recycle"))
    /\ kernel.recycle # <<>>
    /\ kernel' = OsRecycleTaskResources([kernel EXCEPT !.recycle = Tail(@)],
                                        Head(kernel.recycle))
    /\ UNCHANGED <<todo, arg, handles>>

-----------------------------------------------------------------------------
(* Creation. *)

TaskCreate(t) ==
    /\ \/ App(t, "create")
       \/ Thread(Boot) /\ t = Boot /\ ~kernel.started /\ todo[t] = <<>>
    /\ Call(t, kernel, <<"recycle", "take">>, NoArg)

NothingToRecycle(t) ==
    /\ Doing(t, "recycle") /\ kernel.recycle = <<>>
    /\ Continue(t, kernel)

\* OsNewTaskInit up to the allocation of the stack.
OsNewTaskInit(k, x, p, joinable) ==
    [k EXCEPT !.status[x] = {"SUSPEND"} \cup (IF joinable THEN {"JOINABLE"} ELSE {}),
              !.priority[x] = p, !.timeSlice[x] = 0, !.waitTimes[x] = 0,
              !.due[x] = NoTime]

\* LOS_TaskCreateOnly takes a TCB and initialises it; LOS_TaskCreate goes on
\* to enqueue it.  Without memory for the stack the TCB goes back.
TakeTcb(t) ==
    /\ Doing(t, "take") /\ kernel.free # <<>>
    /\ LET x == Head(kernel.free)
           k == [kernel EXCEPT !.free = Tail(@)]
       IN  \E p \in CreatePrio, joinable \in BOOLEAN,
              rest \in {<<>>, <<"enqueue">>, <<"noStack">>} :
               /\ joinable => "join" \in Calls
               /\ kernel' = [OsNewTaskInit(k, x, p, joinable) EXCEPT !.status[x] =
                                IF rest = <<"noStack">> THEN @ ELSE @ \cup {"STACK_FREE"}]
               /\ todo' = [todo EXCEPT ![t] = rest, ![x] = <<>>]
               /\ arg' = [arg EXCEPT ![t] = IF rest = <<>> THEN NoArg ELSE x,
                                     ![x] = NoArg]
               /\ handles' = IF rest = <<>> THEN handles \cup {x} ELSE handles \ {x}

NoTcb(t) ==
    /\ Doing(t, "take") /\ kernel.free = <<>>
    /\ Continue(t, kernel)

NoStack(t) ==
    /\ Doing(t, "noStack")
    /\ Continue(t, OsInsertTCBToFreeList(kernel, arg[t]))

EnqueueNewTask(t) ==
    /\ Doing(t, "enqueue")
    /\ kernel' = OsSchedTaskEnQueue(kernel, arg[t])
    /\ todo' = [todo EXCEPT ![t] = IF kernel.started THEN <<"schedule">> ELSE <<>>]
    /\ arg' = [arg EXCEPT ![t] = NoArg]
    /\ handles' = handles \cup {arg[t]}

\* LOS_Schedule after a critical section has ended.
Schedule(t) ==
    /\ Doing(t, "schedule")
    /\ Continue(t, LOS_Schedule(kernel))

-----------------------------------------------------------------------------
(* Suspension. *)

\* MUTATION: a task that is not suspended may be resumed.
AnyStatus_MayResume(x) ==
    Created(x) /\ Named(x) /\ ~Has(kernel, x, {"EXIT"}) /\ x # kernel.run

MayResume(x) ==
    /\ Created(x) /\ Named(x) /\ Has(kernel, x, {"SUSPEND"})
    /\ Has(kernel, x, {"EXIT"}) => "resumeExited" \in Unprotected

TaskResume(t, x) ==
    /\ App(t, "suspend") /\ MayResume(x)
    /\ Call(t, OsSchedResume(kernel, x),
            IF ResumeNeedSched(kernel, x) THEN <<"schedule">> ELSE <<>>, NoArg)

MaySuspend(x) ==
    /\ Created(x) /\ Named(x) /\ ~Has(kernel, x, {"SUSPEND"})
    /\ Has(kernel, x, {"RUNNING"}) => kernel.lock = 0

TaskSuspend(t, x) ==
    /\ App(t, "suspend") /\ MaySuspend(x)
    /\ Call(t, OsSchedSuspend(kernel, x), IF x = t THEN <<"schedule">> ELSE <<>>, NoArg)

\* The same calls from an interrupt handler.
IsrTaskResume(x) ==
    /\ Interrupt /\ "isr" \in Calls /\ MayResume(x)
    /\ x = kernel.run => "isrResume" \in Unprotected
    /\ LET k == OsSchedResume(kernel, x)
       IN  kernel' = IF ResumeNeedSched(kernel, x) THEN LOS_Schedule(k) ELSE k
    /\ UNCHANGED <<todo, arg, handles>>

IsrTaskSuspend(x) ==
    /\ Interrupt /\ "isr" \in Calls /\ MaySuspend(x)
    /\ LET k == OsSchedSuspend(kernel, x)
       IN  kernel' = IF x = kernel.run THEN LOS_Schedule(k) ELSE k
    /\ UNCHANGED <<todo, arg, handles>>

-----------------------------------------------------------------------------
(* Joining. *)

\* u has found x exited, or has been woken by its exit, and will reclaim it.
Joining(u, x) ==
    /\ arg[u] = x
    /\ Contains(todo[u], "joinReclaim") \/ Contains(todo[u], "join")

MayJoin(t, x) ==
    /\ x # t /\ kernel.lock = 0 /\ Named(x)
    /\ (Has(kernel, x, {"EXIT"}) /\ \E u \in TCB \ {t} : Joining(u, x))
          => "doubleJoin" \in Unprotected

\* OsTaskJoinPendUnsafe on a created task, and what the call does after it.
JoinPend(t, x) ==
    IF Has(kernel, x, {"EXIT"}) THEN Call(t, kernel, <<"schedule", "joinReclaim">>, x)
    ELSE IF Has(kernel, x, {"JOINABLE"}) /\ kernel.pend[x] = <<>>
    THEN Call(t, OsSchedTaskWait(kernel, x, NoTime), <<"schedule", "joinReclaim">>, x)
    ELSE Call(t, kernel, <<>>, x)

TaskJoin(t, x) ==
    /\ \/ App(t, "join") /\ MayJoin(t, x) /\ Created(x)
       \/ Doing(t, "join") /\ arg[t] = x /\ t \in Task
    /\ IF Created(x) THEN JoinPend(t, x) ELSE Call(t, kernel, <<>>, x)

JoinReclaim(t) ==
    /\ Doing(t, "joinReclaim")
    /\ Continue(t, OsRecycleTaskResources(
                       [kernel EXCEPT !.status[arg[t]] = @ \ {"JOINABLE"}], arg[t]))

\* OsTaskSetDetachUnsafe, or LOS_TaskJoin of a task that has exited.
TaskDetach(t, x) ==
    /\ App(t, "join") /\ Created(x) /\ Named(x)
    /\ IF Has(kernel, x, {"EXIT"})
       THEN MayJoin(t, x) /\ Call(t, kernel, <<"join">>, x)
       ELSE /\ Has(kernel, x, {"JOINABLE"}) /\ kernel.pend[x] = <<>>
            /\ Call(t, [kernel EXCEPT !.status[x] = @ \ {"JOINABLE"}], <<>>, x)

-----------------------------------------------------------------------------
(* Deletion, by another task or at the end of the task's own function. *)

OsTaskJoinPostUnsafe(k, x) ==
    IF Has(k, x, {"JOINABLE"}) /\ k.pend[x] # <<>>
    THEN OsSchedTaskWake(k, Head(k.pend[x])) ELSE k

\* The running task goes on on the TCB Boot until it is switched out.
OsRunningTaskDelete(k, x) ==
    [k EXCEPT !.status[x] = @ \cup {"UNUSED"},
              !.status[Boot] = k.status[x] \cup {"UNUSED"},
              !.recycle = Append(@, x),
              !.run = Boot]

Exited(x) ==
    LET unlocked == IF Has(kernel, x, {"RUNNING"}) THEN [kernel EXCEPT !.lock = 0] ELSE kernel
    IN  OsSchedTaskExit(OsTaskJoinPostUnsafe(unlocked, x), x)

MayDelete(x) == Created(x) /\ Named(x) /\ ~Has(kernel, x, {"EXIT"})

DeleteSelf(t) ==
    /\ App(t, "delete") /\ MayDelete(t)
    /\ IF Has(Exited(t), t, {"JOINABLE"})
       THEN Call(t, Exited(t), <<"schedule">>, NoArg)
       ELSE Call(Boot, OsRunningTaskDelete(Exited(t), t), <<"schedule">>, NoArg)

\* A call that x was in is never finished.
DeleteOther(t, x) ==
    /\ App(t, "delete") /\ x # t /\ MayDelete(x)
    /\ kernel' = OsRecycleTaskResources(Exited(x), x)
    /\ todo' = [todo EXCEPT ![x] = <<>>]
    /\ arg' = [arg EXCEPT ![x] = NoArg]
    /\ UNCHANGED handles

-----------------------------------------------------------------------------
(* Delay, yield, priority, scheduler lock. *)

TaskYield(t) ==
    /\ App(t, "yield")
    /\ Call(t, OsSchedYield(kernel), <<"schedule">>, NoArg)

TaskDelay(t, ticks) ==
    /\ App(t, "delay") /\ kernel.lock = 0
    /\ Call(t, IF ticks = 0 THEN OsSchedYield(kernel) ELSE OsSchedDelay(kernel, ticks),
            <<"schedule">>, NoArg)

TaskPriSet(t, x, p) ==
    /\ App(t, "priset") /\ Created(x) /\ Named(x)
    /\ Call(t, OsSchedModifyTaskSchedParam(kernel, x, p),
            IF ModifyNeedSched(kernel, x) THEN <<"schedule">> ELSE <<>>, NoArg)

TaskLock(t) ==
    /\ App(t, "lock") /\ kernel.lock < MaxLock
    /\ kernel' = [kernel EXCEPT !.lock = @ + 1]
    /\ UNCHANGED <<todo, arg, handles>>

\* MUTATION: the lock is not checked before it is counted down.
Unchecked_TaskUnlock(t) ==
    /\ App(t, "lock") /\ kernel.lock >= 0
    /\ Call(t, [kernel EXCEPT !.lock = @ - 1], <<>>, NoArg)

TaskUnlock(t) ==
    /\ App(t, "lock") /\ kernel.lock > 0
    /\ Call(t, [kernel EXCEPT !.lock = @ - 1],
            IF kernel.lock = 1 THEN <<"schedule">> ELSE <<>>, NoArg)

-----------------------------------------------------------------------------
(* The tick interrupt and the context switch.                              *)
(* LOS_SchedTickHandler runs with interrupts locked; its scan of the sort  *)
(* link, a loop, is one step per task it wakes.                            *)

TickStart ==
    /\ Interrupt
    /\ kernel' = [Elapse(kernel) EXCEPT !.tick = TRUE]
    /\ UNCHANGED <<todo, arg, handles>>

TickScan ==
    /\ kernel.tick /\ ~kernel.panic /\ Expired(kernel)
    /\ LET t == Head(kernel.sortLink)
       IN  kernel' = OsSchedWakePendTimeTask(OsDeleteNodeSortLink(kernel, t), t)
    /\ UNCHANGED <<todo, arg, handles>>

TickEnd ==
    /\ kernel.tick /\ ~kernel.panic /\ ~Expired(kernel)
    /\ \E used \in 0 .. 1 :
          kernel' = LOS_Schedule([OsTimeSliceUpdate(kernel, used) EXCEPT !.tick = FALSE])
    /\ UNCHANGED <<todo, arg, handles>>

\* The timer was programmed for the end of the running task's slice
\* (g_schedResponseID is its ID): no scan, and nothing of the slice is left.
SliceEnd ==
    /\ Interrupt /\ kernel.run # Idle
    /\ kernel' = LOS_Schedule(OsTimeSliceUpdate(kernel, kernel.timeSlice[kernel.run]))
    /\ UNCHANGED <<todo, arg, handles>>

\* The lowest interrupt of all: it waits for the others.
PendSV ==
    /\ kernel.pendSV /\ ~kernel.tick /\ ~kernel.panic
    /\ \E used \in 0 .. 1 : kernel' = OsSchedTaskSwitch(OsTimeSliceUpdate(kernel, used))
    /\ UNCHANGED <<todo, arg, handles>>

-----------------------------------------------------------------------------

TaskStep(t) ==
    \/ OsRecycleFinishedTask(t) \/ TaskCreate(t) \/ NothingToRecycle(t)
    \/ TakeTcb(t) \/ NoTcb(t) \/ NoStack(t) \/ EnqueueNewTask(t) \/ Schedule(t)
    \/ JoinReclaim(t) \/ DeleteSelf(t) \/ TaskYield(t) \/ TaskLock(t) \/ TaskUnlock(t)
    \/ \E d \in Delay : TaskDelay(t, d)
    \/ \E x \in Task :
          \/ TaskResume(t, x) \/ TaskSuspend(t, x) \/ TaskJoin(t, x)
          \/ TaskDetach(t, x) \/ DeleteOther(t, x)
          \/ \E p \in CreatePrio : TaskPriSet(t, x, p)

IsrStep == \E x \in Task : IsrTaskResume(x) \/ IsrTaskSuspend(x)

TimerStep == TickStart \/ TickScan \/ TickEnd \/ SliceEnd

TaskNext == Start \/ PendSV \/ TimerStep \/ IsrStep \/ \E t \in TCB : TaskStep(t)

TaskSpec == Init /\ [][TaskNext]_taskVars

-----------------------------------------------------------------------------
(* Correctness. *)

ObjectIsTask(steps) ==
    \E i \in DOMAIN steps : steps[i] \in {"enqueue", "noStack", "join", "joinReclaim"}

\* Every variable keeps its type; a call that has a task as its object names one.
TaskTypeOK ==
    /\ kernel \in SchedState /\ SpecialTasks(kernel)
    /\ todo \in [TCB -> Seq(Step)]
    /\ arg \in [TCB -> WaitList \cup {NoArg}]
    /\ handles \subseteq Task
    /\ \A t \in TCB : ObjectIsTask(todo[t]) => arg[t] \in Task

\* No LOS_ASSERT fails: no interleaving enqueues a task that is ready already
\* (los_sched.c:226).
NoAssertFails == ~kernel.panic

\* The lists that the one list node of t is on.
OnLists(t) ==
    {<<"ready", p>> : p \in {q \in Prio : Contains(kernel.ready[q], t)}}
    \cup {<<"pend", o>> : o \in {w \in WaitList : Contains(kernel.pend[w], t)}}
    \cup (IF Contains(kernel.free, t) THEN {<<"free">>} ELSE {})
    \cup (IF Contains(kernel.recycle, t) THEN {<<"recycle">>} ELSE {})

\* A TCB's one list node is on at most one list, once, and on the one its status
\* names: the ready queue of its priority, a wait list, or the free or recycle
\* list.  Inserting a node that is still linked would tear both lists.
ListsMatchStatus ==
    /\ \A p \in Prio : IsInjective(kernel.ready[p])
    /\ \A o \in WaitList : IsInjective(kernel.pend[o])
    /\ IsInjective(kernel.free) /\ IsInjective(kernel.recycle)
    /\ \A t \in Task :
        LET on == OnLists(t)
        IN  /\ Cardinality(on) <= 1
            /\ Has(kernel, t, {"READY"}) <=> <<"ready", kernel.priority[t]>> \in on
            /\ Has(kernel, t, {"PEND"}) <=> \E o \in WaitList : <<"pend", o>> \in on
            /\ Has(kernel, t, {"UNUSED"}) <=> on \cap {<<"free">>, <<"recycle">>} # {}

\* The bitmap that OsGetTopTask searches has exactly the bits of the queues
\* that are not empty, whatever priority changes and wake-ups have happened.
BitmapMatchesQueues == BitmapMatches(kernel)

\* A task has a timeout running if and only if it was switched out while
\* delayed or waiting with a limit; the sort link is in order and has it once.
SortLinkMatchesStatus ==
    /\ \A i, j \in DOMAIN kernel.sortLink : i < j =>
          /\ kernel.sortLink[i] # kernel.sortLink[j]
          /\ kernel.due[kernel.sortLink[i]] <= kernel.due[kernel.sortLink[j]]
    /\ \A t \in Task : Contains(kernel.sortLink, t) <=>
          Has(kernel, t, {"DELAY", "PEND_TIME"}) /\ ~Has(kernel, t, {"RUNNING"})

\* Between two context switches one task is running, and it is runTask; a dead
\* one on the recycle list keeps its flag, but leaves no lock to keep the
\* processor on the TCB Boot.
OneTaskRuns ==
    kernel.started =>
        /\ kernel.run = Boot => kernel.lock = 0
        /\ {t \in TCB \ {Boot} : Has(kernel, t, {"RUNNING"}) /\ ~Contains(kernel.recycle, t)}
              = {kernel.run} \ {Boot}

\* While application code runs with the scheduler unlocked, no ready task has a
\* higher priority: no wake-up, resume, creation or priority change forgets to
\* ask for a switch.
HighestPriorityRuns ==
    (Thread(kernel.run) /\ kernel.started /\ kernel.lock = 0 /\ todo[kernel.run] = <<>>) =>
        /\ ~Has(kernel, kernel.run, OS_TASK_BLOCKED_STATUS \cup {"DELAY", "PEND_TIME"})
        /\ \A p \in kernel.queueBitmap : kernel.priority[kernel.run] <= p

\* A task that was deleted or has returned is never ready again, and the task
\* that runs has its stack.  It fails if an exited task is resumed (resumeExited).
ExitedIsOver ==
    /\ \A t \in Task : Has(kernel, t, {"EXIT"}) => ~Has(kernel, t, {"READY"})
    /\ kernel.run \in Task => Has(kernel, kernel.run, {"STACK_FREE"})

\* A task that comes back from its wait in LOS_TaskJoin reclaims a task that has
\* exited: neither a suspension and resumption, nor the deletion and reuse of a
\* TCB, brings it back early to take the stack of a task that lives.
JoinedTaskHasExited ==
    \A t \in Task : Doing(t, "joinReclaim") => Has(kernel, arg[t], {"EXIT"})

\* While the scheduler is locked the processor stays with the running task,
\* whatever wakes, resumes or creates another, unless it ends itself.
NoSwitchWhileLocked ==
    [][kernel.lock > 0 /\ kernel'.run # kernel.run => DeleteSelf(kernel.run)]_taskVars

\* A task that is suspended stays out of the ready queues until it is resumed
\* or reclaimed: no timeout, wake-up or priority change lifts the suspension.
SuspendedUntilResumed ==
    [][\A x \in Task :
         Has(kernel, x, {"SUSPEND"}) /\ Has(kernel', x, {"READY"}) =>
            \/ IsrTaskResume(x)
            \/ \E t \in TCB : TaskResume(t, x)
            \/ \E t \in TCB : EnqueueNewTask(t) /\ arg[t] = x]_taskVars

=============================================================================
