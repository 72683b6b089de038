# A TLA+ verification of the kernel of the GD32F450 firmware

The firmware runs two sample tasks on LiteOS-M, a preemptive real-time kernel for one Cortex-M4
core. Its correctness is the kernel's: list surgery on task control blocks from threads and interrupt
handlers, a context switch that happens later than it is asked for, timeouts that race with
wake-ups. This directory models that kernel in TLA+, checks it with TLC and proves part of it with
TLAPS. Paths are relative to the repository; `K` is `liteos/kernel/src`.

## The system

| component | state | operations | in contact with |
|---|---|---|---|
| Scheduler, `K/los_sched.c` | 32 ready queues and a bitmap of those that are not empty; running task; flags, priority and time slice of each TCB; scheduler lock | enqueue, dequeue, wait, wake, delay, suspend, resume, exit, switch, tick | everything below calls it with interrupts locked |
| Sort link, `K/los_sortlink.c` | a list ordered by response time | add, delete, scan by the tick | scheduler, software timers |
| Tasks, `K/los_task.c` | TCBs, free list, recycle list, join lists | create, suspend, resume, join, detach, delete, delay, yield, priority, lock, unlock | scheduler, memory |
| Context switch, `liteos/arch/arm/cortex-m4/gcc/los_dispatch.S` | PendSV pending, interrupts masked | request, switch | scheduler |
| Semaphores, `K/los_sem.c` | control blocks, unused list, wait lists | create, delete, pend, post | scheduler, tasks, interrupt handlers |
| Mutexes, `K/los_mux.c` | owner, nesting, the owner's saved priority, wait lists | create, delete, pend (raises the owner), post (restores it) | scheduler |
| Events, `K/los_event.c` | event bits, wait list, each waiter's mask and mode | init, read, write, clear, destroy | scheduler |
| Queues, `K/los_queue.c` | ring buffer, counts of free and filled nodes, two wait lists | create, delete, read, write, mail | scheduler, memory |
| Software timers, `K/los_swtmr.c` | control blocks, own sort link, handler queue, timer task | create, start, stop, delete, scan, handler | scheduler, queues |
| Tick and time, `K/los_tick.c`, `liteos/arch/arm/cortex-m4/gcc/los_timer.c` | 64-bit count built on a hardware counter that wraps | tick, read, reload | scheduler, SysTick |
| Memory, `K/mm` | segregated-fit heap: nodes with headers, free lists, bitmap; pools of blocks | alloc, aligned alloc, realloc, free | everything |
| Port: exceptions, MPU, interrupts | registers | | kernel |
| `liteos/components`, `liteos/kal` | CPU usage, trace, shell, power, signals, POSIX, CMSIS | | kernel calls |
| `application`, `board` | two tasks, LEDs, keys, UART | delay, blink, print | kernel calls |
| `firmware`, `middlewares`, `liteos/third_party` | vendored | | |

They interact in three ways. A *call* runs as a sequence of critical sections (LOS_IntLock to
LOS_IntRestore); after the last one the call may ask for a context switch, by setting PendSV pending
(`LOS_Schedule`). An *interrupt* may run between any two critical sections, and after the last
interrupt the pending switch is taken. The *shared state* is each TCB's status word and its one list
node, which at any time is on a ready queue, a wait list, the free list or the recycle list.

### What is hard about it

* **The window between a call and its switch.** A task that delays, waits or suspends itself is
  RUNNING and also blocked until PendSV. Wake-ups, timeouts and resumes hit it in that window.
  It goes on the sort link only at the switch.
* **One list node per TCB.** A node inserted twice tears two lists. Which list a task is on has to
  follow from its status word, which several flags at once describe (SUSPEND with PEND and
  PEND_TIME, for instance).
* **A cached bitmap** of the non-empty queues, and a priority that may change under a queued task.
* **Calls in several critical sections**: creation (recycle, take a TCB, enqueue), joining (look,
  wait, reclaim). TCBs are reused, so what was true in one section may be about another task in the
  next.
* **A task that deletes itself** goes on running on its stack until the switch, on a stand-in TCB.
* **Fairness among equals** depends on the slice and on which end of the queue a task returns to.
* **Results handed to sleepers.** A post, a queue operation or a mail is decided by whoever wakes a
  task; the woken task acts on it later, when it may also have timed out, been suspended or deleted.
  Events do the opposite: the woken task polls again.
* **A timer without ticks.** There is no periodic tick. SysTick is set for the next deadline, what it is
  set for is cached, and the same counter, which wraps, is the clock. Reader and interrupt both
  repair the clock after a wrap.
* **Software timers expire in two steps**, in the tick interrupt and in the timer task, with a queue
  between them and the whole API allowed in between.

`PROJECT.json` lists the hazards line by line with the properties that cover them.

### What makes each component correct

* Scheduler: the bitmap matches the queues; each TCB is on the list its status names; the task that
  runs has the highest priority unless the scheduler is locked; no assertion fails; no starvation
  among equals; the timer interrupt is not set too late for a deadline, but for what late cancels cost (`DeadlinesAreMet`).
* Sort link: in order, and has exactly the tasks with a timeout that are switched out; every timeout
  expires.
* Tasks: suspension holds until resumption; the lock holds until it is given up; a dead task stays
  dead; a TCB is freed once, and only after its task has exited and, if joinable, been joined.
* Semaphores: a counter with a first-come-first-served queue, whatever happens around it.
* Mutexes: one owner at a time, followed by who has waited longest; nobody waits for a mutex that has
  no owner; what an owner inherits it gives back with its last mutex.
* Events: nobody waits for bits that are there; a read, whether it waits or not, takes no bits but those its mask and mode ask for.
* Queues: first in, first out, each message once; free, filled and reserved nodes are all nodes. Mails:
  each block is in one place.
* Software timers: a timer that is free does not tick; a one-off timer expires once; aligned
  timers expire together.
* Time: never runs back, and neither loses a period nor counts one twice.
* Heap: blocks do not overlap, are aligned and large enough, keep their content; a request is refused only
  if there is no room for it in one piece; what is freed can be allocated again.

## Modules

```
LosSched        scheduler and sort link: operators on one record, no variables
  LosTask       tasks, tick interrupt, PendSV: VARIABLES kernel, todo, arg, handles
    LosSem      semaphores: semCB, unusedSem
      LosSemRefinement   LosSem implements Semaphore, one instance per semaphore
      LosLive            fairness and liveness
    LosMux      mutexes: muxCB, unusedMux, and the histories held, given
      LosMuxRefinement   LosMux implements Lock, one instance per mutex
    LosEvent    events: eventCB, wish
      LosEventRefinement   LosEvent implements EventGroup, one instance per event
    LosQueue    message queues: queueCB, freeQueue, job, and the history lost
      LosQueueRefinement   LosQueue implements BoundedQueue, one instance per queue
      LosMail   memory pool and mails: pool, msg, out, and the history gone
LosSwtmr        software timers: swtmr, freeTimers, handlers, hand, scanning
LosTick         the clock on the SysTick counter
  LosExpire     the programming of that counter by the scheduler; implements LosTick
LosMemory       the heap: heap, and what its callers know: blocks, refused
  LosMemoryRefinement   LosMemory implements Heap
Semaphore, Lock, EventGroup, BoundedQueue, Heap    what the objects promise
MCTask, MCIpc, MCQueue, MCMux, MCTimers, MCHeap, MCLive    constants and bounds for TLC
ListLemmas, LosTaskProofs, LosListProofs, LosMuxProofs, LosEventProofs (semaphores too),
LosQueueProofs, LosTimerProofs, LosMemoryProofs    lemmas and theorems
```

**LosSched** (`K/los_sched.c`, `K/los_sortlink.c`). The scheduler's globals and the TCB fields are
one record; each C function is an operator from the record to the next, with the function's name. The
callers compose them within a critical section, as the C code does. Lists are sequences. A response
time is kept as the ticks still to go (`due`), so that no clock grows. `LOS_ASSERT` of
`OsSchedTaskEnQueue` sets `panic`, after which nothing happens.

**LosTask** (`K/los_task.c`, `LOS_SchedTickHandler`, `HalPendSV`). One action per critical section.
`todo[t]` is what is left of the call task t is in, `arg[t]` its object; when `todo[t]` is empty, t is in
application code and may make any call of `Calls`. Only `kernel.run` executes, and only while no
interrupt or switch is pending (`Thread`). The loop over the sort link in the tick handler is one step
per task. `TickEnd` and `PendSV` charge the running task none or one tick of its slice; `SliceEnd` is the
timer interrupt for the end of the slice. `handles` are the IDs that the application has: it is taken
to know a task only after `LOS_TaskCreate` has returned its ID, except under `earlyHandle`.

**LosSem** (`K/los_sem.c`) adds the semaphores; interrupt handlers may post. **Semaphore** is their
abstract specification: counter, queue of waiters, the waiters that have been granted a token and
those whose time is over. The refinement maps the wait list and the flags PEND and TIMEOUT of the
tasks inside `LOS_SemPend` to it.

**LosMux** (`K/los_mux.c`) adds the mutexes: `MuxTake`, `MuxRepeat` and `MuxWait` are the three ways
through `LOS_MuxPend`, `MuxPostNested`, `MuxPostFree` and `MuxPostHand` those through `LOS_MuxPost`, each
with the change of priority that goes with it (`Inherited`, `Restored`). Two variables are not the
code's: `held`, the mutexes a task owns in the order it got them, and `given`, the priority it was
created with. **Lock** is the abstract mutex: owner, depth, queue, and the callers that have been
handed it or whose time is over. A call that returns success returns to the owner, which is where
a hand-over that raced with a timeout would show.

**LosEvent** (`K/los_event.c`) adds the events. `LOS_EventRead` and `LOS_EventWrite` check their
parameters outside the critical section, so each is two steps, `EventRead` or `EventWrite` and then one of `ReadTakes`,
`ReadFails`, `ReadWaits` or `WriteWakes`, with `ReadResult`, the second poll, after a wait. `wish[t]` is the
call's mask and mode, which a wait saves in the TCB. A write wakes OR readers by the bits it
writes and AND readers by all that are set (`WokenBy`); that this suffices is `NoReaderForgotten`.
**EventGroup** is the abstract event: bits, readers that wait, readers that a write woke, readers whose
time is over. A woken reader may find its bits gone: that is part of what it promises. A read that need not wait (`Poll`) takes
what it wants; any bits may go only in `Clear`. The refinement ties these two to who does them (`TakenAtOnce`): only
`LOS_EventClear` clears, and a poll is for the wish of the task that calls `LOS_EventRead`, or of the handler that calls `LOS_EventPoll`.

**LosQueue** (`K/los_queue.c`) adds the message queues: the ring with head and tail, the two counts and the
two wait lists. A task woken from a list has a node reserved: it was taken off one count and not put
on the other (`Reserved`; `job` is what the task will do with it). `lost` counts the nodes of tasks
that were deleted in that state. **BoundedQueue** is the abstract queue, a sequence of
messages, and for each of its two sides the callers that wait, that have been granted a message or a place, and whose time
is over. A grant is for what is there when it is made, and nobody else can have it. In the refinement the content is what the ring holds from the head on, as many nodes as
are `Filled`; the grants are the reserved nodes; `GaveUp` are the tasks in a call with TIMEOUT and without PEND. **LosMail** adds a memory pool (`K/mm/los_membox.c`) and the third list of a queue,
`OsQueueMailAlloc` and `OsQueueMailFree`: a block goes from one task to the next through `msg` of the TCB. A pool goes with one queue (`MailQueue`): the code takes
both as arguments, and with two queues on one pool a free would wake nobody on the other queue.

**LosSwtmr** (`K/los_swtmr.c`) has the software timers by themselves: an API call is one critical section
that may come from anywhere, so the scheduler adds no order that interleaving does not have. Time
passes in ticks (`TimePasses`), the scan in the tick interrupt comes up to `MaxLate` ticks late, one step
per timer (`OsSwtmrTimeoutHandle`), and the timer task reads its queue and handles the item in two
steps. A timer's ID is its block and the number of its use (`life`), as `usTimerID` is. `OsSwtmrFindAlignPos` is written
by what it finds: a timer of the same interval, of the nearest multiple, of the nearest divisor.

**LosTick** (`K/los_tick.c`, `los_timer.c`) has the clock, cycle by cycle: a counter that shows `load`, ...,
0 and pends the tick as it wraps, the base, the mark that a reader has moved the base on, the
tick handler, which does not lock, in three steps. `real` is the true time. **LosExpire** (the rest of
`K/los_sched.c`) adds what the scheduler sets the counter to: `OsSchedSetNextExpireTime` at every context
switch, start or stop of a timer, and tick with the scheduler locked. Tasks are what is left of their slices,
both sort links one set of deadlines, in which one element may stand for several nodes (`Cancel`). The history `lost` counts what late cancels
cost since the sort links were looked at, see `DeadlinesAreMet` below. It shows why the other models may take it that a tick comes when something
is due.

**LosMemory** (`K/mm/los_memory.c`) has one pool of the heap, in words. A node's header (`size`, `used`, `aligned`, `prev`) is a
record at the node's address, the free lists are sequences by list index, and every C function is an operator from the
record `heap` to the next, as in LosSched; a call is one critical section. The bitmap is a set of list indexes: the search for
its first bit goes over words of 32 in the code. `gap` has the words that
`LOS_MemAllocAlign` stores before an aligned pointer and `OsGetRealPtr` reads back. `blocks` is what callers hold: pointer, size
and where the data is that they have put there, which `LOS_MemRealloc` copies or leaves. **Heap** is the
abstract one: disjoint parts of an area, and refusals only without room.

**Calls that nothing refuses.** `Unprotected` names eight call patterns that break the kernel although no
check refuses them. With `Unprotected = {}` the application keeps clear of them, and all passing runs
have that. What TLC shows when one is allowed:

* `isrResume` has a violation run, see below.
* `doubleJoin`: `ListsMatchStatus` is violated. `LOS_TaskJoin` decides in one critical section and reclaims in
  another: of several tasks that find the same task exited, each puts its TCB on the free list.
* `resumeExited`: `ExitedIsOver` is violated. `LOS_TaskResume` does not look at EXIT, so a joinable task that was
  deleted while suspended can be made ready again, without a stack.
* `notLifo`: `PriorityRestored` is violated. Of two mutexes released in the order in which they were taken, the
  second restores a priority that was inherited through the first, for good.
* `deleteOwner`: a task ends that owns a mutex; its TCB stays the owner, and the next waiter raises the
  priority of whoever has it then.
* `earlyHandle` is explained above under LosTask.
* `destroyInUse`: the event is destroyed between a reader's check and its critical section, which then
  waits on a list that is not there (`LOS_EventDestroy` sets its pointers to null).
* `mailLocked`: `OsQueueMailAlloc` does not look at the scheduler lock, unlike `OsQueueOperate`. The call cannot give
  way, comes back without having been woken, and takes `msg` for a block, which the comment at
  `K/los_queue.c:601` says "can not be NULL": `MailNotNull` is violated.

## Runs

| run | instance | what is shown |
|---|---|---|
| tasks | 3 tasks, priorities 0 and 1 (2 is the idle task's), all calls but join, delays 0 and 1, lock depth 1, interrupt handlers that suspend and resume; 0.9 million states | types, no assertion fails, lists, bitmap, sort link, flags agree, the right task runs, locks and suspensions hold |
| join | 3 tasks of one priority: create, delete, join, detach, suspend, resume; 0.6 million states | a TCB is freed once and not before its task was joined; a joiner reclaims only an exited task |
| ipc | 2 tasks, handlers, timeouts 0, 1 and forever, deletion of tasks and objects; a semaphore with limit 1 or 2, suspensions at any time, or an event with two bits and readers of any or all of them, who may be suspended in their wait; 0.9 million states | implements `Semaphore`, `EventGroup`; nobody waits for a token or for bits that are there; waiters have an object; a post never forgets to schedule |
| queue | 2 tasks, handlers, the same timeouts; a queue of two nodes written at both ends, or a pool of two mails; deletion of tasks and of the queue; 0.5 million states | implements `BoundedQueue`; nodes and blocks are conserved; nobody waits for what is there; a queue with reserved nodes is not deleted |
| mutex | 3 tasks, priorities 0 and 1, one mutex locked up to twice; or 2 tasks that nest two mutexes and suspend each other; the same timeouts, deletion of tasks and mutexes; 0.5 million states | implements `Lock`; nobody waits for a mutex that is free or not there; inherited priorities leave no trace |
| timers | 2 software timers, intervals 2 and 4, all modes, handler queue of 2, scans up to one tick late; or 12 cycles of the clock with periods 3 to 6, precision 3, one task with slice 6 beside the idle task, up to two deadlines 1 to 3 cycles ahead, a late cancel between scans; 2.7 million states | timers expire once and aligned ones together; free timers do not tick; the clock is exact and never runs back; no deadline is later than `DeadlinesAreMet` says |
| heap | 24 words, blocks of 2 and 7 words, alignment to 4; 24 thousand states | implements `Heap`; headers, lists and accounts agree, nothing leaks |
| timeouts | 2 tasks, fair: delays, timed waits, suspension, posts by tasks and by handlers, deletion of the semaphore; 73 thousand states | every timeout expires |
| roundRobin | 3 tasks of one priority, fair: delays and yields; 7 thousand states | nobody ready starves |
| isrResume | 2 tasks, `isrResume` | **violation** of `NoAssertFails` |
| swtmrRestart | as timers, with `RestartExpired` | **violation** of `NoFreeTimerTicks` |
| lateTimer | as timers, with `SliceOver`, precision 3, periods up to 14 and 22 cycles | **violation** of `DeadlinesAreMet` |

*Two systems in one run.* Semaphores and events share nothing but the scheduler, and the software timers
and the clock share no state; `MCIpc` and `MCTimers` choose one at the start of a behaviour (`kind`). `MCQueue` and
`MCMux` bound by a CONSTRAINT what is used at the same time (messages or mails; three tasks or two
mutexes), and so does `MCIpc` (in behaviours with an event only a reader is suspended, and only in its wait: elsewhere a suspension is one
between any two calls, which the run `tasks` has). None of this hides an interaction: none of the C files of such a pair calls the other or touches its
data, and a task is in one call at a time.

*Bounds.* Three tasks are one that acts, one it acts upon, and one that is in between on a list: enough
for middle-of-list removals, for two tasks racing for a third, and for a queue of two behind a running
task. Two tasks are enough for a waiter and a poster; handlers are further actors, and two waiters of one
event or queue with a handler that serves them are covered. Delays of one tick
make a timeout race with everything else; a second tick would only order two of them, and two tasks
that delay at different ticks already have due times 0 and 1. Two application priorities give preemption
in both directions. Three tasks on one mutex are an owner and a queue of two, so that a hand-over
leaves somebody behind; two mutexes are what nesting needs. `MaxDepth` 2 is one repeated lock,
and the counter is never compared but with 0 and 1. A queue of two nodes can be empty, partly full and full, and
head and tail wrap. `MaxLock` 1 bounds the nesting, which the code counts with no limit of its own; the
runs that are not about the lock set it to 0. A time slice of one tick makes it run out at once or not
at all. Two software timers of intervals 2 and 4 with `Divisor` 2 are of the same, a larger and a smaller
multiple; `Lives` 2 is an ID and the next (`FreshId` keeps an ID from coming back while an item with it is in
the queue, which takes tens of millions of uses of one block in the code); a handler queue of 2 overflows when the timer task is
slow. The clock runs for 12 cycles, which is up to four periods; 3 is the precision, and the counter may be set for a deadline 3 ahead or for the end of a slice
later than that, so deadlines 1 to 3 ahead fall before, at and behind what it is set for. Two of them, of which one may stand for several nodes, are one that is cancelled
beside one that is overdue; `MaxLost` 3 is one such cancel between two scans, and it does make a deadline later: TLC finds d served at d + 4 at the latest without it and at
d + 5 with it. A slice of 6 with `MinPeriod` 3 is aligned to a deadline or not.
`Latency` 1 is one cycle for the tick interrupt to wait. 24 words of heap are six of the smallest blocks, so holes
between used blocks, merges on both sides and refusals with enough space in pieces all occur; the constants of the size classes are scaled (lists of single sizes below
8 words, two lists for every power of two from there) so that a request of 7 words, 9 with the header, and its remainders fall into lists of several sizes, as
requests of 128 bytes and more do in the code. Symmetry is over the tasks, mutexes, mail blocks and timers: `Init` has every
order of the free lists, so nothing tells them apart. The liveness runs use none.

*Deadlock* is checked in every run: ticks never stop, and in `timers` a read of the clock and in `heap` a request is always possible.

*Fairness* (`LosLive`). The tick is weakly fair: SysTick is armed on every path out of
`OsSchedSetNextExpireTime` (`LosExpire` shows when it fires), and interrupts are masked for finite times
only. PendSV is strongly fair: it
stays pending while other interrupts run, and the NVIC takes it when there is none. It is written as a
formula on the pending flag, which is set until the switch. A task in the middle of a kernel call finishes it if it
gets the processor again and again (strong, because interrupts come in between), and so for the
end of its slice. The idle task needs none, and no task is assumed ever to make another call.

### Mutations

Every property is shown to be able to fail: a definition marked `MUTATION` is a plausible error in the
definition after it, and with it in place the named property is violated.

| run | property | definition | error |
|---|---|---|---|
| tasks | TaskTypeOK | TaskUnlock | unlock without looking at the count |
| tasks | NoAssertFails | MayResume | resume of a task that is not suspended |
| tasks | ListsMatchStatus | OsSchedModifyTaskSchedParam | priority changed in place |
| tasks | BitmapMatchesQueues | OsSchedPriQueueDelete | bit of an emptied queue not cleared |
| tasks | SortLinkMatchesStatus | OsSchedTaskExit | exit leaves the timeout running |
| tasks | OneTaskRuns | OsSchedTaskSwitch | RUNNING not cleared |
| tasks | HighestPriorityRuns | ModifyNeedSched | lowering one's own priority does not schedule |
| tasks | NoSwitchWhileLocked | LOS_Schedule | lock ignored |
| tasks | SuspendedUntilResumed | OsSchedWakePendTimeTask | timeout lifts a suspension |
| join | ListsMatchStatus | OsRecycleTaskResources | joinable TCB freed at once |
| join | ExitedIsOver | OS_TASK_BLOCKED_STATUS | EXIT left out |
| join | JoinedTaskHasExited | ResumeNeedSched | resume of a waiting task makes it ready |
| ipc | IpcTypeOK | ReadWaits | what a reader waits for is not saved |
| ipc | NoWaitWithTokens | SemPostCounts | counts although somebody waits |
| ipc | WaitersHaveSemaphore | SemDelete | deletion with waiters |
| ipc | HighestPriorityRuns | SemPost | wakes without scheduling |
| ipc | EachIsASemaphore | OsSchedTaskWait | waiters served last in, first out |
| ipc | NoReaderForgotten | ReadMustWait | no poll before the wait |
| ipc | EachIsAnEvent | LOS_EventPoll | a read clears all bits |
| queue | QueueTypeOK | Forward | index wraps one node too late |
| queue | NodesConserved | GrantedBlock | a woken task takes its node off the count again |
| queue | NoWaitWithNodes | Operated | node counted although somebody is woken for it |
| queue | WaitersHaveQueue | QueueDeletable | reserved nodes not looked at |
| queue | MailsAreSafe | Deliver | block to the pool although somebody is woken |
| queue | EachIsAQueue | OsQueueBufferOperate | head moved after the write at the head |
| mutex | MuxTypeOK | MuxPostFree | owner not reset |
| mutex | WaitersHaveOwner | MuxDeleteValid | deletion with waiters or an owner |
| mutex | PriorityRestored | Restored | the inherited priority is kept |
| mutex | EachIsALock | MuxPostValid | anybody may release |
| timers | TimersTypeOK | OsSwtmrCalcStartTime | next point of the grid instead of the last |
| timers | NoFreeTimerTicks | IsCurrent | ID not compared |
| timers | OnceExpiresOnce | AfterTimeout | one-off timers started again |
| timers | AlignedExpireTogether | OsSwtmrStop | mark of alignment kept |
| timers | ClockNeverGoesBack | Wrapped | wrap not looked for |
| timers | ClockKeepsUp | MustAdd | base moved on twice |
| timers | DeadlinesAreMet | TickIsOver | time of the tick kept after it |
| heap | HeapIsSound | OsMemMergeNode | the next node keeps the merged one for its `prev` |
| heap | IsAHeap | OsMemFindNextSuitableBlock | the list of the size itself never searched |
| timeouts | TimeoutsExpire | PutBack | blocked flags looked at before DELAY and PEND_TIME |
| roundRobin | ReadyRuns | ReadyQueueIn | always to the head of the queue |

### What the violations show

* **isrResume.** A task suspends itself; before its switch a handler resumes it. `OsSchedResume`
  enqueues it, still RUNNING, and the switch enqueues it again: `LOS_ASSERT` in `OsSchedTaskEnQueue`.
  `OsSchedTaskWake` has the check that is missing. "Suspend me, the interrupt resumes me" is a common
  idiom.
* **swtmrRestart.** A one-off timer that has expired stays TICKING until the timer task gets its item.
  `LOS_SwtmrStart` in between puts it back on the sort link, under the same ID. The timer task finds the ID
  right, and `OsSwtmrDelete` frees the control block without taking it off the sort link. Whoever creates the
  next timer gets a block that is already linked. Restarting a watchdog-like one-off timer from
  a task is ordinary use; the window is as long as the timer task is kept from running.
* **lateTimer.** `K/los_sched.c:94-98` lets a task run past the end of its slice, up to `g_schedTickMinPeriod`, when a
  deadline follows soon. If in that time the task starts or stops a software timer,
  `OsSchedUpdateExpireTime` computes the end of the slice from the task's old `startTime`, in the past, and line 112 subtracts the
  current time from it in 64 unsigned bits. `SysTickReload` cuts the result to 2^24 - 1 cycles: the next tick comes
  some 80 ms later, whatever is due before.

More behaviours were met that no run states.

* The counter is set for no sooner than the precision, 0.75 ms, from the time it is set (`K/los_sched.c:93`), so several
  deadlines may be due when it fires. If a node that is due by then is deleted shortly before, because its task is woken or its timer stopped,
  `OsSchedResetSchedResponseTime` (`K/los_sched.c:69-74`) forgets what the counter is set for, and it is set anew for a precision from then, although
  others are overdue. That can happen again and again, a precision at most each time: a task whose
  delay is over is not woken while others keep pending with short timeouts and are posted to in time, and nothing in the code limits how
  often. This is why `DeadlinesAreMet` is no bound on the delay: it allows a precision more for each late cancel since the sort links were last looked
  at (`lost`), and says that nothing else costs anything, that is, that every other setting that is kept or forgotten is made up for in time.
* The wait list of a mutex is first come, first served. A post hands the mutex to its head, whose
  priority may be lower than that of a task behind it, and nothing raises the new owner until somebody else pends, although
  `kernel/include/los_mux.h:245` promises priority inheritance for a higher-priority task that waits.
* `LOS_TaskPriSet` on the owner of a mutex is undone by its post, which restores the priority it had when
  it got the mutex; this is why the run of mutexes has no `LOS_TaskPriSet`.
* A waiter raises the owner of a mutex and times out; the owner stays raised until it posts. That post lowers it
  and, with no waiter left, drops the result of `OsSchedModifyTaskSchedParam` and does not call `LOS_Schedule`
  (`K/los_mux.c:304-323`): the task runs on although a ready one is higher, until the next tick. This is why
  `HighestPriorityRuns` is not in the run mutex.
* `LOS_TaskDelete` of another task wakes that task's joiner but does not call `LOS_Schedule`, so a joiner of higher
  priority waits for the next tick; this is why `HighestPriorityRuns` is not in the run join.
* A ready task that is suspended and resumed goes from wherever it was to the head of its queue if it has
  slice left, so two tasks that keep suspending and resuming each other can starve a third of their
  priority; this is why roundRobin has no suspension.
* A task that was handed a token, a node or a mail and is deleted before its call returns takes it with it (`Leave` of
  `Semaphore` and `BoundedQueue`, `gone` of `LosMail`). A queue that lost a node this way can never be deleted.
* `NVIC_ClearPendingIRQ(SysTick_IRQn)` in `SysTickReload` has no effect, since SysTick is a system exception and
  has its bit elsewhere (`firmware/CMSIS/core_cm4.h:1538`). If the counter is set anew while a tick is pending, the tick comes
  nevertheless, and `OsUpdateSysTimeBase` adds the new period to a base that already has it: with `ReloadPending` (and
  with `SwitchPending`, a context switch in that place) TLC finds `ClockKeepsUp` violated, the clock running ahead.
* `OsUpdateSysTimeBase` looks at the mark and adds without a lock: with `ReadNested`, an interrupt that preempts SysTick
  and reads the clock in between, TLC finds `ClockKeepsUp` violated in the same way. `SysTick_Config` gives SysTick the lowest
  priority, so any other handler may be that interrupt.
* `LOS_MemRealloc` of a block from `LOS_MemAllocAlign`, which `kernel/include/los_memory.h:300` allows, goes on with the pointer from before the
  alignment (`K/mm/los_memory.c:1502`): it returns or copies from that one, so the data, which `los_memory.h:293` says is
  kept, is off by the gap, and the block is no longer aligned. With `ReallocAligned` TLC finds `IsAHeap` violated.
* `LOS_MemInit` clears the pool's header before it looks whether the area overlaps a pool that is there (`K/mm/los_memory.c:988-1000`): the refusal comes
  after the damage.
* `LOS_SwtmrStop` of a timer whose item is already in the handler queue does not keep its handler from running.

## Proofs

For every finite set of tasks and objects, all priorities, delays, periods and calls, and, except where said, even every
`Unprotected`, TLAPS checks:

* `ListLemmas`: what removal, insertion and appending do to a sequence's type, members and length.
* `LosTaskProofs`, first part: each scheduler operator keeps the record's type and the agreement of bitmap and
  queues (a lemma per operator, on top of the list lemmas), leaves alone what runs, is locked and is pending unless it is one of
  the three that change it, and lets no suspended task become ready.
* `LosTaskProofs!TypeAndBitmap` and `TaskTypes`: `TaskSpec => [](TaskTypeOK /\ BitmapMatchesQueues)`. The conjunction is
  inductive: types alone are not, because `OsGetTopTask` takes the head of a queue that the bitmap says
  is not empty, and the bitmap's correctness needs the types of the queues. Part of `TaskTypeOK` is there
  for induction: what the idle and the stand-in TCB may be (`SpecialTasks`), which keeps them off every
  list, and that a call with a task as its object has one.
* `LosTaskProofs!LockHolds`: `TaskSpec => NoSwitchWhileLocked`. It needs that a switch is pending only while nothing is locked:
  `LOS_Schedule` looks at the lock when it asks for the switch, and no task can lock before the switch has come. Before `LOS_Start`
  nothing is locked, which the invariant `ControlInv` adds. The end of the running task is excepted; that it takes the
  lock along is in `OneTaskRuns`, since it needs that the running task has its flag.
* `LosTaskProofs!SuspensionLasts`: `TaskSpec => SuspendedUntilResumed`, with `SuspendInv`: no task is suspended and ready.
  Every operator either leaves a suspended task suspended and not ready (`StaysParked`, a lemma per operator) or
  reclaims it; an enqueue would not, and the lemmas show each caller of one to have looked at the flag or to be a resumption.
* `LosListProofs!ListsAreRight`, `SortLinkIsRight`, `NoAssertEverFails`, `OneTaskAlwaysRuns`, `ExitedTaskIsOver`, `JoinedTaskIsOver`:
  the invariants of the tasks, from one inductive invariant, `ListInv`. None is inductive alone: the code decides by a task's
  flags where its node is, so what the flags are and where the node is depend on each other through every operator, and both
  on what the task and others are in the middle of. `ListInv` has, besides types and bitmap:
  * `Placed`: for each task which flags go together, and the lists that it is on, as its flags say; `Tidy`: no list has a task twice,
    the sort link is in order; `Runs`: what `runTask` may be;
  * `SwitchComes`: a running task that has blocked or ended itself has a switch pending, or is about to ask for it, and the lock is
    open. Without it `PendSV` could come too late, and a blocked task go on;
  * `CreateInv`: a TCB between `LOS_TaskCreateOnly`'s critical section and the enqueue has no handle and one creator;
  * `JoinInv`: who waits for a task has `joinReclaim` ahead and is the only one; the TCB of a task that is joined is
    not given back; `HandleInv`: a handle is of a task that was created to the end.

  Every operator has a lemma on the row of the task it moves (its queues, wait lists, pools, place on the sort link and flags), and that it
  moves no other (`Only`); every action is a few of these in a row. The theorems assume `Unprotected = {}`: each of
  `earlyHandle`, `resumeExited`, `isrResume` and `doubleJoin` breaks the invariant, as the list above and the run `isrResume` show. TLC has
  checked the invariant on the instances of the runs `tasks` and `join` before it was proved.
* `LosListProofs!HighestPriorityAlwaysRuns`: `HighestPriorityRuns`, with `RankInv` beside `ListInv`: while the scheduler is not locked, no queue above
  the running task is ready, or a switch is on its way (PendSV or the tick pending, or `"schedule"` is the next thing the running task does). The proof goes
  through the places where a priority or a queue changes and shows that each goes on to `LOS_Schedule`. One does not: `LOS_TaskDelete` of another
  task that is joinable wakes its joiner and returns (`K/los_task.c:1176`). The theorem is therefore for applications that join no task (`JoinFree`); the run `tasks` has none.
* `LosEventProofs!HighestPriorityRunsIpc`: the same of tasks that use semaphores or events (`IpcSpec`). `Ranked` is `RankInv` with `JoinFree`; a post, a write or a
  deletion that wakes somebody has `"schedule"` next or, from a handler, asks for the switch itself (`CallRanked`, `AskRanked`), and every other step of a call on an object moves nobody between queues
  (`SameRanked`, `NobodyWoken`).
* `LosEventProofs!SemTypes`, `TokensFindWaiters`, `WaitersAreSafe`: `SemSpec => []SemTypeOK`,
  `[]NoWaitWithTokens`, `[]WaitersHaveSemaphore`. The second says that no interleaving leaves a task
  waiting beside a token. The argument: a wait list grows only in `SemWait`, whose guard is an empty
  counter, and everything else, from timeouts to deletions, takes tasks off wait lists; a counter grows
  only when the list is empty. That the task steps never lengthen a semaphore's wait list is a lemma per
  scheduler operator.
* `LosMuxProofs!MuxTypes`, `WaitersAreOwned`: `MuxSpec => []MuxTypeOK`, `[]WaitersHaveOwner`, also when
  owners are deleted or mutexes released out of order. The argument is the one of the
  semaphores: a wait list grows only in `MuxWait`, whose guard is an owner, and the owner goes only when the
  list is empty. That count and owner agree, which is in the type invariant, is what makes the owner
  whose priority is changed a task.
* `LosMuxProofs!PriorityComesBack`: `MuxSpec => []PriorityRestored` with `Unprotected = {}` (so mutexes are released last in, first out, and
  no owner is deleted) and without `LOS_TaskPriSet`. The invariant `PriorityInv` adds `ObjInv`
  (see the queues), `HeldInv`, that `held` is what the control blocks say and an owner lives, and `LadderInv`: the priorities that the mutexes of a task have saved
  go down, in number, from the first mutex to the last, the first of them is the given priority, and the task's own is not above the last. A release
  takes the last rung and inheritance only goes below it. Why nothing else changes a priority is a lemma per operator of the scheduler (`PrioritiesStay`). TLC
  checked the invariant on the constants of the run `mutex` first.
* `LosEventProofs!EverySemaphoreIsOne`: `SemSpec => EachIsASemaphore`, and `LosMuxProofs!EveryMutexIsALock`: `MuxSpec => EachIsALock`, both with
  `Unprotected = {}`: the step simulations of Semaphore and Lock. The tasks in a call on an object o are `CallersOn(o)`; `Split(o)` says that each of them waits in
  o's list, has been granted (`GrantedOn`) or is late (`LateOn`), by the flags PEND and TIMEOUT, and nobody else is in the list. It follows from
  `ListInv` and `ObjInv`. Then every action has its effect on list, granted and late of every object: `TasksOn` for all steps of the tasks (nothing, one waiter
  runs out of time, or one caller is deleted), `WaitsOn`, `WakesOn`, `ReturnsOn`, `NobodyOn` for the calls on objects. The abstract modules say of a waiter that leaves
  only that one place of the queue goes; that the code's list loses exactly its first occurrence of the task is `UnlinkCut`. Lock needs one more invariant,
  `GrantInv`: who was handed a mutex is its owner until its call returns. It lives (`HeldInv`), and only a call of its own, which it is not free to make, could
  release the mutex. The run `mutex` and the theorem agree on `LOS_TaskPriSet`: the lock does not need its absence, the priorities do.
* `LosEventProofs!EventTypes`, `NoReaderIsForgotten` (and `IpcTypes`, semaphores and events in one): `EventSpec => []EventTypeOK`, `[]NoReaderForgotten`, with `Unprotected = {}`. The inductive invariant
  `EventInv` is `ObjInv` and: `WishInv`, a call has a wish a read may have, a task in no call has none; `CheckedInv`, whoever has passed the check of
  its parameters and whoever waits is on an event that lives; `ReadersWait`, who is on an event's list is in the call that put it there, and its wish is not
  satisfied. `LOS_EventWrite` walks the list and takes off it as it goes: `WriteLoop` is that walk as a function of the place in the list, and `Woke` says what it
  has done when it has come to place i: tasks before i that the write satisfies are off the list and not PEND, all else is as it was. It is proved for all i by
  taking the least place where it fails (`LeastNumber`), so no induction theorem is needed.
* `LosEventProofs!EveryEventIsOne`: `EventSpec => EachIsAnEvent`, the step simulation of EventGroup. `ReadersAre` says that the readers in a call are those in the list, those woken
  and those late; `MovesOn` and `ReadFates` what a step of the tasks does to them.
* `LosQueueProofs!QueueTypes`, `NodesFindWaiters`: `QueueSpec => []QueueTypeOK`, `[]NoWaitWithNodes`. The invariant `QueueInv` adds
  that a queue that is not in use has empty wait lists and is on the free list: without it a creation could set counts beside waiters.
  A count grows only when the list of its side is empty, and that list only while the count is zero.
* `LosQueueProofs!NodesCountedOnce`, `WaitersKeepTheirQueue`: `QueueSpec => []NodesConserved`, `[]WaitersHaveQueue`, with `Unprotected = {}`. The
  inductive invariant `NodeInv` is `QueueInv` and
  * `ObjInv` (`LosListProofs`): `ListInv`, for tasks that wait on objects as well, and how a wait ends. The node of a queue is taken off the
    count by whoever wakes the reader or writer, and the woken task finds out by its TIMEOUT flag, later, whether it was woken or not. So the
    proof needs that the flag is set exactly of those that a timeout took off the list, that a deleted task takes its node along
    (`lost`), and that a suspension, a change of priority or a task switch in between changes none of it (`WorkGoes`, `TimeoutGoes`, `WaitGoes`, `WakeGoes`);
  * `Balanced`: filled nodes are as many as counted, reserved and lost ones; `Unowed`: an unused queue owes no node to anyone; `JobInv`: who is reading or writing has a
    queue that exists. That the nodes from head to tail are the filled ones (`ReadsRing`, `WritesRing`) is arithmetic on the ring.
* `LosQueueProofs!EveryQueueIsOne`: `QueueSpec => EachIsAQueue`, also with `Unprotected = {}`: the step simulation of BoundedQueue. It has three parts. The ring from the
  head on, cut off after the filled nodes, is the content (`ContentOf`), and `OsQueueBufferOperate` at either end, wrapping or not, is one operation on a
  sequence (`OperatedContent`). What is counted for a side is what nobody was promised (`UnclaimedIs`): that is `NodeInv` read from the other end, and it is why a call that finds
  its count above zero may go on although others have grants, and why a woken caller finds its message (`HandedOn`). And the callers of each side, as with
  semaphores: `OneOn` says that a step of the tasks leaves each list alone or takes one task off it, `HandsOver` that an operation hands what it makes
  available to the head of the opposite list and to nobody else.
* `LosQueueProofs!MailsPassedOnOnce`: `MailSpec => []MailsAreSafe` with `Unprotected = {}`. The invariant `MailInv` is `NodeInv` and `BlockInv`, every block in one place and no
  two tasks with the same one; `HandInv`, a task has a block in `msg` if and only if it was woken from `memList` and has not come back; and that nobody
  waits beside a block. `ObjInv` again says who was woken; each step of the tasks and queues is shown to wake nobody from `memList` (`MailsGoOn`).
* `LosTimerProofs!FreeTimersAreOff`: `SwtmrSpec => []NoFreeTimerTicks` if `RestartExpired` is FALSE. The inductive invariant
  says why the timer task may free a block: a one-off timer that is linked has no item with its ID in the queue or in the
  task's hands (`OnceIsOff`), which the scan establishes by taking it off the sort link, and `FreshId` keeps for the next ID.
* `LosTimerProofs!OneHandlerPerStart`: under the same assumption `SwtmrSpec => []OnceExpiresOnce`; it is inductive beside `SwtmrInv`, and the work
  is in counting items of a queue that grows at one end and shrinks at the other (`Items` and its lemmas).
* `LosTimerProofs!AlignedTogether`: `SwtmrSpec => []AlignedExpireTogether` if the intervals are multiples of the common divisor and, of any two, one divides the other (`IntervalsNest`).
  The invariant `TimesInv` says within what bounds response times are, which timers are marked, and that of any two aligned timers the
  shorter interval divides the distance of the response times (`Grid`). A timer that starts is put on the grid of the nearest timer alone; that it is then on
  everybody's is arithmetic on divisors and needs the assumption: with intervals 2, 3 and 6, where 2 and 3 started apart, 6 cannot fit both,
  TLC finds the property violated, and the code aligns it with the nearer one. The run `timers` has intervals 2 and 4.
* `LosTimerProofs!TimersTypes`: `TimersSpec => []TimersTypeOK`, from `TimesInv` and the invariant of `ExpireTypes`.
* `LosTimerProofs!ClockForward`: `TickSpec => []ClockNeverGoesBack` with no assumption on `ReloadPending` or `ReadNested`: an early or
  double addition moves the clock ahead only. `ClockIsExact`: without them `TickSpec => []ClockKeepsUp`; the invariant relates true
  time, base, counter, pending tick, the handler's place and the reader's mark. `ExpireIsTick`: `ExpireSpec => TickSpec`, each of the scheduler's steps is a
  read or a reload of the clock at a place where LosTick has one; so `ExpireTypes` and `ExpireClockIsExact` have the same for
  the clock under the scheduler.
* `LosTimerProofs!NoDeadlineIsMissed`: `ExpireSpec => []DeadlinesAreMet` without `ReloadPending`, `ReadNested`, `SwitchPending` and `SliceOver`,
  for any number of deadlines and cancels. The invariant `DeadlineInv` says of what the counter is set to, while no tick is pending and no switch asked for, that
  it fires (`Fire`) less than two precisions after every deadline (`Soon`), or that it is `Urgent`: it fires within a precision from now, for a deadline, and
  nothing sets it anew, or that it was urgent and is `Cut`: a late cancel has made the scheduler forget it, so the next setting may be for a precision from then,
  and `lost` has grown by as much. A setting is `Soon` when it is made, unless an overdue deadline comes with it; then it is `Urgent`, and only a late cancel can undo that.
  It is two precisions, not one, because a deadline that is sooner than the precision does not move a setting that is less than two away. Timers that are aligned have such
  deadlines, and one aligned with a timer that is overdue may be so itself (`Expiry`).
  Between the tick and the next setting (`FiredInv`, `AskedInv`) deadlines may be overdue by two precisions and the latency: the tick of a slice
  does not look at the sort links. The proof needs of the constants that the precision is no longer than `g_schedTickMinPeriod`; it is 75% of it (`K/los_sched.c:446-447`).

* `LosMemoryProofs!HeapIsAlwaysSound`: `MemorySpec => []HeapIsSound`, also with `ReallocAligned`, for any pool, list granularity and requests. The
  invariant `HeapInv` has four parts: `Tidy`, the headers form a chain from the first node to the end node (`Chain`), no two free
  nodes are neighbours (`Apart`), and the free ones are on the lists of their sizes (`Listed`); `Water`, the water line is not below the account;
  `Accounts`, the account is the number of words that used nodes cover (`Cover`); `Held`, each block is at one place of one used node, each used node has one block, and no gap is remembered of
  a pointer that nobody has. `HeapIsSound` speaks of a pointer's node by `OsGetRealPtr`, which reads the word before the pointer; that this is right whatever was stored
  there before is `Held`. Within a call none of this holds: a node has left its list and is still free, two free nodes touch, the rest of a cut node is
  on no list. So the lemmas are about `Sound`, where the set of listed nodes is a parameter, and `IsSplit`, `Joined`, `IsAlloc` and `IsResize` say what
  the operators of the source do to it. That a node from a later list is large enough (`FoundIs`) needs that list indexes grow with sizes (`IndexGrows`), and with it powers of two: the
  exponent of a size is below 29 (`MemoryAssumption`), so `Powers` is a table.
* `LosMemoryProofs!PoolIsAHeap`: `MemorySpec => IsAHeap` without `ReallocAligned`. `Placed` is added to the invariant: the content of a block is where its pointer says.
  `Parts` is what Heap makes of the blocks; a step that touches one node leaves the parts in all others as they are (`PartsKept`), and each call is one
  grant, refusal, replacement or return (`AllocMaps` to `ReallocMaps`). A refusal is right because every word is in some node, free nodes have no free neighbours and the search finds a node that fits if there is
  one (`NoRoom`, `FoundIs`).

The proofs rest on the named assumptions of the modules (`SchedAssumption`, `TaskAssumption`, `SemAssumption`,
`MuxAssumption`, `EventAssumption`, `QueueAssumption`, `MailAssumption`, `SwtmrAssumption`, `TickAssumption`, `ExpireAssumption`, `MemoryAssumption`, `RequestAssumption`) about the constants only: the application's and the
special TCBs are distinct, the sets of tasks and objects finite, task priorities above the idle task's, periods longer than
a cycle, the largest time beyond all others. `FreeTimersAreOff`, `ClockIsExact`, `ExpireIsTick`, `ExpireClockIsExact`, `NoDeadlineIsMissed`, `OneHandlerPerStart`, `AlignedTogether`, `TimersTypes`, `PriorityComesBack`, `HighestPriorityRunsIpc`, `EverySemaphoreIsOne`, `EveryMutexIsALock`, `EventTypes`, `NoReaderIsForgotten`, `EveryEventIsOne`, `NodesCountedOnce`, `WaitersKeepTheirQueue`, `EveryQueueIsOne`, `MailsPassedOnOnce`, `PoolIsAHeap` and those of `LosListProofs` take in addition, in their ASSUME, that the
patterns they exclude are excluded.

Only model-checked: liveness (`LosLive`), since the prover has neither fairness nor ENABLED. Every other property of a passing run is
also a theorem, from the conditions named there.

## Abstractions

* In LosTask and what extends it time is counted in ticks; what is left of a slice below a tick, or overdrawn, is 0. `SliceEnd` may
  come at any time, so every phase of the hardware counter is covered. LosSwtmr counts in ticks as well; LosTick and LosExpire
  count cycles. The 64-bit clock does not wrap within the life of a device and is not bounded.
* LosTick's `real` leaves out the one cycle per period in which SysTick loads; the code does not count it either (`SysTick->LOAD` is
  the period less one), so the clock is slow by that cycle per tick.
* One interrupt handler at a time: handlers lock interrupts around everything they do to the kernel,
  so nesting adds no other order (LosTick, whose tick handler does not, has `ReadNested`).
  `LOS_TaskDelete` and `LOS_TaskCreate` in a handler are not modelled.
* Allocation succeeds or fails at will, outside of LosMemory. What is in a stack, a name, a message, is not modelled. Of what is in a
  block of the heap only the place is.
* The heap's callers free what they hold, once; what its checks make of other pointers is not modelled. Requests that reach the
  flag bits are refused at once (`K/mm/los_memory.c:1118,1153`); `RequestAssumption` leaves them out.
* The pend and post of semaphores in `main()`, before `LOS_Start`, are left out (there is nobody to wait
  for); creation there is modelled.
* The timer task of LosSwtmr reads its queue as a bounded sequence; that the queue is one is `EachIsAQueue`.
* `LOS_SwtmrCreate` fills in its block after its critical section; it is one step, since nobody has the ID before it returns.
* Code under `LOSCFG` switches that `board/target_config.h` leaves off (signals, power management,
  freezing) is not modelled.

## Not modelled

The components marked so in `PROJECT.json`. Most of the repository's lines are vendored or generated: the GD32 peripheral
library, CMSIS headers, cJSON, cm_backtrace, easylogger, third-party code of LiteOS. They are register access or sequential data
formats without state that the firmware's correctness turns on, so a small part of the files by lines is modelled, and
of the kernel, which is what the firmware is, the scheduler, the tasks, all five kinds of objects and the heap. Of the kernel are left out:

* of the heap (`K/mm/los_memory.c`) the list of pools (`LOS_MemInit` and `LOS_MemDeInit` of several), regions, and the walks over all nodes for statistics and
  integrity checks, which only read;
* exceptions and MPU: register access;
* signals and power management, compiled out; CPU usage, trace, LMS, LMK, shell, backtrace: observers;
* the POSIX and CMSIS layers: adapters that this application does not call.

## What is left

1. `HighestPriorityRuns` of tasks that use message queues: the run `queue` does not check it. It does not hold of mutexes, see above.
