----------------------------- MODULE LosExpire -----------------------------
(***************************************************************************)
(* The timer interrupt on demand (kernel/src/los_sched.c): there is no     *)
(* periodic tick; the SysTick counter is set to the next thing that must   *)
(* happen, the first deadline on the sort links or the end of the running  *)
(* task's slice, when that is not what it is already set to.               *)
(*                                                                         *)
(* LosTask and LosSwtmr have the result of it, that a tick comes when      *)
(* something is due.  Here times are the clock's cycles, tasks are what is *)
(* left of their slices, and both sort links are one set of deadlines.     *)
(***************************************************************************)
EXTENDS LosTick, FiniteSets, FiniteSetsExt

CONSTANTS
    Worker,         \* tasks other than the idle task
    IdleTask,       \* the idle task
    NoTask,         \* OS_INVALID
    Wait,           \* the delays and timeouts of tasks, the intervals of timers
    TimeSlice,      \* g_schedTimeSlice
    Left,           \* what a task that is switched to may have left of its slice
    SliceMin,       \* g_schedTimeSliceMin
    MinPeriod,      \* g_schedTickMinPeriod
    Precision,      \* g_tickResponsePrecision
    PeriodMax,      \* LOSCFG_BASE_CORE_TICK_RESPONSE_MAX
    MaxTime,        \* OS_SCHED_MAX_RESPONSE_TIME
    Latency,        \* bound: how long a pending tick waits for its handler
    MaxDeadlines,   \* bound: how many deadlines there are
    MaxLost,        \* bound: what late cancels may cost between two scans
    SwitchPending,  \* may a context switch come while a tick is pending?
    SliceOver       \* may timers start and stop when the running task's slice is over?

ASSUME ExpireAssumption ==
    /\ IdleTask \notin Worker /\ NoTask \notin Worker \cup {IdleTask}
    /\ Wait \subseteq Nat /\ {TimeSlice, Precision, PeriodMax, MaxTime} \subseteq Nat
    /\ SliceMin \in 0 .. TimeSlice - 1 /\ MinPeriod \in Nat /\ Latency \in Nat
    /\ Precision > 1 /\ Precision <= PeriodMax /\ Period = Precision .. PeriodMax
    /\ MaxTime > MaxReal + TimeSlice + PeriodMax + Precision
    /\ Left \subseteq SliceMin + 1 .. TimeSlice
    /\ Precision <= MinPeriod
    /\ MaxDeadlines \in Nat /\ MaxLost \in Nat
    /\ {SwitchPending, SliceOver} \subseteq BOOLEAN

VARIABLES
    deadlines,  \* the response times on the sort links, each of one node or more
    run,        \* the running task
    slice,      \* its timeSlice
    start,      \* its startTime
    resp,       \* g_schedResponseTime: when the timer is taken to fire
    respID,     \* g_schedResponseID: for whose slice it is set, NoTask for a deadline
    asked,      \* PendSV is pending
    lost        \* history: a Precision for every late cancel since the last scan

expireVars == <<deadlines, run, slice, start, resp, respID, asked, lost>>

\* OsSchedStart: the first task has its slice, and the timer is set for that.
ExpireInit ==
    /\ TickInit
    /\ deadlines = {} /\ asked = FALSE /\ start = 0 /\ lost = 0
    /\ \/ run \in Worker /\ respID = run /\ slice = TimeSlice
       \/ run = IdleTask /\ respID = NoTask /\ slice = 0
    /\ resp = load + 1
    /\ load + 1 = IF run = IdleTask \/ TimeSlice > PeriodMax THEN PeriodMax ELSE TimeSlice

-----------------------------------------------------------------------------
(* Setting the timer. *)

\* OsGetNextExpireTime: the first deadline, but not sooner than Precision from now.
NextDeadline(ds) ==
    IF ds = {} THEN MaxTime - Precision
    ELSE IF Min(ds) <= Now + Precision THEN Now + Precision ELSE Min(ds)

\* The slice ends well before the first deadline.
IsTimeSlice(ds, taskEnd) ==
    NextDeadline(ds) > taskEnd /\ NextDeadline(ds) - taskEnd > MinPeriod

NextExpireTime(ds, taskEnd) ==
    IF IsTimeSlice(ds, taskEnd) THEN taskEnd ELSE NextDeadline(ds)

\* The timer fires before t, or not much later.
AlreadySet(r, t) == r <= t \/ r - t < Precision

\* What the counter is set to for t; a time in the past is a large unsigned number.
PeriodFor(t) ==
    IF t < Now THEN PeriodMax
    ELSE IF t - Now < Precision THEN Precision
    ELSE IF t - Now > PeriodMax THEN PeriodMax ELSE t - Now

\* With r for g_schedResponseTime and ds for the deadlines.
OsSchedSetNextExpireTime(r, ds, id, taskEnd) ==
    LET t == NextExpireTime(ds, taskEnd)
    IN  IF AlreadySet(r, t)
        THEN LOS_SysCycleGet /\ resp' = r /\ UNCHANGED respID
        ELSE /\ OsTickTimerReload(PeriodFor(t))
             /\ resp' = Now + PeriodFor(t)
             /\ respID' = IF IsTimeSlice(ds, taskEnd) THEN id ELSE NoTask

\* OsSchedUpdateExpireTime; left and from are the slice of the running task.
UpdateExpireTime(r, ds, left, from) ==
    OsSchedSetNextExpireTime(r, ds, run,
        IF run = IdleTask THEN MaxTime - Precision
        ELSE from + (IF left <= SliceMin THEN TimeSlice ELSE left))

\* OsSchedResetSchedResponseTime: the timer may have been set for t, which is gone.
Reset(t) == IF t <= resp THEN MaxTime ELSE resp

-----------------------------------------------------------------------------
(* The steps of the scheduler, each with interrupts locked. *)

Running == handler = "none" /\ ~asked

\* OsSchedTaskSwitch, from PendSV: the task that leaves has its next deadline, or
\* none; the one that comes has left of its slice.
Switch(new, left, wait) ==
    /\ handler = "none" /\ (pending => SwitchPending)
    /\ asked' = FALSE /\ run' = new /\ slice' = left /\ start' = Now
    /\ deadlines' = deadlines \cup {Now + w : w \in wait}
    /\ OsSchedSetNextExpireTime(IF respID = run THEN MaxTime ELSE resp, deadlines', new,
           IF new = IdleTask THEN MaxTime - Precision ELSE Now + left)
    /\ UNCHANGED <<pending, handler, real, lost>>

\* Does a call of the running task set the timer?
MaySetTimer ==
    /\ Running /\ (pending => SwitchPending)
    /\ run # IdleTask /\ Now > start + slice => SliceOver

\* When a timer expires that starts now: after w, or sooner, where it is aligned with
\* another, which may be overdue itself.
Expiry(w) == (Now + 1 .. Now + w) \cup {d + w : d \in {e \in deadlines : e <= Now}}

\* OsSwtmrStart: a software timer has a deadline at once.
TimerStart(d) ==
    /\ MaySetTimer
    /\ deadlines' = deadlines \cup {d}
    /\ UpdateExpireTime(resp, deadlines', slice, start)
    /\ UNCHANGED <<run, slice, start, asked, pending, handler, real, lost>>

\* The timer, which may be set for d, is about to fire or has fired: if it is forgotten
\* now, and others are due when it is set anew, it fires a Precision after that.
Late(d) == d <= resp /\ resp <= Now + Precision

\* OsDeleteSortLink of a node that is due at d; others may be due at the same time.
Cancel(d) ==
    /\ deadlines' \in {deadlines, deadlines \ {d}}
    /\ lost' = (IF Late(d) THEN lost + Precision ELSE lost) /\ lost' <= MaxLost

\* OsSwtmrStop.
TimerStop(d) ==
    /\ MaySetTimer /\ Cancel(d)
    /\ UpdateExpireTime(Reset(d), deadlines', slice, start)
    /\ UNCHANGED <<run, slice, start, asked, pending, handler, real>>

\* OsSchedTaskWake and the like: the timer is not set anew before the next switch or tick.
Wake(d) ==
    /\ Running /\ Cancel(d)
    /\ resp' = Reset(d)
    /\ UNCHANGED <<tickVars, run, slice, start, respID, asked>>

\* The sort links are looked at only if the tick is for a deadline.
Scans == respID = NoTask

\* MUTATION: the time of a tick is kept after it.
Kept_TickIsOver == resp

\* The timer has fired: it is set for nothing.
TickIsOver == MaxTime

\* The periodic timers that are due may be due again: each goes on from when it was
\* due until it is past the present.
Again == {n \in UNION {Now + 1 .. Now + w : w \in Wait} :
             \E d \in deadlines, w \in Wait : d <= Now /\ n <= Now + w /\ (n - d) % w = 0}

\* LOS_SchedTickHandler.  With the scheduler locked the timer is set at once, otherwise
\* by the switch that is asked for.
SchedTickHandler(locked, again) ==
    /\ handler = "sched" /\ handler' = "none"
    /\ deadlines' = IF Scans THEN {d \in deadlines : d > Now} \cup again ELSE deadlines
    /\ lost' = IF Scans THEN 0 ELSE lost
    /\ slice' = IF run = IdleTask THEN slice ELSE slice - (Now - start)
    /\ start' = Now
    /\ asked' = ~locked
    /\ IF locked THEN UpdateExpireTime(TickIsOver, deadlines', slice', Now)
       ELSE LOS_SysCycleGet /\ resp' = TickIsOver /\ UNCHANGED respID
    /\ UNCHANGED <<pending, real, run>>

\* Bounds: a tick is handled soon, and a switch that was asked for comes at once.
Time ==
    /\ Cycle /\ ~asked /\ handler = "none" /\ (pending => pos < Latency)
    /\ UNCHANGED expireVars

ExpireNext ==
    \/ Time
    \/ (TickHandlerChecks \/ TickHandlerAdds \/ TickHandlerClears \/ Read)
       /\ ~asked /\ UNCHANGED expireVars
    \/ \E locked \in BOOLEAN, again \in SUBSET Again :
          SchedTickHandler(locked, again) /\ Cardinality(deadlines') <= MaxDeadlines
    \/ \E new \in Worker, left \in Left : Switch(new, left, {})
    \/ Switch(IdleTask, 0, {})
    \/ Cardinality(deadlines) < MaxDeadlines /\ \E w \in Wait :
          \/ \E d \in Expiry(w) : TimerStart(d)
          \/ run # IdleTask /\ \E new \in Worker, left \in Left :
                Switch(new, left, {w})
          \/ run # IdleTask /\ Switch(IdleTask, 0, {w})
    \/ \E d \in deadlines : TimerStop(d) \/ Wake(d)

ExpireSpec == ExpireInit /\ [][ExpireNext]_<<tickVars, expireVars>>

-----------------------------------------------------------------------------
(* Correctness. *)

\* Every variable keeps its type.
ExpireTypeOK ==
    /\ TickTypeOK
    /\ deadlines \subseteq Nat /\ run \in Worker \cup {IdleTask}
    /\ slice \in Int /\ start \in Nat
    /\ resp \in Nat /\ respID \in Worker \cup {IdleTask, NoTask} /\ asked \in BOOLEAN
    /\ lost \in Nat

\* No timeout is forgotten: whatever the timer was set for, and kept or set anew for,
\* a deadline is late by less than three precisions (two for which the tick of a slice
\* was kept, one until the tick after it), the time that the first of these ticks waited,
\* and one precision more for each time that a wake-up or a stopped timer made the
\* scheduler forget a setting that was about to fire.  Excluded are a reload under a
\* pending tick (ReloadPending, SwitchPending), a nested read of the clock (ReadNested)
\* and a timer that is set past the end of a slice (SliceOver).
DeadlinesAreMet ==
    Running /\ ~pending => \A d \in deadlines : Now < d + 3 * Precision + Latency + lost

=============================================================================
