------------------------------ MODULE LosLive -------------------------------
(***************************************************************************)
(* What must eventually happen in the kernel, and why it does: time passes *)
(* (the SysTick timer is always armed, SetNextExpireTime), an interrupt    *)
(* that is pending is taken once no other is (the NVIC), and a task that   *)
(* has the processor again and again finishes the call it is in, and uses  *)
(* up its time slice.  main() comes to LOS_Start.  No task is assumed to   *)
(* make another call.                                                      *)
(***************************************************************************)
EXTENDS LosSem

\* The kernel's own code in a call of t, which goes on by itself to its end.
Finish(t) ==
    \/ SemResult(t)
    \/ /\ \/ OsRecycleFinishedTask(t) \/ NothingToRecycle(t) \/ TakeTcb(t) \/ NoTcb(t)
          \/ NoStack(t) \/ EnqueueNewTask(t) \/ Schedule(t) \/ JoinReclaim(t)
          \/ \E x \in Task : Doing(t, "join") /\ TaskJoin(t, x)
       /\ UNCHANGED semVars

\* SysTick, weakly: nothing but an interrupt already running holds it up.
TimePasses == WF_allSemVars((TickStart \/ TickScan \/ TickEnd) /\ UNCHANGED semVars)

\* Strong fairness of PendSV, written out: it is enabled when SwitchPending holds,
\* and no other action takes the request back.
SwitchPending == kernel.pendSV /\ ~kernel.tick /\ ~kernel.panic
SwitchesHappen == []<>SwitchPending => []<><<kernel.pendSV /\ ~kernel'.pendSV>>_allSemVars

\* Strongly where ticks come in between: PendSV waits for them, a thread is
\* interrupted by them, and a slice is used up in several turns.
ProcessorWorks ==
    /\ SwitchesHappen
    /\ SF_allSemVars(Start /\ UNCHANGED semVars)
    /\ \A t \in TCB \ {Idle} : SF_allSemVars(Finish(t))
    /\ \A t \in Task : SF_allSemVars(kernel.run = t /\ SliceEnd /\ UNCHANGED semVars)

LiveSpec == SemSpec /\ TimePasses /\ ProcessorWorks

-----------------------------------------------------------------------------

\* A delay, or the limit of a wait, ends: whatever happens between the call and
\* the switch that puts it on the sort link, no timeout is lost, also when the
\* task is suspended meanwhile.
TimeoutsExpire ==
    \A t \in Task :
        Has(kernel, t, {"DELAY", "PEND_TIME"}) ~> ~Has(kernel, t, {"DELAY", "PEND_TIME"})

\* Among tasks of one priority nobody starves: a ready task gets the processor,
\* or somebody takes it off the queue, although a task that wakes with slice
\* left goes to the head of the queue.
ReadyRuns ==
    \A t \in Task : Has(kernel, t, {"READY"}) ~> ~Has(kernel, t, {"READY"})

=============================================================================
