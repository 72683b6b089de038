------------------------------- MODULE LosMux -------------------------------
(***************************************************************************)
(* The mutexes of the kernel (kernel/src/los_mux.c): recursive, with a     *)
(* first-come-first-served wait list, and priority inheritance.            *)
(***************************************************************************)
EXTENDS LosTask

CONSTANTS
    Mux,        \* the mutex control blocks g_allMux
    MaxDepth,   \* bound of muxCount, how often an owner locks again
    Timeout,    \* the timeouts passed to LOS_MuxPend; NoTime is LOS_WAIT_FOREVER
    NoOwner     \* the owner NULL

ASSUME MuxAssumption ==
    /\ Mux \subseteq WaitObj /\ IsFiniteSet(Mux)
    /\ MaxDepth \in Nat \ {0}
    /\ Timeout \subseteq (0 .. MaxDelay) \cup {NoTime}
    /\ NoOwner \notin TCB

VARIABLES
    muxCB,      \* stat, count, owner, saved priority; the wait list is kernel.pend
    unusedMux,  \* g_unusedMuxList
    held,       \* history: the mutexes that each task owns, in the order it got them
    given       \* history: the priority each task was created with

muxVars == <<muxCB, unusedMux, held>>
allMuxVars == <<kernel, todo, arg, handles, muxCB, unusedMux, held, given>>

Used(m) == muxCB[m].stat = "USED"
Owned(m) == muxCB[m].owner # NoOwner

MuxInit ==
    /\ Init
    /\ muxCB = [m \in Mux |->
                   [stat |-> "UNUSED", count |-> 0, owner |-> NoOwner, priority |-> 0]]
    /\ unusedMux \in Bijection(1 .. Cardinality(Mux), Mux)
    /\ held = [t \in Task |-> <<>>]
    /\ given = [t \in Task |-> 0]

MuxCreate(t) ==
    /\ \/ App(t, "muxCreate")
       \/ Thread(Boot) /\ t = Boot /\ ~kernel.started /\ todo[t] = <<>>
    /\ unusedMux # <<>>
    /\ muxCB' = [muxCB EXCEPT ![Head(unusedMux)] =
                    [stat |-> "USED", count |-> 0, owner |-> NoOwner, priority |-> 0]]
    /\ unusedMux' = Tail(unusedMux)
    /\ UNCHANGED <<taskVars, held>>

\* MUTATION: neither the waiters nor the owner is looked at.
Unchecked_MuxDeleteValid(m) == Used(m)

MuxDeleteValid(m) == Used(m) /\ kernel.pend[m] = <<>> /\ muxCB[m].count = 0

MuxDelete(t, m) ==
    /\ App(t, "muxDelete") /\ MuxDeleteValid(m)
    /\ muxCB' = [muxCB EXCEPT ![m].stat = "UNUSED"]
    /\ unusedMux' = <<m>> \o unusedMux
    /\ UNCHANGED <<taskVars, held>>

-----------------------------------------------------------------------------
(* Locking.  OsMuxValidCheck; that the call is not in an interrupt is App. *)

MuxPendValid(t, m) == App(t, "muxPend") /\ Used(m) /\ kernel.lock = 0

MuxTake(t, m) ==
    /\ MuxPendValid(t, m) /\ muxCB[m].count = 0
    /\ muxCB' = [muxCB EXCEPT ![m].count = 1, ![m].owner = t,
                              ![m].priority = kernel.priority[t]]
    /\ held' = [held EXCEPT ![t] = Append(@, m)]
    /\ UNCHANGED <<taskVars, unusedMux>>

MuxRepeat(t, m) ==
    /\ MuxPendValid(t, m) /\ muxCB[m].owner = t /\ muxCB[m].count \in 1 .. MaxDepth - 1
    /\ muxCB' = [muxCB EXCEPT ![m].count = @ + 1]
    /\ UNCHANGED <<taskVars, unusedMux, held>>

\* The owner gets the priority of t if that is higher.
Inherited(t, m) ==
    LET o == muxCB[m].owner IN
    IF kernel.priority[o] > kernel.priority[t]
    THEN OsSchedModifyTaskSchedParam(kernel, o, kernel.priority[t])
    ELSE kernel

MuxWait(t, m, timeout) ==
    /\ MuxPendValid(t, m) /\ muxCB[m].count > 0 /\ muxCB[m].owner # t /\ timeout # 0
    /\ Call(t, OsSchedTaskWait(Inherited(t, m), m, timeout), <<"schedule", "result">>, m)
    /\ UNCHANGED muxVars

\* The task runs again: TIMEOUT in its status is the result of the call.
MuxResult(t) ==
    /\ Doing(t, "result")
    /\ Continue(t, [kernel EXCEPT !.status[t] = @ \ {"TIMEOUT"}])
    /\ UNCHANGED muxVars

-----------------------------------------------------------------------------
(* Releasing. *)

\* MUTATION: anybody may release a mutex.
ByAnybody_MuxPostValid(t, m) == App(t, "muxPost") /\ Used(m) /\ muxCB[m].count > 0

MuxPostValid(t, m) ==
    /\ App(t, "muxPost") /\ Used(m)
    /\ muxCB[m].count > 0 /\ muxCB[m].owner = t

InOrder(m) == Last(held[muxCB[m].owner]) = m \/ "notLifo" \in Unprotected

\* MUTATION: what the owner has inherited it keeps.
Kept_Restored(m) == kernel

\* The owner gets back the priority it had when it got the mutex.
Restored(m) ==
    LET o == muxCB[m].owner IN
    IF kernel.priority[o] # muxCB[m].priority
    THEN OsSchedModifyTaskSchedParam(kernel, o, muxCB[m].priority)
    ELSE kernel

MuxPostNested(t, m) ==
    /\ MuxPostValid(t, m) /\ muxCB[m].count > 1
    /\ muxCB' = [muxCB EXCEPT ![m].count = @ - 1]
    /\ UNCHANGED <<taskVars, unusedMux, held>>

\* MUTATION: the owner of a mutex that nobody waits for is not reset.
StaleOwner_MuxPostFree(t, m) ==
    /\ MuxPostValid(t, m) /\ muxCB[m].count = 1 /\ kernel.pend[m] = <<>> /\ InOrder(m)
    /\ muxCB' = [muxCB EXCEPT ![m].count = 0]
    /\ held' = [held EXCEPT ![t] = RemoveFirst(@, m)]
    /\ Call(t, Restored(m), <<>>, NoArg)
    /\ UNCHANGED unusedMux

\* Nobody waits.  The priority may have gone down, but no switch is asked for.
MuxPostFree(t, m) ==
    /\ MuxPostValid(t, m) /\ muxCB[m].count = 1 /\ kernel.pend[m] = <<>> /\ InOrder(m)
    /\ muxCB' = [muxCB EXCEPT ![m].count = 0, ![m].owner = NoOwner]
    /\ held' = [held EXCEPT ![t] = RemoveFirst(@, m)]
    /\ Call(t, Restored(m), <<>>, NoArg)
    /\ UNCHANGED unusedMux

\* The first waiter becomes the owner before it runs.
MuxPostHand(t, m) ==
    /\ MuxPostValid(t, m) /\ muxCB[m].count = 1 /\ kernel.pend[m] # <<>> /\ InOrder(m)
    /\ LET w == Head(kernel.pend[m]) IN
       /\ muxCB' = [muxCB EXCEPT ![m].owner = w, ![m].priority = kernel.priority[w]]
       /\ held' = [held EXCEPT ![t] = RemoveFirst(@, m), ![w] = Append(@, m)]
       /\ Call(t, OsSchedTaskWake(Restored(m), w), <<"schedule">>, NoArg)
    /\ UNCHANGED unusedMux

-----------------------------------------------------------------------------

MuxStep(t) ==
    \/ MuxCreate(t) \/ MuxResult(t)
    \/ \E m \in Mux :
          \/ MuxDelete(t, m) \/ MuxTake(t, m) \/ MuxRepeat(t, m)
          \/ MuxPostNested(t, m) \/ MuxPostFree(t, m) \/ MuxPostHand(t, m)
          \/ \E timeout \in Timeout : MuxWait(t, m, timeout)

\* Nothing in the kernel keeps the owner of a mutex from being deleted.
OwnersLive ==
    \/ "deleteOwner" \in Unprotected
    \/ \A m \in Mux : Owned(m) =>
          kernel'.status[muxCB[m].owner] \cap {"EXIT", "UNUSED"} = {}

\* A TCB that is not in use takes over the priority of its next creation.
Record ==
    given' = [t \in Task |-> IF Created(t) THEN given[t] ELSE kernel'.priority[t]]

MuxNext ==
    /\ \/ TaskNext /\ OwnersLive /\ UNCHANGED muxVars
       \/ \E t \in TCB : MuxStep(t)
    /\ Record

MuxSpec == MuxInit /\ [][MuxNext]_allMuxVars

-----------------------------------------------------------------------------
(* Correctness. *)

\* Every variable keeps its type, and a mutex is locked if and only if it has an
\* owner.
MuxTypeOK ==
    /\ TaskTypeOK
    /\ muxCB \in [Mux -> [stat : {"USED", "UNUSED"}, count : 0 .. MaxDepth,
                          owner : Task \cup {NoOwner}, priority : Prio]]
    /\ unusedMux \in Seq(Mux)
    /\ held \in [Task -> Seq(Mux)] /\ given \in [Task -> Prio]
    /\ \A m \in Mux : Owned(m) <=> muxCB[m].count > 0

\* Whoever waits, waits for a mutex that exists and has an owner: no release,
\* timeout or deletion leaves a waiter on a mutex that is free, whose release
\* would never come.  The unused list has exactly the other mutexes.
WaitersHaveOwner ==
    /\ \A m \in Mux : kernel.pend[m] # <<>> => Used(m) /\ Owned(m)
    /\ IsInjective(unusedMux)
    /\ \A m \in Mux : Used(m) <=> ~Contains(unusedMux, m)

\* Inheritance leaves no trace: a task that owns no mutex has the priority it was
\* given, and no task ever has a lower one, whatever waiters have come, timed out
\* or been deleted, as long as mutexes are released last in, first out and no
\* owner's priority is set by hand.
PriorityRestored ==
    \A t \in Task : Created(t) =>
        /\ kernel.priority[t] <= given[t]
        /\ held[t] = <<>> => kernel.priority[t] = given[t]

=============================================================================
