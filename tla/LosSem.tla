------------------------------- MODULE LosSem -------------------------------
(***************************************************************************)
(* The counting and binary semaphores of the kernel (kernel/src/los_sem.c) *)
(* on top of the tasks: the same processor, interrupts and context switch. *)
(***************************************************************************)
EXTENDS LosTask

CONSTANTS
    Sem,        \* the semaphore control blocks g_allSem
    MaxCount,   \* OS_SEM_COUNTING_MAX_COUNT
    Timeout     \* the timeouts passed to LOS_SemPend; NoTime is LOS_WAIT_FOREVER

ASSUME SemAssumption ==
    /\ Sem \subseteq WaitObj /\ IsFiniteSet(Sem)
    /\ MaxCount \in Nat \ {0}
    /\ Timeout \subseteq (0 .. MaxDelay) \cup {NoTime}

VARIABLES
    semCB,      \* stat, count, max of each control block; its wait list is
                \* kernel.pend
    unusedSem   \* g_unusedSemList

semVars == <<semCB, unusedSem>>
allSemVars == <<kernel, todo, arg, handles, semCB, unusedSem>>

\* LOS_BinarySemCreate and LOS_SemCreate.
Limit == {1, MaxCount}

Used(s) == semCB[s].stat = "USED"

SemInit ==
    /\ Init
    /\ semCB = [s \in Sem |-> [stat |-> "UNUSED", count |-> 0, max |-> 0]]
    /\ unusedSem \in Bijection(1 .. Cardinality(Sem), Sem)

OsSemCreate(t, count, maxCount) ==
    /\ Caller(t, "semCreate") /\ count <= maxCount /\ unusedSem # <<>>
    /\ semCB' = [semCB EXCEPT ![Head(unusedSem)] =
                    [stat |-> "USED", count |-> count, max |-> maxCount]]
    /\ unusedSem' = Tail(unusedSem)
    /\ UNCHANGED taskVars

\* MUTATION: a semaphore is deleted although tasks wait for it.
WithWaiters_SemDelete(t, s) ==
    /\ App(t, "semDelete") /\ Used(s)
    /\ semCB' = [semCB EXCEPT ![s].stat = "UNUSED"]
    /\ unusedSem' = <<s>> \o unusedSem
    /\ UNCHANGED taskVars

\* Refused while tasks wait.
SemDelete(t, s) ==
    /\ App(t, "semDelete") /\ Used(s) /\ kernel.pend[s] = <<>>
    /\ semCB' = [semCB EXCEPT ![s].stat = "UNUSED"]
    /\ unusedSem' = <<s>> \o unusedSem
    /\ UNCHANGED taskVars

\* OsSemValidCheck; the check that the call is not in an interrupt is App.
SemPendValid(s) == Used(s) /\ kernel.lock = 0

SemTake(t, s) ==
    /\ App(t, "semPend") /\ SemPendValid(s) /\ semCB[s].count > 0
    /\ semCB' = [semCB EXCEPT ![s].count = @ - 1]
    /\ UNCHANGED <<kernel, todo, arg, handles, unusedSem>>

SemWait(t, s, timeout) ==
    /\ App(t, "semPend") /\ SemPendValid(s) /\ semCB[s].count = 0 /\ timeout # 0
    /\ Call(t, OsSchedTaskWait(kernel, s, timeout), <<"schedule", "result">>, s)
    /\ UNCHANGED semVars

\* The task runs again: TIMEOUT in its status is the result of the call.
SemResult(t) ==
    /\ Doing(t, "result")
    /\ Continue(t, [kernel EXCEPT !.status[t] = @ \ {"TIMEOUT"}])
    /\ UNCHANGED semVars

SemPostValid(s) == Used(s) /\ semCB[s].count # semCB[s].max

SemPostWakes(s) == SemPostValid(s) /\ kernel.pend[s] # <<>>

\* MUTATION: a token is counted although a task waits for it.
EvenAwaited_SemPostCounts(s) == SemPostValid(s)

SemPostCounts(s) == SemPostValid(s) /\ kernel.pend[s] = <<>>

Woken(s) == OsSchedTaskWake(kernel, Head(kernel.pend[s]))

\* MUTATION: a post wakes a task and does not schedule.
Silent_SemPost(t, s) ==
    /\ App(t, "semPost")
    /\ \/ /\ SemPostWakes(s)
          /\ Call(t, Woken(s), <<>>, NoArg)
          /\ UNCHANGED semCB
       \/ /\ SemPostCounts(s)
          /\ semCB' = [semCB EXCEPT ![s].count = @ + 1]
          /\ UNCHANGED taskVars
    /\ UNCHANGED unusedSem

SemPost(t, s) ==
    /\ App(t, "semPost")
    /\ \/ /\ SemPostWakes(s)
          /\ Call(t, Woken(s), <<"schedule">>, NoArg)
          /\ UNCHANGED semCB
       \/ /\ SemPostCounts(s)
          /\ semCB' = [semCB EXCEPT ![s].count = @ + 1]
          /\ UNCHANGED taskVars
    /\ UNCHANGED unusedSem

IsrSemPost(s) ==
    /\ Interrupt /\ "isrSemPost" \in Calls
    /\ \/ /\ SemPostWakes(s)
          /\ kernel' = LOS_Schedule(Woken(s))
          /\ UNCHANGED semCB
       \/ /\ SemPostCounts(s)
          /\ semCB' = [semCB EXCEPT ![s].count = @ + 1]
          /\ UNCHANGED kernel
    /\ UNCHANGED <<todo, arg, handles, unusedSem>>

SemStep(t) ==
    \/ \E m \in Limit : \E c \in 0 .. m : OsSemCreate(t, c, m)
    \/ SemResult(t)
    \/ \E s \in Sem :
          \/ SemDelete(t, s) \/ SemTake(t, s) \/ SemPost(t, s)
          \/ \E timeout \in Timeout : SemWait(t, s, timeout)

SemNext ==
    \/ TaskNext /\ UNCHANGED semVars
    \/ \E t \in TCB : SemStep(t)
    \/ \E s \in Sem : IsrSemPost(s)

SemSpec == SemInit /\ [][SemNext]_allSemVars

-----------------------------------------------------------------------------
(* Correctness. *)

\* Every variable keeps its type, and no counter passes its limit.
SemTypeOK ==
    /\ TaskTypeOK
    /\ semCB \in [Sem -> [stat : {"USED", "UNUSED"}, count : 0 .. MaxCount,
                          max : {0} \cup Limit]]
    /\ unusedSem \in Seq(Sem)
    /\ \A s \in Sem : semCB[s].count <= semCB[s].max

\* No task waits for a semaphore that has tokens: a post never counts up while
\* someone waits, and no timeout, deletion or suspension lets the two coexist.
NoWaitWithTokens == \A s \in Sem : semCB[s].count > 0 => kernel.pend[s] = <<>>

\* Waiters wait on created semaphores only, and the unused list has the others.
WaitersHaveSemaphore ==
    /\ \A s \in Sem : kernel.pend[s] # <<>> => Used(s)
    /\ IsInjective(unusedSem)
    /\ \A s \in Sem : Used(s) <=> ~Contains(unusedSem, s)

=============================================================================
