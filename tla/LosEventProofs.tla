--------------------------- MODULE LosEventProofs ---------------------------
(***************************************************************************)
(* For any number of tasks, semaphores and events, any counts, masks and   *)
(* timeouts and any interleaving with interrupts: nobody waits for a       *)
(* semaphore that has tokens, or that does not exist, or for an event that *)
(* has the bits he wants; and each of them implements its abstract         *)
(* specification, Semaphore or EventGroup.                                 *)
(*                                                                         *)
(* NoWaitWithTokens is not inductive alone.  A semaphore is created with   *)
(* tokens, so nobody may wait on an unused control block; and no step of   *)
(* the tasks may add a waiter, which is what NextInv says and what the     *)
(* type invariant and the bitmap (TaskInv) are needed for.                 *)
(*                                                                         *)
(* NoReaderForgotten is not inductive alone.  A call is on an event that   *)
(* lives from its check on (CheckedInv), so that a wait never begins on    *)
(* one that was destroyed; what a call wants stays as long as the call     *)
(* (WishInv); and who is on the list is in his call, which is ObjInv.      *)
(* The loop of a write wakes several tasks: Woke says what it has done     *)
(* when it has come to some place of the list, by induction on the place.  *)
(***************************************************************************)
EXTENDS MCIpc, LosListProofs

-----------------------------------------------------------------------------
(* Semaphores.                                                              *)

SemCBType ==
    /\ semCB \in [Sem -> [stat : {"USED", "UNUSED"}, count : 0 .. MaxCount,
                          max : {0} \cup Limit]]
    /\ unusedSem \in Seq(Sem)
    /\ \A s \in Sem : semCB[s].count <= semCB[s].max

SemInv == TaskInv /\ SemCBType /\ WaitersHaveSemaphore /\ NoWaitWithTokens

LEMMA SemInitInv == SemInit => SemInv
<1> SUFFICES ASSUME SemInit PROVE SemInv
  OBVIOUS
<1>1. TaskInv
  BY InitInv DEF SemInit
<1>2. /\ \A s \in Sem : kernel.pend[s] = <<>> /\ semCB[s].count = 0 /\ ~Used(s)
                      /\ semCB[s].max = 0
      /\ semCB \in [Sem -> [stat : {"USED", "UNUSED"}, count : 0 .. MaxCount,
                            max : {0} \cup Limit]]
  BY SemAssumption DEF SemInit, Init, WaitList, Used
<1>3. Cardinality(Sem) \in Nat
  BY SemAssumption, FS_CardinalityType
<1>4. /\ unusedSem \in [1 .. Cardinality(Sem) -> Sem]
      /\ IsInjective(unusedSem)
      /\ \A s \in Sem : \E i \in 1 .. Cardinality(Sem) : unusedSem[i] = s
  BY DEF SemInit, Bijection, Injection, Surjection, IsInjective
<1>5. unusedSem \in Seq(Sem) /\ Len(unusedSem) = Cardinality(Sem)
  BY <1>3, <1>4
<1>6. \A s \in Sem : Contains(unusedSem, s)
  BY <1>4, <1>5 DEF Contains
<1> QED BY <1>1, <1>2, <1>4, <1>5, <1>6 DEF SemInv, SemCBType, WaitersHaveSemaphore,
     NoWaitWithTokens

\* The head of the unused list is not used, and nobody waits for it.
LEMMA CreateSem ==
    ASSUME SemInv, NEW t \in TCB, NEW m \in Limit, NEW c \in 0 .. m, OsSemCreate(t, c, m)
    PROVE  SemInv'
<1> DEFINE s == Head(unusedSem)
           q == Tail(unusedSem)
<1>1. unusedSem \in Seq(Sem) /\ unusedSem # <<>> /\ IsInjective(unusedSem)
  BY DEF OsSemCreate, SemInv, SemCBType, WaitersHaveSemaphore
<1>2. /\ s \in Sem /\ Contains(unusedSem, s)
      /\ q \in Seq(Sem) /\ IsInjective(q) /\ ~Contains(q, s)
      /\ \A z \in Sem \ {s} : Contains(q, z) <=> Contains(unusedSem, z)
  BY <1>1, TakeFirst
<1>3. /\ UNCHANGED taskVars /\ unusedSem' = q
      /\ semCB' = [semCB EXCEPT ![s] = [stat |-> "USED", count |-> c, max |-> m]]
  BY DEF OsSemCreate
<1> HIDE DEF s, q
<1>4. kernel.pend[s] = <<>>
  BY <1>2 DEF SemInv, WaitersHaveSemaphore
<1>5. TaskInv' /\ kernel' = kernel
  BY <1>3, StutterInv DEF SemInv, taskVars
<1>6. m \in {0} \cup Limit /\ c \in 0 .. MaxCount
  BY SemAssumption DEF Limit
<1>7. \A z \in Sem : semCB'[z] = IF z = s THEN [stat |-> "USED", count |-> c, max |-> m]
                                 ELSE semCB[z]
  BY <1>2, <1>3 DEF SemInv, SemCBType
<1>8. SemCBType'
  BY <1>2, <1>3, <1>6 DEF SemInv, SemCBType
<1>9. WaitersHaveSemaphore'
  BY <1>2, <1>3, <1>4, <1>5, <1>7 DEF SemInv, WaitersHaveSemaphore, Used
<1>10. NoWaitWithTokens'
  BY <1>4, <1>5, <1>7 DEF SemInv, NoWaitWithTokens
<1> QED BY <1>5, <1>8, <1>9, <1>10 DEF SemInv

LEMMA DeleteSem ==
    ASSUME SemInv, NEW t \in TCB, NEW s \in Sem, SemDelete(t, s)
    PROVE  SemInv'
<1> DEFINE q == <<s>> \o unusedSem
<1>1. /\ unusedSem \in Seq(Sem) /\ IsInjective(unusedSem) /\ ~Contains(unusedSem, s)
      /\ kernel.pend[s] = <<>>
  BY DEF SemDelete, SemInv, SemCBType, WaitersHaveSemaphore
<1>2. /\ q \in Seq(Sem) /\ IsInjective(q) /\ Contains(q, s)
      /\ \A z \in Sem \ {s} : Contains(q, z) <=> Contains(unusedSem, z)
  BY <1>1, PutFirst
<1>3. /\ UNCHANGED taskVars /\ unusedSem' = q
      /\ semCB' = [semCB EXCEPT ![s].stat = "UNUSED"]
  BY DEF SemDelete
<1> HIDE DEF q
<1>4. TaskInv' /\ kernel' = kernel
  BY <1>3, StutterInv DEF SemInv, taskVars
<1>5. SemCBType'
  BY <1>2, <1>3 DEF SemInv, SemCBType
<1>6. \A z \in Sem : /\ semCB'[z].count = semCB[z].count
                     /\ semCB'[z].stat = IF z = s THEN "UNUSED" ELSE semCB[z].stat
  BY <1>3 DEF SemInv, SemCBType
<1>7. WaitersHaveSemaphore'
  BY <1>1, <1>2, <1>3, <1>4, <1>6 DEF SemInv, WaitersHaveSemaphore, Used
<1>8. NoWaitWithTokens'
  BY <1>4, <1>6 DEF SemInv, NoWaitWithTokens
<1> QED BY <1>4, <1>5, <1>7, <1>8 DEF SemInv

-----------------------------------------------------------------------------

\* A step that leaves the control blocks alone and adds no waiter.
LEMMA TaskPart ==
    ASSUME SemInv, TaskInv', NoNewObjWaiter, UNCHANGED semVars
    PROVE  SemInv'
<1>1. \A s \in Sem : kernel.pend[s] = <<>> => kernel'.pend[s] = <<>>
  BY SemAssumption DEF NoNewObjWaiter
<1>2. semCB' = semCB /\ unusedSem' = unusedSem
  BY DEF semVars
<1> QED BY <1>1, <1>2 DEF SemInv, SemCBType, WaitersHaveSemaphore, NoWaitWithTokens, Used

\* The counter of s becomes n, which is 0 or nobody waits for s.
LEMMA CountPart ==
    ASSUME SemInv, NEW s \in Sem, NEW n \in 0 .. MaxCount, n <= semCB[s].max,
           n = 0 \/ kernel.pend[s] = <<>>, kernel' = kernel, TaskInv',
           semCB' = [semCB EXCEPT ![s].count = n], unusedSem' = unusedSem
    PROVE  SemInv'
<1>1. SemCBType'
  BY DEF SemInv, SemCBType
<1>2. \A z \in Sem : /\ semCB'[z].stat = semCB[z].stat
                     /\ semCB'[z].count = IF z = s THEN n ELSE semCB[z].count
  BY DEF SemInv, SemCBType
<1>3. WaitersHaveSemaphore'
  BY <1>2 DEF SemInv, WaitersHaveSemaphore, Used
<1>4. NoWaitWithTokens'
  BY <1>2 DEF SemInv, NoWaitWithTokens
<1> QED BY <1>1, <1>3, <1>4 DEF SemInv

LEMMA TakeSem ==
    ASSUME SemInv, NEW t \in TCB, NEW s \in Sem, SemTake(t, s)
    PROVE  SemInv'
<1> DEFINE n == semCB[s].count - 1
<1>1. semCB[s].count \in 0 .. MaxCount /\ semCB[s].count > 0
  BY DEF SemTake, SemInv, SemCBType
<1>2. n \in 0 .. MaxCount /\ n <= semCB[s].max /\ kernel.pend[s] = <<>>
  <2>1. semCB[s].max \in Nat /\ semCB[s].count <= semCB[s].max
    BY SemAssumption DEF SemInv, SemCBType, Limit
  <2> QED BY <1>1, <2>1, SemAssumption DEF SemInv, NoWaitWithTokens
<1>3. /\ UNCHANGED <<kernel, todo, arg, handles, unusedSem>>
      /\ semCB' = [semCB EXCEPT ![s].count = n]
  BY DEF SemTake
<1>4. TaskInv'
  BY <1>3, StutterInv DEF SemInv, taskVars
<1> HIDE DEF n
<1> QED BY <1>2, <1>3, <1>4, CountPart

\* Only a task that finds the counter at 0 on a used semaphore waits.
LEMMA WaitSem ==
    ASSUME SemInv, NEW t \in TCB, NEW s \in Sem, NEW timeout \in Timeout,
           SemWait(t, s, timeout)
    PROVE  SemInv'
<1> DEFINE k == OsSchedTaskWait(kernel, s, timeout)
           steps == <<"schedule", "result">>
<1>1. /\ kernel' = k /\ semCB' = semCB /\ unusedSem' = unusedSem
      /\ todo' = [todo EXCEPT ![t] = steps]
      /\ arg' = [arg EXCEPT ![t] = IF steps = <<>> THEN NoArg ELSE s]
      /\ handles' = handles
  BY DEF SemWait, Call, semVars
<1>2. /\ kernel.run \in Task /\ s \in WaitList /\ timeout \in (0 .. MaxDelay) \cup {NoTime}
      /\ Used(s) /\ semCB[s].count = 0
  BY SemAssumption DEF SemWait, SemPendValid, App, Thread, WaitList
<1>3. WellFormed(k) /\ \A o \in WaitList \ {s} : k.pend[o] = kernel.pend[o]
  BY <1>2, InvWellFormed, TaskWaitKeeps DEF SemInv
<1> HIDE DEF k
<1>4. steps \in Seq(Step) /\ ~ObjectIsTask(steps)
  BY DEF Step, ObjectIsTask
<1> HIDE DEF steps
<1>5. TaskInv'
  <2>1. TaskInv /\ WellFormed(kernel') /\ s \in WaitList \cup {NoArg}
    BY <1>1, <1>2, <1>3 DEF SemInv
  <2>2. handles' \subseteq Task
    BY <1>1, <2>1 DEF TaskInv, TaskTypeOK
  <2> QED BY <1>1, <1>4, <2>1, <2>2, CallStep
<1>6. \A z \in Sem \ {s} : kernel'.pend[z] = kernel.pend[z]
  BY <1>1, <1>3, SemAssumption DEF WaitList
<1>7. semCB' = semCB /\ unusedSem' = unusedSem
  BY <1>1
<1>8. SemCBType'
  BY <1>7 DEF SemInv, SemCBType
<1>9. WaitersHaveSemaphore'
  BY <1>2, <1>6, <1>7 DEF SemInv, WaitersHaveSemaphore, Used
<1>10. NoWaitWithTokens'
  BY <1>2, <1>6, <1>7 DEF SemInv, NoWaitWithTokens
<1> QED BY <1>5, <1>8, <1>9, <1>10 DEF SemInv

LEMMA ResultSem ==
    ASSUME SemInv, NEW t \in TCB, SemResult(t)
    PROVE  SemInv'
<1> DEFINE k == [kernel EXCEPT !.status[t] = kernel.status[t] \ {"TIMEOUT"}]
<1>1. Doing(t, "result") /\ Continue(t, k) /\ UNCHANGED semVars
  BY DEF SemResult
<1>2. Keeps(kernel, k)
  <2>1. Fits(t, kernel.status[t] \ {"TIMEOUT"})
    BY InvWellFormed DEF SemInv, Fits, WellFormed, SpecialTasks, SchedState
  <2> QED BY <2>1, InvWellFormed, StatusKeeps DEF SemInv
<1> HIDE DEF k
<1>3. TaskInv' /\ NoNewObjWaiter
  BY <1>1, <1>2, ContinueKeeps DEF Doing, SemInv
<1> QED BY <1>1, <1>3, TaskPart

\* The token goes to the first waiter; the counter stays where it is.
LEMMA WokenKeeps ==
    ASSUME SemInv, NEW s \in Sem, SemPostWakes(s)
    PROVE  Keeps(kernel, Woken(s))
<1>1. kernel.pend[s] \in Seq(Task) /\ kernel.pend[s] # <<>>
  BY SemAssumption DEF SemPostWakes, SemInv, TaskInv, TaskTypeOK, SchedState, WaitList
<1>2. Head(kernel.pend[s]) \in Task
  BY <1>1
<1> QED BY <1>2, InvWellFormed, TaskWakeKeeps DEF Woken, SemInv

\* One more token, and nobody waits for it.
LEMMA CountUp ==
    ASSUME SemInv, NEW s \in Sem, SemPostCounts(s), UNCHANGED taskVars,
           semCB' = [semCB EXCEPT ![s].count = @ + 1], unusedSem' = unusedSem
    PROVE  SemInv'
<1> DEFINE n == semCB[s].count + 1
<1>1. n \in 0 .. MaxCount /\ n <= semCB[s].max /\ kernel.pend[s] = <<>>
  <2>1. /\ semCB[s].max \in 0 .. MaxCount /\ semCB[s].count \in 0 .. MaxCount
        /\ semCB[s].count <= semCB[s].max
    BY SemAssumption DEF SemInv, SemCBType, Limit
  <2> QED BY <2>1, SemAssumption DEF SemPostCounts, SemPostValid
<1>2. TaskInv' /\ kernel' = kernel
  BY StutterInv DEF SemInv, taskVars
<1>3. semCB' = [semCB EXCEPT ![s].count = n]
  OBVIOUS
<1> HIDE DEF n
<1> QED BY <1>1, <1>2, <1>3, CountPart

LEMMA PostSem ==
    ASSUME SemInv, NEW t \in TCB, NEW s \in Sem, SemPost(t, s)
    PROVE  SemInv'
<1>1. CASE SemPostWakes(s) /\ Call(t, Woken(s), <<"schedule">>, NoArg) /\ UNCHANGED semCB
  <2>1. TaskInv' /\ NoNewObjWaiter
    BY <1>1, WokenKeeps, PlainSteps, CallKeeps DEF SemInv
  <2>2. UNCHANGED semVars
    BY <1>1 DEF SemPost, semVars
  <2> QED BY <2>1, <2>2, TaskPart
<1>2. CASE /\ SemPostCounts(s) /\ UNCHANGED taskVars
           /\ semCB' = [semCB EXCEPT ![s].count = @ + 1]
  BY <1>2, CountUp DEF SemPost
<1> QED BY <1>1, <1>2 DEF SemPost

LEMMA IsrPostSem ==
    ASSUME SemInv, NEW s \in Sem, IsrSemPost(s)
    PROVE  SemInv'
<1>1. UNCHANGED <<todo, arg, handles, unusedSem>>
  BY DEF IsrSemPost
<1>2. CASE SemPostWakes(s) /\ kernel' = LOS_Schedule(Woken(s)) /\ UNCHANGED semCB
  <2>1. Keeps(kernel, LOS_Schedule(Woken(s)))
    BY <1>2, WokenKeeps, ScheduleKeeps, KeepsWellFormed, KeepsTrans
  <2>2. TaskInv' /\ NoNewObjWaiter
    BY <1>1, <1>2, <2>1, KernelStep DEF SemInv
  <2> QED BY <1>1, <1>2, <2>2, TaskPart DEF semVars
<1>3. CASE /\ SemPostCounts(s) /\ UNCHANGED kernel
           /\ semCB' = [semCB EXCEPT ![s].count = @ + 1]
  BY <1>1, <1>3, CountUp DEF taskVars
<1> QED BY <1>2, <1>3 DEF IsrSemPost

LEMMA SemNextInv == SemInv /\ [SemNext]_allSemVars => SemInv'
<1> SUFFICES ASSUME SemInv, [SemNext]_allSemVars PROVE SemInv'
  OBVIOUS
<1>1. CASE TaskNext /\ UNCHANGED semVars
  BY <1>1, NextInv, TaskPart DEF SemInv
<1>2. ASSUME NEW t \in TCB, SemStep(t) PROVE SemInv'
  BY <1>2, CreateSem, ResultSem, DeleteSem, TakeSem, PostSem, WaitSem DEF SemStep
<1>3. ASSUME NEW s \in Sem, IsrSemPost(s) PROVE SemInv'
  BY <1>3, IsrPostSem
<1>4. CASE UNCHANGED allSemVars
  <2>1. UNCHANGED taskVars /\ UNCHANGED semVars
    BY <1>4 DEF allSemVars, taskVars, semVars
  <2> QED BY <2>1, StutterInv, TaskPart DEF SemInv
<1> QED BY <1>1, <1>2, <1>3, <1>4 DEF SemNext

\* Whatever the tasks, interrupts and timeouts do, every control block keeps its
\* type and its counter its limit.
THEOREM SemTypes == SemSpec => []SemTypeOK
<1>1. SemInv => SemTypeOK
  BY DEF SemInv, SemCBType, SemTypeOK, TaskInv
<1> QED BY <1>1, SemInitInv, SemNextInv, PTL DEF SemSpec

\* No task ever waits for a semaphore that has tokens: a post, a timeout, a
\* deletion or an interrupt never leaves the two together.
THEOREM TokensFindWaiters == SemSpec => []NoWaitWithTokens
<1>1. SemInv => NoWaitWithTokens
  BY DEF SemInv
<1> QED BY <1>1, SemInitInv, SemNextInv, PTL DEF SemSpec

\* Nobody waits on a deleted or a free control block, and the free ones are
\* exactly those on the unused list, once each.
THEOREM WaitersAreSafe == SemSpec => []WaitersHaveSemaphore
<1>1. SemInv => WaitersHaveSemaphore
  BY DEF SemInv
<1> QED BY <1>1, SemInitInv, SemNextInv, PTL DEF SemSpec

-----------------------------------------------------------------------------
(* Each semaphore implements the abstract one: the calls on it, those that  *)
(* a post has handed a token to and those that have run out of time are the *)
(* ones of LosListProofs, and SemInv says what the counter allows.          *)

SemRefInv == SemInv /\ ObjInv

LEMMA SemParts == SemRefInv => SemInv /\ TaskInv /\ ObjInv /\ SafeInv
  BY DEF SemRefInv, SemInv, ObjInv

Fates(s) == Handed(s) = GrantedOn(s) /\ TimedOut(s) = LateOn(s)

LEMMA FatesAre == SemRefInv => \A s \in Sem : Fates(s) /\ Split(s)
<1> SUFFICES ASSUME SemRefInv, NEW s \in Sem PROVE Fates(s) /\ Split(s)
  OBVIOUS
<1>1. InPend(s) = CallersOn(s)
  BY SemParts, ResultToCome DEF InPend, CallersOn, TCB
<1>2. Handed(s) = GrantedOn(s)
  BY <1>1 DEF Handed, GrantedOn, Granted, CallersOn, Has
<1>3. TimedOut(s) = LateOn(s)
  BY <1>1 DEF TimedOut, LateOn, Has
<1>4. Split(s)
  BY SemParts, CallersSplit, SemAssumption
<1> QED BY <1>2, <1>3, <1>4 DEF Fates

LEMMA FatesAreNext == SemRefInv' => (\A s \in Sem : Fates(s) /\ Split(s))'
  BY FatesAre, PTL

\* The counter of s and the flag of its use stay as they are.
SameBlock(s) == Used(s)' = Used(s) /\ semCB'[s].count = semCB[s].count /\ semCB'[s].max = semCB[s].max

LEMMA SemStutters ==
    ASSUME NEW s, Fates(s), Fates(s)', SameBlock(s), SameOn(s)
    PROVE  UNCHANGED Abstract(s)!semaphore
  BY DEF Abstract!semaphore, Fates, SameBlock, SameOn

\* A task that waits leaves the wait list.
LEMMA SemUnqueues ==
    ASSUME NEW s, Split(s), NEW x, Contains(kernel.pend[s], x), CutOut(s, x)
    PROVE  Abstract(s)!Unqueue(x)
<1>1. PICK q \in Seq(Task) : q = kernel.pend[s]
  BY DEF Split
<1>2. PICK r : r = RemoveFirst(q, x)
  OBVIOUS
<1>3. PICK i \in DOMAIN q : q[i] = x /\ r = SubSeq(q, 1, i - 1) \o SubSeq(q, i + 1, Len(q))
  BY <1>1, <1>2, UnlinkCut
<1>4. kernel'.pend[s] = r
  BY <1>1, <1>2 DEF CutOut, Unlink
<1> QED BY <1>1, <1>3, <1>4 DEF Abstract!Unqueue

\* A step of the tasks: nothing, a timeout, or the end of a task in its call.
LEMMA SemTaskStep ==
    ASSUME NEW s \in Sem, SemRefInv, SemRefInv', ResultsGoOn, SameBlock(s)
    PROVE  UNCHANGED Abstract(s)!semaphore \/ Abstract(s)!Next
<1>1. Fates(s) /\ Fates(s)' /\ Split(s)
  BY FatesAre, FatesAreNext
<1>2. SameOn(s) \/ \E x \in Task : LateAt(s, x) \/ CutOff(s, x)
  BY SemParts, TasksOn, SemAssumption DEF SemRefInv, SemInv
<1>3. CASE SameOn(s)
  BY <1>1, <1>3, SemStutters
<1>4. ASSUME NEW x \in Task, LateAt(s, x) PROVE Abstract(s)!Expire(x)
  <2>1. Abstract(s)!Unqueue(x)
    BY <1>1, <1>4, SemUnqueues DEF LateAt
  <2> QED BY <1>1, <1>4, <2>1 DEF Abstract!Expire, LateAt, Fates, SameBlock
<1>5. ASSUME NEW x \in Task, CutOff(s, x) PROVE Abstract(s)!Leave(x)
  <2>1. x \in Abstract(s)!Range(kernel.pend[s]) <=> Contains(kernel.pend[s], x)
    BY <1>1 DEF Abstract!Range, Contains, Split
  <2>2. CASE Contains(kernel.pend[s], x)
    <3>1. Abstract(s)!Unqueue(x)
      BY <1>1, <1>5, <2>2, SemUnqueues DEF CutOff
    <3>2. x \in Abstract(s)!calling
      BY <2>1, <2>2 DEF Abstract!calling
    <3> QED BY <1>1, <1>5, <2>1, <2>2, <3>1, <3>2 DEF Abstract!Leave, CutOff, Fates, SameBlock
  <2>3. CASE ~Contains(kernel.pend[s], x)
    <3>1. kernel'.pend[s] = kernel.pend[s]
      BY <1>1, <1>5, <2>3, UnlinkAbsent DEF CutOff, CutOut, Unlink, Split
    <3>2. x \in GrantedOn(s) \cup LateOn(s)
      BY <1>1, <1>5, <2>3 DEF CutOff, Split, GrantedOn
    <3>3. x \in Abstract(s)!calling
      BY <1>1, <3>2 DEF Abstract!calling, Fates
    <3> QED BY <1>1, <1>5, <2>1, <2>3, <3>1, <3>3 DEF Abstract!Leave, CutOff, Fates, SameBlock
  <2> QED BY <2>2, <2>3
<1> QED BY <1>2, <1>3, <1>4, <1>5 DEF Abstract!Next

\* What the application calls is called by a task that runs and is in no call.
LEMMA SemCaller ==
    ASSUME SemRefInv, NEW t \in TCB, NEW call, App(t, call)
    PROVE  t \in Task /\ Thread(t) /\ todo[t] = <<>> /\ ~AtResult(t) /\ t = kernel.run
  BY DEF App, Thread, AtResult

\* What the actions do to the calls on the objects.
LEMMA SemWaitGoes ==
    ASSUME SemRefInv, NEW t \in TCB, NEW s \in Sem, NEW timeout \in Timeout, SemWait(t, s, timeout)
    PROVE  /\ ObjInv' /\ Grants({t}, {}) /\ t \in Task /\ ~AtResult(t) /\ AtResult(t)' /\ arg'[t] = s
           /\ kernel'.pend = [kernel.pend EXCEPT ![s] = Append(@, t)]
<1>1. /\ t \in Task /\ Thread(t) /\ todo[t] = <<>> /\ ~AtResult(t) /\ t = kernel.run /\ kernel.lock = 0
      /\ Call(t, OsSchedTaskWait(kernel, s, timeout), <<"schedule", "result">>, s)
  BY SemCaller DEF SemWait, SemPendValid
<1>2. /\ TaskInv /\ ObjInv /\ AsBefore(kernel) /\ WellFormed(kernel)
      /\ s \in WaitObj /\ s \in WaitList /\ timeout \in (0 .. MaxDelay) \cup {NoTime}
  BY SemParts, SelfAsBefore, InvWellFormed, SemAssumption DEF WaitList
<1>3. ObjInv' /\ Grants({t}, {}) /\ todo'[t] = <<"schedule", "result">> /\ arg'[t] = s
  BY <1>1, <1>2, WaitGoes
<1>4. kernel' = OsSchedTaskWait(kernel, s, timeout)
  BY <1>1 DEF Call
<1>5. kernel'.pend = [kernel.pend EXCEPT ![s] = Append(@, t)]
  BY <1>1, <1>2, <1>4, WaitAppends
<1> QED BY <1>1, <1>3, <1>5 DEF AtResult

LEMMA SemResultGoes ==
    ASSUME SemRefInv, NEW t \in TCB, SemResult(t)
    PROVE  /\ ObjInv' /\ Grants({t}, {}) /\ ~AtResult(t)' /\ kernel'.pend = kernel.pend
           /\ t \in Task /\ "PEND" \notin kernel.status[t]
<1>1. /\ Doing(t, "result") /\ Thread(t) /\ todo[t] # <<>> /\ Head(todo[t]) = "result"
      /\ Call(t, [kernel EXCEPT !.status[t] = @ \ {"TIMEOUT"}], Tail(todo[t]), arg[t])
  BY DEF SemResult, Continue, Doing
<1>2. TaskInv /\ SafeInv /\ ObjInv /\ OutcomeInv
  BY SemParts DEF ObjInv
<1>3. todo[t] = <<"result">>
  <2>1. todo[t] \in Rest
    BY <1>2 DEF SafeInv
  <2> QED BY <1>1, <2>1 DEF Rest
<1>4. Tail(todo[t]) = <<>> /\ Tail(todo[t]) \in Plain /\ AtResult(t)
  BY <1>3 DEF Plain, AtResult
<1>5. ObjInv' /\ Grants({t}, {}) /\ todo'[t] = <<>>
  BY <1>1, <1>2, <1>4, TimeoutGoes
<1>6. t \in Task /\ "PEND" \notin kernel.status[t]
  <2>1. t \in Task
    BY <1>2, <1>4 DEF OutcomeInv
  <2> QED BY <1>1, <1>2, <2>1, WorkFlags DEF Blocking
<1>7. kernel'.pend = kernel.pend
  <2>1. kernel' = [kernel EXCEPT !.status[t] = @ \ {"TIMEOUT"}] /\ WellFormed(kernel)
    BY <1>1, <1>2, InvWellFormed DEF Call
  <2> QED BY <2>1 DEF WellFormed, SchedState
<1> QED BY <1>5, <1>6, <1>7 DEF AtResult

\* A post wakes the first waiter.
LEMMA SemPostGoes ==
    ASSUME SemRefInv, NEW t \in TCB, NEW s \in Sem, App(t, "semPost"), SemPostWakes(s),
           Call(t, Woken(s), <<"schedule">>, NoArg)
    PROVE  /\ ObjInv' /\ Grants({t}, {Head(kernel.pend[s])}) /\ ~AtResult(t) /\ ~AtResult(t)'
           /\ kernel'.pend = Woken(s).pend
<1>1. t \in Task /\ Thread(t) /\ todo[t] = <<>> /\ ~AtResult(t)
  BY SemCaller
<1>2. TaskInv /\ ObjInv /\ AsBefore(kernel) /\ s \in WaitObj /\ kernel.pend[s] # <<>>
  BY SemParts, SelfAsBefore, SemAssumption DEF SemPostWakes
<1>3. PICK w : w = Head(kernel.pend[s])
  OBVIOUS
<1>4. Call(t, OsSchedTaskWake(kernel, w), <<"schedule">>, NoArg)
  BY <1>3 DEF Woken
<1>5. ObjInv' /\ Grants({t}, {w}) /\ todo'[t] = <<"schedule">>
  BY <1>1, <1>2, <1>3, <1>4, WakeGoes
<1>6. kernel' = Woken(s)
  BY DEF Call
<1> QED BY <1>1, <1>3, <1>5, <1>6 DEF AtResult

LEMMA SemIsrPostGoes ==
    ASSUME SemRefInv, NEW s \in Sem, SemPostWakes(s), kernel' = LOS_Schedule(Woken(s)),
           UNCHANGED <<todo, arg, handles>>
    PROVE  /\ ObjInv' /\ Grants({}, {Head(kernel.pend[s])}) /\ kernel'.pend = Woken(s).pend
<1>1. TaskInv /\ ObjInv /\ s \in WaitObj /\ kernel.pend[s] # <<>> /\ WellFormed(Woken(s))
  BY SemParts, SemAssumption, WokenKeeps, KeepsWellFormed, InvWellFormed DEF SemPostWakes
<1>2. PICK w : w = Head(kernel.pend[s])
  OBVIOUS
<1>3. kernel' = LOS_Schedule(OsSchedTaskWake(kernel, w))
  BY <1>2 DEF Woken
<1>4. ObjInv' /\ Grants({}, {w})
  BY <1>1, <1>2, <1>3, IsrWakeGoes
<1>5. kernel'.pend = Woken(s).pend
  BY <1>1, AskSame DEF SameLists
<1> QED BY <1>2, <1>4, <1>5

-----------------------------------------------------------------------------

LEMMA SemRefNext ==
    ASSUME Unprotected = {}, SemRefInv, [SemNext]_allSemVars
    PROVE  SemRefInv'
<1>1. SemInv' /\ TaskInv /\ ObjInv
  BY SemParts, SemNextInv
<1>2. ASSUME [TaskNext]_taskVars PROVE ObjInv'
  BY <1>1, <1>2, TaskGoes
<1>3. ASSUME NEW t \in TCB, SemStep(t) PROVE ObjInv'
  <2>1. ASSUME NEW m \in Limit, NEW c \in 0 .. m, OsSemCreate(t, c, m) PROVE UNCHANGED taskVars
    BY <2>1 DEF OsSemCreate
  <2>2. ASSUME NEW s \in Sem, SemDelete(t, s) \/ SemTake(t, s) PROVE UNCHANGED taskVars
    BY <2>2 DEF SemDelete, SemTake, taskVars
  <2>3. ASSUME NEW s \in Sem, SemPost(t, s) PROVE ObjInv' \/ UNCHANGED taskVars
    BY <2>3, SemPostGoes DEF SemPost
  <2> QED BY <1>2, <1>3, <2>1, <2>2, <2>3, SemResultGoes, SemWaitGoes DEF SemStep
<1>4. ASSUME NEW s \in Sem, IsrSemPost(s) PROVE ObjInv'
  <2>1. CASE SemPostWakes(s) /\ kernel' = LOS_Schedule(Woken(s))
    BY <1>4, <2>1, SemIsrPostGoes DEF IsrSemPost
  <2>2. CASE UNCHANGED kernel
    BY <1>2, <1>4, <2>2 DEF IsrSemPost, taskVars
  <2> QED BY <1>4, <2>1, <2>2 DEF IsrSemPost
<1>5. ASSUME UNCHANGED allSemVars PROVE ObjInv'
  BY <1>2, <1>5 DEF allSemVars, taskVars
<1> QED BY <1>1, <1>2, <1>3, <1>4, <1>5 DEF SemNext, SemRefInv

-----------------------------------------------------------------------------
(* The steps of one semaphore. *)

SemStepOn(s) == UNCHANGED Abstract(s)!semaphore \/ Abstract(s)!Next

LEMMA SemCreates ==
    ASSUME SemRefInv, SemRefInv', NEW s \in Sem, NEW t \in TCB, NEW m \in Limit, NEW c \in 0 .. m,
           OsSemCreate(t, c, m)
    PROVE  SemStepOn(s)
<1>1. Fates(s) /\ Fates(s)' /\ SameOn(s)
  BY FatesAre, FatesAreNext, CallersStay DEF OsSemCreate
<1>2. PICK z \in Sem : z = Head(unusedSem) /\ Contains(unusedSem, z)
  BY SemParts, EmptyList DEF OsSemCreate, SemInv, SemCBType
<1>3. /\ ~Used(z) /\ semCB' = [semCB EXCEPT ![z] = [stat |-> "USED", count |-> c, max |-> m]]
      /\ semCB \in [Sem -> [stat : {"USED", "UNUSED"}, count : 0 .. MaxCount, max : {0} \cup Limit]]
  BY <1>2, SemParts DEF OsSemCreate, SemInv, SemCBType, WaitersHaveSemaphore
<1>4. CASE s = z
  <2>1. m \in 0 .. MaxCount /\ c \in 0 .. MaxCount /\ c <= m
    BY SemAssumption DEF Limit, OsSemCreate
  <2>2. Abstract(s)!Create(c, m)
    BY <1>1, <1>3, <1>4, <2>1 DEF Abstract!Create, Fates, SameOn, Used
  <2> QED BY <2>1, <2>2 DEF SemStepOn, Abstract!Next
<1>5. CASE s # z
  <2>1. SameBlock(s)
    BY <1>3, <1>5 DEF SameBlock, Used
  <2> QED BY <1>1, <2>1, SemStutters DEF SemStepOn
<1> QED BY <1>4, <1>5

\* A semaphore z is deleted, or its counter goes up or down.
LEMMA SemCounts ==
    ASSUME SemRefInv, SemRefInv', NEW s \in Sem, NEW t \in TCB, NEW z \in Sem, UNCHANGED taskVars,
           \/ SemDelete(t, z) \/ SemTake(t, z)
           \/ SemPostCounts(z) /\ semCB' = [semCB EXCEPT ![z].count = @ + 1]
    PROVE  SemStepOn(s)
<1>1. Fates(s) /\ Fates(s)' /\ SameOn(s)
  BY FatesAre, FatesAreNext, CallersStay
<1>2. /\ semCB \in [Sem -> [stat : {"USED", "UNUSED"}, count : 0 .. MaxCount, max : {0} \cup Limit]]
      /\ semCB[s].count <= semCB[s].max /\ semCB[s].count \in Nat /\ semCB[s].max \in Nat
  BY SemParts, SemAssumption DEF SemInv, SemCBType, Limit
<1>3. CASE s # z
  <2>1. SameBlock(s)
    BY <1>2, <1>3 DEF SameBlock, Used, SemDelete, SemTake
  <2> QED BY <1>1, <2>1, SemStutters DEF SemStepOn
<1>4. CASE s = z /\ SemDelete(t, z)
  <2>1. Abstract(s)!Delete
    BY <1>1, <1>2, <1>4 DEF Abstract!Delete, SemDelete, Fates, SameOn, Used
  <2> QED BY <2>1 DEF SemStepOn, Abstract!Next
<1>5. CASE s = z /\ SemTake(t, z)
  <2>1. Abstract(s)!Take
    BY <1>1, <1>2, <1>5 DEF Abstract!Take, SemTake, SemPendValid, Fates, SameOn, Used
  <2> QED BY <2>1 DEF SemStepOn, Abstract!Next
<1>6. CASE s = z /\ SemPostCounts(z) /\ semCB' = [semCB EXCEPT ![z].count = @ + 1]
  <2>1. Abstract(s)!Put
    BY <1>1, <1>2, <1>6 DEF Abstract!Put, SemPostCounts, SemPostValid, Fates, SameOn, Used
  <2> QED BY <2>1 DEF SemStepOn, Abstract!Next
<1> QED BY <1>3, <1>4, <1>5, <1>6

\* A call waits at the end of the list.
LEMMA SemWaits ==
    ASSUME SemRefInv, SemRefInv', NEW s \in Sem, NEW t \in TCB, NEW z \in Sem, NEW timeout \in Timeout,
           SemWait(t, z, timeout)
    PROVE  SemStepOn(s)
<1>1. Fates(s) /\ Fates(s)' /\ Split(s) /\ z \in WaitObj /\ s \in WaitObj
  BY FatesAre, FatesAreNext, SemAssumption
<1>2. Grants({t}, {}) /\ t \in Task /\ ~AtResult(t) /\ AtResult(t)' /\ arg'[t] = z
      /\ kernel'.pend = [kernel.pend EXCEPT ![z] = Append(@, t)]
  BY SemWaitGoes
<1>3. /\ t \notin CallersOn(z) /\ kernel'.pend[z] = Append(kernel.pend[z], t)
      /\ GrantedOn(z)' = GrantedOn(z) /\ LateOn(z)' = LateOn(z)
      /\ \A q \in WaitObj \ {z} : SameOn(q)
  BY <1>1, <1>2, SemParts, WaitsOn DEF SemRefInv, SemInv
<1>4. SameBlock(s) /\ Used(z) /\ semCB[z].count = 0
  BY DEF SemWait, SemPendValid, semVars, SameBlock, Used
<1>5. CASE s = z
  <2>1. \A u \in Range(kernel.pend[s]) : u \in CallersOn(s)
    BY <1>1 DEF Range, Split, Contains
  <2>2. t \notin Abstract(s)!calling
    BY <1>1, <1>3, <1>5, <2>1 DEF Abstract!calling, Abstract!Range, Range, Fates, GrantedOn, LateOn
  <2>3. Abstract(s)!Wait(t)
    BY <1>1, <1>3, <1>4, <1>5, <2>2 DEF Abstract!Wait, Fates, SameBlock
  <2> QED BY <1>2, <2>3 DEF SemStepOn, Abstract!Next
<1>6. CASE s # z
  BY <1>1, <1>3, <1>4, <1>6, SemStutters DEF SemStepOn
<1> QED BY <1>5, <1>6

\* A post hands a token to the first waiter.
LEMMA SemHands ==
    ASSUME SemRefInv, SemRefInv', NEW s \in Sem, NEW z \in Sem, SemPostWakes(z), UNCHANGED semVars,
           NEW T \in SUBSET TCB, \A u \in T : ~AtResult(u) /\ ~AtResult(u)',
           Grants(T, {Head(kernel.pend[z])}), kernel'.pend = Woken(z).pend
    PROVE  SemStepOn(s)
<1>1. Fates(s) /\ Fates(s)' /\ z \in WaitObj /\ s \in WaitObj /\ kernel.pend[z] # <<>> /\ Used(z)
  BY FatesAre, FatesAreNext, SemAssumption DEF SemPostWakes, SemPostValid
<1>2. PICK w : w = Head(kernel.pend[z])
  OBVIOUS
<1>3. Grants(T, {w}) /\ kernel'.pend = OsSchedTaskWake(kernel, w).pend /\ "pend" \in DOMAIN kernel
  BY <1>2, SemParts, InvWellFormed DEF Woken, WellFormed, SchedState
<1>4. TaskInv /\ ObjInv /\ TaskInv' /\ ObjInv'
  BY SemParts DEF SemRefInv, SemInv
<1>5. /\ w \in Task /\ kernel'.pend[z] = Tail(kernel.pend[z])
      /\ GrantedOn(z)' = GrantedOn(z) \cup {w} /\ LateOn(z)' = LateOn(z)
      /\ \A q \in WaitObj \ {z} : SameOn(q)
  BY <1>1, <1>2, <1>3, <1>4, WakesOn
<1>6. SameBlock(s)
  BY DEF semVars, SameBlock, Used
<1>7. CASE s = z
  <2>1. Abstract(s)!Grant
    BY <1>1, <1>2, <1>5, <1>6, <1>7 DEF Abstract!Grant, Fates, SameBlock
  <2> QED BY <2>1 DEF SemStepOn, Abstract!Next
<1>8. CASE s # z
  BY <1>1, <1>5, <1>6, <1>8, SemStutters DEF SemStepOn
<1> QED BY <1>7, <1>8

\* A call returns.
LEMMA SemReturns ==
    ASSUME SemRefInv, SemRefInv', NEW s \in Sem, NEW t \in TCB, SemResult(t)
    PROVE  SemStepOn(s)
<1>1. Fates(s) /\ Fates(s)' /\ s \in WaitObj /\ TaskInv /\ ObjInv /\ TaskInv' /\ ObjInv'
  BY FatesAre, FatesAreNext, SemAssumption, SemParts DEF SemRefInv, SemInv
<1>2. /\ Grants({t}, {}) /\ ~AtResult(t)' /\ kernel'.pend = kernel.pend
      /\ t \in Task /\ "PEND" \notin kernel.status[t]
  BY SemResultGoes
<1>3. SameBlock(s)
  BY DEF SemResult, semVars, SameBlock, Used
<1>4. CASE t \notin CallersOn(s)
  BY <1>1, <1>2, <1>3, <1>4, ReturnsOn, SemStutters DEF SemStepOn
<1>5. CASE t \in CallersOn(s)
  <2>1. /\ kernel'.pend[s] = kernel.pend[s] /\ t \in GrantedOn(s) \cup LateOn(s)
        /\ GrantedOn(s)' = GrantedOn(s) \ {t} /\ LateOn(s)' = LateOn(s) \ {t}
    BY <1>1, <1>2, <1>5, ReturnsOn
  <2>2. Abstract(s)!Return(t)
    BY <1>1, <1>3, <2>1 DEF Abstract!Return, Fates, SameBlock
  <2> QED BY <1>2, <2>2 DEF SemStepOn, Abstract!Next
<1> QED BY <1>4, <1>5

LEMMA SemStarts == SemInit => SemRefInv /\ \A s \in Sem : Abstract(s)!Init
<1> SUFFICES ASSUME SemInit PROVE SemRefInv /\ \A s \in Sem : Abstract(s)!Init
  OBVIOUS
<1>1. SemInv /\ Init
  BY SemInitInv DEF SemInit
<1>2. ObjInv
  BY <1>1, InitSafe, InitControl, InitOutcome DEF ObjInv
<1>3. ASSUME NEW s \in Sem PROVE Abstract(s)!Init
  <2>1. Fates(s)
    BY <1>1, <1>2, FatesAre DEF SemRefInv
  <2>2. CallersOn(s) = {}
    BY <1>1 DEF CallersOn, AtResult, Init, TCB
  <2>3. GrantedOn(s) = {} /\ LateOn(s) = {}
    BY <2>2 DEF GrantedOn, LateOn
  <2>4. kernel.pend[s] = <<>> /\ ~Used(s) /\ semCB[s].count = 0 /\ semCB[s].max = 0
    BY SemAssumption DEF SemInit, Init, WaitList, Used
  <2>5. Used(s) = FALSE
    BY <2>4 DEF Used
  <2> QED BY <2>1, <2>3, <2>4, <2>5 DEF Abstract!Init, Fates
<1> QED BY <1>1, <1>2, <1>3 DEF SemRefInv

\* Every step of the system is for each semaphore one of the abstract one, or none.
LEMMA SemSimulates ==
    ASSUME Unprotected = {}, SemRefInv, [SemNext]_allSemVars, NEW s \in Sem
    PROVE  SemStepOn(s)
<1>1. SemRefInv' /\ TaskInv /\ ObjInv
  BY SemRefNext, SemParts
<1>2. CASE UNCHANGED semVars /\ [TaskNext]_taskVars
  <2>1. ResultsGoOn
    BY <1>1, <1>2, TaskGoes
  <2>2. SameBlock(s)
    BY <1>2 DEF semVars, SameBlock, Used
  <2> QED BY <1>1, <2>1, <2>2, SemTaskStep DEF SemStepOn
<1>3. ASSUME NEW z \in Sem, NEW t \in TCB, SemPost(t, z) PROVE SemStepOn(s)
  <2>1. CASE SemPostWakes(z) /\ Call(t, Woken(z), <<"schedule">>, NoArg) /\ UNCHANGED semCB
    <3>1. /\ Grants({t}, {Head(kernel.pend[z])}) /\ ~AtResult(t) /\ ~AtResult(t)'
          /\ kernel'.pend = Woken(z).pend
      BY <1>3, <2>1, SemPostGoes DEF SemPost
    <3>2. UNCHANGED semVars
      BY <1>3, <2>1 DEF SemPost, semVars
    <3>3. {t} \in SUBSET TCB /\ \A u \in {t} : ~AtResult(u) /\ ~AtResult(u)'
      BY <3>1
    <3> QED BY <1>1, <2>1, <3>1, <3>2, <3>3, SemHands
  <2>2. CASE SemPostCounts(z) /\ UNCHANGED taskVars /\ semCB' = [semCB EXCEPT ![z].count = @ + 1]
    BY <1>1, <2>2, SemCounts
  <2> QED BY <1>3, <2>1, <2>2 DEF SemPost
<1>4. ASSUME NEW z \in Sem, IsrSemPost(z) PROVE SemStepOn(s)
  <2>1. UNCHANGED <<todo, arg, handles>> /\ Idle \in TCB
    BY <1>4 DEF IsrSemPost, TCB
  <2>2. CASE SemPostWakes(z) /\ kernel' = LOS_Schedule(Woken(z)) /\ UNCHANGED semCB
    <3>1. Grants({}, {Head(kernel.pend[z])}) /\ kernel'.pend = Woken(z).pend
      BY <2>1, <2>2, SemIsrPostGoes
    <3>2. UNCHANGED semVars
      BY <1>4, <2>2 DEF IsrSemPost, semVars
    <3>3. {} \in SUBSET TCB /\ \A u \in {} : ~AtResult(u) /\ ~AtResult(u)'
      OBVIOUS
    <3> QED BY <1>1, <2>2, <3>1, <3>2, <3>3, SemHands
  <2>3. CASE SemPostCounts(z) /\ UNCHANGED kernel /\ semCB' = [semCB EXCEPT ![z].count = @ + 1]
    <3>1. UNCHANGED taskVars
      BY <2>1, <2>3 DEF taskVars
    <3> QED BY <1>1, <2>1, <2>3, <3>1, SemCounts
  <2> QED BY <1>4, <2>2, <2>3 DEF IsrSemPost
<1>5. ASSUME NEW t \in TCB, SemStep(t) PROVE SemStepOn(s)
  <2>1. ASSUME NEW z \in Sem, SemDelete(t, z) \/ SemTake(t, z) PROVE SemStepOn(s)
    <3>1. UNCHANGED taskVars
      BY <2>1 DEF SemDelete, SemTake, taskVars
    <3> QED BY <1>1, <2>1, <3>1, SemCounts
  <2> QED BY <1>1, <1>3, <1>5, <2>1, SemCreates, SemWaits, SemReturns DEF SemStep
<1>6. ASSUME UNCHANGED allSemVars PROVE SemStepOn(s)
  <2>1. UNCHANGED semVars /\ UNCHANGED taskVars
    BY <1>6 DEF allSemVars, semVars, taskVars
  <2> QED BY <1>2, <2>1
<1> QED BY <1>2, <1>3, <1>4, <1>5, <1>6 DEF SemNext

\* Each semaphore is the counter and the queue that LOS_SemPend and LOS_SemPost
\* promise: whatever interrupts, timeouts, suspensions and deletions come between the
\* critical sections of the calls, no token appears, none is handed out twice, it goes
\* to the task that has waited longest, and a call returns one outcome.  A task that
\* is deleted with a token, or waiting, takes no other's.
THEOREM EverySemaphoreIsOne ==
    ASSUME Unprotected = {}
    PROVE  SemSpec => EachIsASemaphore
<1>1. SemInit => SemRefInv /\ \A s \in Sem : Abstract(s)!Init
  BY SemStarts
<1>2. SemRefInv /\ [SemNext]_allSemVars => SemRefInv'
  BY SemRefNext
<1>3. SemRefInv /\ [SemNext]_allSemVars =>
         [\A s \in Sem : UNCHANGED Abstract(s)!semaphore \/ Abstract(s)!Next]_allSemVars
  BY SemSimulates DEF SemStepOn
<1> QED BY <1>1, <1>2, <1>3, PTL DEF SemSpec, EachIsASemaphore

-----------------------------------------------------------------------------
(* The loop of a write.                                                     *)

\* g is the loop, cut off after n waiters.
Loop(e, W, n, g) ==
    g = [i \in 0 .. n |->
            IF i = 0 THEN kernel
            ELSE IF kernel.pend[e][i] \in W THEN OsSchedTaskWake(g[i - 1], kernel.pend[e][i])
            ELSE g[i - 1]]

LEMMA LoopExists ==
    ASSUME NEW e, NEW W, NEW n \in Nat
    PROVE  \E g : Loop(e, W, n, g)
<1> DEFINE S == {m \in Nat : ~ \E g : Loop(e, W, m, g)}
<1>1. SUFFICES ASSUME S # {} PROVE FALSE
  OBVIOUS
<1>2. PICK m \in S : \A j \in S : m <= j
  BY <1>1, LeastNumber
<1>3. CASE m = 0
  <2>1. Loop(e, W, 0, [i \in 0 .. 0 |-> kernel])
    BY DEF Loop
  <2> QED BY <1>3, <2>1
<1>4. CASE m # 0
  <2>1. m - 1 \in Nat /\ m - 1 \notin S
    BY <1>2, <1>4
  <2>2. PICK g : Loop(e, W, m - 1, g)
    BY <2>1
  <2> DEFINE h == [i \in 0 .. m |->
                      IF i = m THEN IF kernel.pend[e][m] \in W
                                    THEN OsSchedTaskWake(g[m - 1], kernel.pend[e][m])
                                    ELSE g[m - 1]
                      ELSE g[i]]
  <2>3. \A i \in 0 .. m - 1 : h[i] = g[i]
    BY <1>2
  <2>4. \A i \in 0 .. m : h[i] = IF i = 0 THEN kernel
                                 ELSE IF kernel.pend[e][i] \in W
                                 THEN OsSchedTaskWake(h[i - 1], kernel.pend[e][i])
                                 ELSE h[i - 1]
    BY <1>4, <2>1, <2>2, <2>3 DEF Loop
  <2>5. h = [i \in 0 .. m |-> h[i]]
    OBVIOUS
  <2> HIDE DEF h
  <2>6. Loop(e, W, m, h)
    BY <2>4, <2>5 DEF Loop
  <2> QED BY <2>6
<1> QED BY <1>3, <1>4

\* The state after i waiters, from the one before the last of them.
LEMMA LoopSteps ==
    ASSUME NEW e, NEW events, Len(kernel.pend[e]) \in Nat
    PROVE  LET g == WriteLoop(e, events) IN
           /\ g[0] = kernel
           /\ \A i \in 1 .. Len(kernel.pend[e]) :
                 g[i] = IF kernel.pend[e][i] \in Awakened(e, events)
                        THEN OsSchedTaskWake(g[i - 1], kernel.pend[e][i]) ELSE g[i - 1]
<1>1. PICK n \in Nat : n = Len(kernel.pend[e])
  OBVIOUS
<1>2. PICK W : W = Awakened(e, events)
  OBVIOUS
<1>3. \E g : Loop(e, W, n, g)
  BY LoopExists
<1>4. Loop(e, W, n, WriteLoop(e, events))
  BY <1>1, <1>2, <1>3 DEF Loop, WriteLoop
<1> QED BY <1>1, <1>2, <1>4 DEF Loop

-----------------------------------------------------------------------------
(* What the loop has done when it has woken the tasks of W.                 *)

Woke(m, W) ==
    /\ Keeps(kernel, m) /\ Sound(m) /\ SameControl(kernel, m)
    /\ \A x \in Task \ W : m.status[x] = kernel.status[x] /\ SameWaits(kernel, m, x)
    /\ \A w \in W : /\ "PEND" \notin m.status[w] /\ Waits(m, w) = {} /\ SameLife(kernel, m, w)
                    /\ "TIMEOUT" \in m.status[w] <=> "TIMEOUT" \in kernel.status[w]

\* A task on the wait list of an object is in its call on it.
LEMMA WaiterIs ==
    ASSUME TaskInv, SafeInv, NEW o \in WaitObj, NEW w, Contains(kernel.pend[o], w)
    PROVE  /\ w \in Task /\ o \in Waits(kernel, w) /\ "PEND" \in kernel.status[w]
           /\ NotNew(w) /\ Waits(kernel, w) \cap Task = {} /\ AtResult(w) /\ arg[w] = o
<1>1. o \in WaitList /\ kernel.pend[o] \in Seq(Task)
  BY SafeKernel DEF WaitList, WellFormed, SchedState
<1>2. w \in Task
  BY <1>1, ContainsType
<1>3. o \in Waits(kernel, w) /\ Placed(kernel, w)
  BY <1>1, <1>2, SafeKernel DEF Waits
<1>4. "PEND" \in kernel.status[w] /\ Results(w, o)
  BY <1>2, <1>3 DEF Placed, SafeInv, ResultInv
<1>5. NotNew(w)
  BY <1>4 DEF NotNew
<1>6. Waits(kernel, w) \cap Task = {}
  <2>1. \A p \in Waits(kernel, w) : p = o
    BY <1>3 DEF Placed
  <2> QED BY <2>1, SchedAssumption
<1> QED BY <1>2, <1>3, <1>4, <1>5, <1>6 DEF Results, AtResult

\* One more of them is woken.
LEMMA WokeOne ==
    ASSUME TaskInv, SafeInv, NEW W \in SUBSET Task, NEW k, Woke(k, W), NEW o \in WaitObj,
           NEW w, Contains(kernel.pend[o], w), w \notin W, NEW m, m = OsSchedTaskWake(k, w)
    PROVE  Woke(m, W \cup {w})
<1>1. w \in Task /\ o \in Waits(kernel, w) /\ "PEND" \in kernel.status[w]
  BY WaiterIs
<1>2. WellFormed(k) /\ Tidy(k) /\ Sound(k) /\ SameControl(kernel, k)
  BY DEF Woke, Keeps, Sound
<1>3. Placed(k, w) /\ k.status[w] = kernel.status[w]
  BY <1>1, <1>2 DEF Woke, Sound
<1>4. /\ Only(k, m, w) /\ Placed(m, w) /\ Waits(m, w) = {} /\ SameLife(k, m, w)
      /\ "TIMEOUT" \in m.status[w] <=> "TIMEOUT" \in k.status[w]
  BY <1>1, <1>2, <1>3, TaskWakeRow
<1>5. Keeps(kernel, m)
  <2>1. Keeps(k, m)
    BY <1>1, <1>2, TaskWakeKeeps
  <2>2. Keeps(kernel, k)
    BY DEF Woke
  <2> QED BY <2>1, <2>2, KeepsTrans
<1>6. w = k.run => /\ {"RUNNING", "STACK_FREE"} \subseteq m.status[w]
                   /\ m.status[w] \cap {"UNUSED", "READY"} = {}
  <2>1. SUFFICES ASSUME w = k.run PROVE /\ {"RUNNING", "STACK_FREE"} \subseteq m.status[w]
                                        /\ m.status[w] \cap {"UNUSED", "READY"} = {}
    OBVIOUS
  <2>2. {"RUNNING", "STACK_FREE"} \subseteq k.status[w] /\ "UNUSED" \notin k.status[w]
    BY <1>1, <1>2, <2>1 DEF Sound, Runs
  <2>3. {"RUNNING", "STACK_FREE"} \subseteq m.status[w] /\ "UNUSED" \notin m.status[w]
    BY <1>4, <2>2 DEF SameLife
  <2> QED BY <1>4, <2>3 DEF Placed
<1>7. Sound(m)
  BY <1>1, <1>2, <1>4, <1>6, SoundStep
<1>8. SameControl(kernel, m)
  BY <1>2, <1>4 DEF Only, SameControl
<1>9. \A x \in Task : x # w => m.status[x] = k.status[x] /\ SameWaits(k, m, x)
  BY <1>4 DEF Only, SameRow, SameFlags
<1>10. "PEND" \notin m.status[w]
  BY <1>4 DEF Placed
<1>11. SameLife(kernel, m, w) /\ ("TIMEOUT" \in m.status[w] <=> "TIMEOUT" \in kernel.status[w])
  BY <1>3, <1>4 DEF SameLife
<1>12. \A x \in Task \ (W \cup {w}) : m.status[x] = kernel.status[x] /\ SameWaits(kernel, m, x)
  BY <1>9 DEF Woke, SameWaits
<1>13. ASSUME NEW x \in W
       PROVE  /\ "PEND" \notin m.status[x] /\ Waits(m, x) = {} /\ SameLife(kernel, m, x)
              /\ "TIMEOUT" \in m.status[x] <=> "TIMEOUT" \in kernel.status[x]
  <2>1. x \in Task /\ x # w /\ m.status[x] = k.status[x] /\ Waits(m, x) = Waits(k, x)
    BY <1>9 DEF SameWaits
  <2> QED BY <2>1 DEF Woke, SameLife
<1> QED BY <1>4, <1>5, <1>7, <1>8, <1>10, <1>11, <1>12, <1>13 DEF Woke

\* Before the first waiter nobody is woken.
LEMMA WokeNone == ASSUME TaskInv, SafeInv PROVE Woke(kernel, {})
  BY SafeKernel, KeepsSelf DEF Woke, SameControl, SameWaits

\* A write wakes those it is to wake.
LEMMA WokenAll ==
    ASSUME TaskInv, SafeInv, NEW e \in WaitObj, NEW events
    PROVE  Woke(WakeAll(e, events), Awakened(e, events))
<1> DEFINE q == kernel.pend[e]
           n == Len(q)
           A == Awakened(e, events)
           g == WriteLoop(e, events)
           W(i) == {u \in A : \E j \in 1 .. i : q[j] = u}
           P(i) == Woke(g[i], W(i))
           S == {i \in 0 .. n : ~P(i)}
<1>1. /\ q \in Seq(Task) /\ IsInjective(q) /\ n \in Nat /\ DOMAIN q = 1 .. n
      /\ \A i, j \in 1 .. n : q[i] = q[j] => i = j
  <2>1. q \in Seq(Task) /\ IsInjective(q)
    BY SafeKernel DEF WaitList, WellFormed, SchedState, Tidy
  <2> QED BY <2>1 DEF IsInjective
<1>2. A \subseteq Task /\ \A u \in A : \E j \in 1 .. n : q[j] = u
  <2>1. \A u \in A : \E j \in 1 .. n : q[j] = u
    BY <1>1 DEF Awakened, ToSet
  <2> QED BY <1>1, <2>1
<1>3. /\ g[0] = kernel
      /\ \A i \in 1 .. n : g[i] = IF q[i] \in A THEN OsSchedTaskWake(g[i - 1], q[i]) ELSE g[i - 1]
  BY <1>1, LoopSteps
<1>4. WakeAll(e, events) = g[n]
  BY DEF WakeAll
<1> HIDE DEF q, n, A, g, P
<1>5. ASSUME S # {} PROVE FALSE
  <2>1. PICK i \in S : \A j \in S : i <= j
    <3>1. S \subseteq Nat
      BY <1>1
    <3> HIDE DEF S
    <3> QED BY <1>5, <3>1, LeastNumber
  <2>2. i \in 0 .. n /\ ~Woke(g[i], W(i))
    BY <2>1 DEF P
  <2>3. i # 0
    <3>1. W(0) = {}
      OBVIOUS
    <3> QED BY <1>3, <2>2, <3>1, WokeNone
  <2>4. i \in 1 .. n /\ i - 1 \in 0 .. n
    BY <1>1, <2>2, <2>3
  <2>5. Woke(g[i - 1], W(i - 1))
    <3>1. P(i - 1)
      BY <1>1, <2>1, <2>2, <2>4
    <3> QED BY <3>1 DEF P
  <2>6. \A u : u \in W(i) <=> u \in W(i - 1) \/ (u \in A /\ q[i] = u)
    <3>1. \A j : j \in 1 .. i <=> j \in 1 .. i - 1 \/ j = i
      BY <1>1, <2>4
    <3> QED BY <3>1
  <2>7. CASE q[i] \in A
    <3>1. W(i) = W(i - 1) \cup {q[i]}
      BY <2>6, <2>7
    <3>2. q[i] \notin W(i - 1)
      BY <1>1, <2>4
    <3>3. W(i - 1) \in SUBSET Task
      BY <1>2
    <3>4. Contains(kernel.pend[e], q[i])
      BY <1>1, <2>4 DEF Contains, q
    <3>5. g[i] = OsSchedTaskWake(g[i - 1], q[i])
      BY <1>3, <2>4, <2>7
    <3> HIDE DEF W
    <3>6. Woke(g[i], W(i - 1) \cup {q[i]})
      BY <2>5, <3>2, <3>3, <3>4, <3>5, WokeOne
    <3> QED BY <2>2, <3>1, <3>6
  <2>8. CASE q[i] \notin A
    <3>1. W(i) = W(i - 1)
      BY <2>6, <2>8
    <3> QED BY <1>3, <2>2, <2>4, <2>5, <2>8, <3>1
  <2> QED BY <2>7, <2>8
<1>6. W(n) = A
  BY <1>2
<1>7. Woke(g[n], W(n))
  <2>1. P(n)
    BY <1>1, <1>5
  <2> QED BY <2>1 DEF P
<1> QED BY <1>4, <1>6, <1>7 DEF A

\* A write that wakes nobody leaves the kernel as it is.
LEMMA NobodyWoken ==
    ASSUME TaskInv, NEW e \in WaitObj, NEW events, Awakened(e, events) = {}
    PROVE  WakeAll(e, events) = kernel
<1> DEFINE n == Len(kernel.pend[e])
           g == WriteLoop(e, events)
           S == {i \in 0 .. n : g[i] # kernel}
<1>1. n \in Nat
  <2>1. kernel.pend[e] \in Seq(Task)
    BY InvWellFormed DEF WellFormed, SchedState, WaitList
  <2> QED BY <2>1
<1>2. g[0] = kernel /\ \A i \in 1 .. n : g[i] = g[i - 1]
  BY <1>1, LoopSteps
<1> HIDE DEF n, g
<1>3. ASSUME S # {} PROVE FALSE
  <2>1. PICK i \in S : \A j \in S : i <= j
    <3>1. S \subseteq Nat
      BY <1>1
    <3> HIDE DEF S
    <3> QED BY <1>3, <3>1, LeastNumber
  <2>2. i \in 1 .. n /\ g[i] # kernel
    BY <1>1, <1>2, <2>1
  <2>3. i - 1 \notin S /\ i - 1 \in 0 .. n
    BY <1>1, <2>1, <2>2
  <2> QED BY <1>2, <2>2, <2>3
<1>4. g[n] = kernel
  BY <1>1, <1>3
<1> QED BY <1>4 DEF WakeAll, n, g

-----------------------------------------------------------------------------
(* What a write does to the tasks.                                          *)

\* The tasks of W wait on o.
WaitOn(o, W) == \A w \in W : Contains(kernel.pend[o], w)

LEMMA WokeSafe ==
    ASSUME TaskInv, SafeInv, NEW o \in WaitObj, NEW W, WaitOn(o, W), NEW m, Woke(m, W),
           kernel' = m \/ kernel' = LOS_Schedule(m), SameCalls, SwitchComes'
    PROVE  SafeInv'
<1>1. \A w \in W : w \in Task /\ NotNew(w) /\ Waits(kernel, w) \cap Task = {}
  BY WaiterIs DEF WaitOn
<1>2. WellFormed(m) /\ Sound(m)
  BY DEF Woke, Keeps
<1>3. Sound(kernel') /\ kernel'.status = m.status /\ \A z \in Task : SameWaits(m, kernel', z)
  BY <1>2, AskSound, AskSame
<1>4. ASSUME NEW x \in Task PROVE SameJoins(kernel, kernel', x)
  <2>1. Waits(kernel', x) = Waits(m, x)
    BY <1>3 DEF SameWaits
  <2>2. CASE x \in W
    <3>1. Waits(m, x) = {}
      BY <2>2 DEF Woke
    <3> QED BY <1>1, <2>1, <2>2, <3>1 DEF SameJoins
  <2>3. CASE x \notin W
    <3>1. Waits(m, x) = Waits(kernel, x)
      BY <2>3 DEF Woke, SameWaits
    <3> QED BY <2>1, <3>1 DEF SameJoins
  <2> QED BY <2>2, <2>3
<1>5. ASSUME NEW x \in Task
      PROVE  \/ kernel'.status[x] = kernel.status[x]
             \/ NotNew(x) /\ Kept(kernel, kernel', x)
  <2>1. CASE x \in W
    BY <1>1, <1>3, <2>1 DEF Woke, Kept, SameLife
  <2>2. CASE x \notin W
    BY <1>3, <2>2 DEF Woke
  <2> QED BY <2>1, <2>2
<1> QED BY <1>3, <1>4, <1>5, WakeStep

\* They are given what they wait for.
LEMMA WokeOutcome ==
    ASSUME TaskInv, ObjInv, NEW o \in WaitObj, NEW W, WaitOn(o, W), NEW m, Woke(m, W),
           kernel'.status = m.status, NEW T, OnlyTheirs(T)
    PROVE  /\ OutcomeInv' /\ Grants(T, W) /\ W \in SUBSET Task
           /\ \A w \in W : ~Granted(w) /\ w \notin T /\ arg[w] = o /\ AtResult(w)
<1>0. /\ T \in SUBSET TCB
      /\ \A u \in T : /\ u \in Task => kernel.status[u] \cap {"PEND", "TIMEOUT"} = {}
                      /\ ~AtResult(u)' /\ \A x \in Task : ~Creating(u, x)'
      /\ \A u \in TCB : u \notin T => todo'[u] = todo[u] /\ arg'[u] = arg[u]
  BY DEF OnlyTheirs
<1>1. \A w \in W : w \in Task /\ "PEND" \in kernel.status[w] /\ AtResult(w) /\ arg[w] = o
  BY WaiterIs DEF WaitOn, ObjInv
<1>2. \A w \in W : w \notin T /\ ~Granted(w)
  BY <1>0, <1>1 DEF Granted
<1>3. \A w \in W : "PEND" \notin kernel'.status[w]
  BY DEF Woke
<1>4. \A x \in Task : x \notin W => kernel'.status[x] = kernel.status[x]
  BY DEF Woke
<1>5. \A w \in W : \A f \in Outcome : f \in kernel'.status[w] <=> f \in kernel.status[w]
  BY DEF Woke, SameLife, Outcome
<1>6. \A x \in Task : x \notin T =>
         /\ \A f \in Outcome : f \in kernel'.status[x] <=> f \in kernel.status[x]
         /\ "PEND" \in kernel'.status[x] => "PEND" \in kernel.status[x]
  BY <1>1, <1>4, <1>5
<1>7. \A x \in Task : x \notin T \cup W /\ "PEND" \in kernel.status[x] => "PEND" \in kernel'.status[x]
  BY <1>4
<1>8. \A u \in T : u \in Task => "TIMEOUT" \notin kernel'.status[u]
  BY <1>0, <1>2, <1>4
<1>9. W \in SUBSET Task
  BY <1>1
<1>10. /\ \A v \in W : /\ v \notin T /\ AtResult(v) /\ "PEND" \in kernel.status[v]
                       /\ "PEND" \notin kernel'.status[v]
       /\ \A u \in T : /\ AtResult(u)' => /\ u \in Task /\ "PEND" \in kernel'.status[u]
                                          /\ kernel'.status[u] \cap {"EXIT", "UNUSED"} = {}
                                          /\ \A v \in TCB : ~Creating(v, u)
                       /\ u \in Task => "TIMEOUT" \notin kernel'.status[u]
                       /\ \A x \in Task : ~Creating(u, x)'
  BY <1>0, <1>1, <1>2, <1>3, <1>8
<1>11. OutcomeInv' /\ Grants(T, W)
  BY <1>0, <1>6, <1>7, <1>9, <1>10, ObjOutcome DEF ObjInv
<1> QED BY <1>1, <1>2, <1>9, <1>11

\* What is known after a write: of the tasks, and of the waits of those it does not wake.
Wrote(o, T, W) ==
    /\ TaskInv' /\ ObjInv' /\ Grants(T, W) /\ W \in SUBSET Task
    /\ \A w \in W : ~Granted(w) /\ w \notin T /\ arg[w] = o /\ AtResult(w)
    /\ \A x \in Task \ W : Waits(kernel', x) = Waits(kernel, x)
    /\ \A w \in W : Waits(kernel', w) = {}

\* LOS_EventWrite of a task.
LEMMA WokeGoes ==
    ASSUME TaskInv, ObjInv, NEW t \in TCB, Doing(t, "eventWrite"), NEW o \in WaitObj, NEW W, WaitOn(o, W),
           NEW m, Woke(m, W), NEW b \in BOOLEAN, Call(t, m, IF b THEN <<"schedule">> ELSE <<>>, NoArg)
    PROVE  Wrote(o, {t}, W) /\ todo'[t] \in {<<>>, <<"schedule">>}
<1> DEFINE s == IF b THEN <<"schedule">> ELSE <<>>
<1>1. Thread(t) /\ todo[t] # <<>> /\ Head(todo[t]) = "eventWrite"
  BY DEF Doing
<1>2. s \in Plain /\ s \in {<<>>, <<"schedule">>}
  BY DEF Plain
<1>3. Keeps(kernel, m) /\ SameControl(kernel, m) /\ WellFormed(m)
  BY DEF Woke, Keeps
<1>4. TaskInv'
  BY <1>3, PlainCall
<1> HIDE DEF s
<1>5. Call(t, m, s, NoArg)
  BY DEF s
<1>6. /\ kernel' = m /\ todo'[t] = s /\ ~AtResult(t)' /\ \A x \in Task : ~Creating(t, x)'
      /\ \A u \in TCB : u \notin {t} => todo'[u] = todo[u] /\ arg'[u] = arg[u]
  BY <1>2, <1>5, ObjCall DEF ObjInv
<1>7. SameCalls
  BY <1>1, <1>2, <1>5, WorkCalls DEF ObjInv
<1>8. t = kernel.run /\ (t \in Task => kernel.status[t] \cap (Blocking \cup {"TIMEOUT"}) = {})
  BY <1>1, WorkFlags DEF ObjInv
<1>9. \A w \in W : w \in Task /\ "PEND" \in kernel.status[w]
  BY WaiterIs DEF WaitOn, ObjInv
<1>10. t \in Task => t \notin W /\ m.status[t] = kernel.status[t]
  BY <1>8, <1>9 DEF Blocking, Woke
<1>11. SwitchComes'
  <2>1. m.run = t
    BY <1>3, <1>8 DEF SameControl
  <2> QED BY <1>6, <1>8, <1>10, <2>1, NothingToCome
<1>12. SafeInv'
  BY <1>6, <1>7, <1>11, WokeSafe DEF ObjInv
<1>13. OnlyTheirs({t})
  BY <1>6, <1>8 DEF OnlyTheirs, Blocking
<1>14. /\ OutcomeInv' /\ Grants({t}, W) /\ W \in SUBSET Task
       /\ \A w \in W : ~Granted(w) /\ w \notin {t} /\ arg[w] = o /\ AtResult(w)
  <2> DEFINE T == {t}
  <2> HIDE DEF T
  <2>1. OnlyTheirs(T)
    BY <1>13 DEF T
  <2>2. /\ OutcomeInv' /\ Grants(T, W) /\ W \in SUBSET Task
        /\ \A w \in W : ~Granted(w) /\ w \notin T /\ arg[w] = o /\ AtResult(w)
    BY <1>6, <2>1, WokeOutcome
  <2> QED BY <2>2 DEF T
<1>15. ControlInv'
  BY <1>3, <1>6, SameControlStep DEF ObjInv
<1>16. (\A x \in Task \ W : Waits(kernel', x) = Waits(kernel, x)) /\ \A w \in W : Waits(kernel', w) = {}
  BY <1>6 DEF Woke, SameWaits
<1> QED BY <1>2, <1>4, <1>6, <1>12, <1>14, <1>15, <1>16 DEF ObjInv, Wrote

\* The same in an interrupt, which may have come before a waiter was switched out.
LEMMA IsrWokeGoes ==
    ASSUME TaskInv, ObjInv, NEW o \in WaitObj, NEW W, WaitOn(o, W), NEW m, Woke(m, W),
           kernel' = LOS_Schedule(m), UNCHANGED <<todo, arg, handles>>
    PROVE  Wrote(o, {}, W)
<1>1. Keeps(kernel, m) /\ SameControl(kernel, m) /\ WellFormed(m) /\ Sound(m)
  BY DEF Woke, Keeps
<1>2. TaskInv'
  <2>1. Keeps(kernel, LOS_Schedule(m))
    BY <1>1, ScheduleKeeps, KeepsTrans
  <2> QED BY <2>1, KernelStep
<1>3. /\ kernel'.status = m.status /\ kernel'.run = kernel.run /\ kernel'.lock = kernel.lock
      /\ kernel.pendSV => kernel'.pendSV
  BY <1>1, AskSame DEF SameControl
<1>4. SwitchComes'
  <2>1. CASE kernel.run \in W
    <3>1. kernel.run \in Task /\ "PEND" \in kernel.status[kernel.run]
      BY <2>1, WaiterIs DEF WaitOn, ObjInv
    <3> QED BY <1>3, <3>1 DEF ObjInv, SafeInv, SwitchComes, Blocking
  <2>2. CASE kernel.run \notin W
    <3>1. kernel.run \in Task => kernel'.status[kernel.run] = kernel.status[kernel.run]
      BY <1>3, <2>2 DEF Woke
    <3> QED BY <1>3, <3>1, StillComes DEF ObjInv
  <2> QED BY <2>1, <2>2
<1>5. SafeInv'
  <2>1. SameCalls
    BY UnchangedCalls DEF ObjInv
  <2> QED BY <1>4, <2>1, WokeSafe DEF ObjInv
<1>6. /\ OutcomeInv' /\ Grants({}, W) /\ W \in SUBSET Task
      /\ \A w \in W : ~Granted(w) /\ w \notin {} /\ arg[w] = o /\ AtResult(w)
  <2>1. OnlyTheirs({})
    BY DEF OnlyTheirs
  <2> QED BY <1>3, <2>1, WokeOutcome
<1>7. ControlInv'
  BY <1>1, AskControlStep DEF ObjInv
<1>8. (\A x \in Task \ W : Waits(kernel', x) = Waits(kernel, x)) /\ \A w \in W : Waits(kernel', w) = {}
  <2>1. \A z \in Task : Waits(kernel', z) = Waits(m, z)
    BY <1>1, AskSound DEF SameWaits
  <2> QED BY <1>6, <2>1 DEF Woke, SameWaits
<1> QED BY <1>2, <1>5, <1>6, <1>7, <1>8 DEF ObjInv, Wrote

-----------------------------------------------------------------------------
(* The calls that have checked their event, in a step of the tasks.         *)

\* None begins, and the event of those that go on is the same.
ChecksGoOn ==
    \A u \in TCB : todo'[u] \in {<<"eventRead">>, <<"eventWrite">>} =>
                      todo'[u] = todo[u] /\ arg'[u] = arg[u]

LEMMA CallChecks ==
    ASSUME TaskInv, NEW t, NEW k, NEW s, NEW x, Call(t, k, s, x),
           s \notin {<<"eventRead">>, <<"eventWrite">>}
    PROVE  ChecksGoOn
  BY DEF Call, ChecksGoOn, TaskInv, TaskTypeOK

LEMMA ContinueChecks ==
    ASSUME TaskInv, SafeInv, NEW t \in TCB, todo[t] # <<>>, NEW k, Continue(t, k)
    PROVE  ChecksGoOn
<1>1. todo[t] \in Rest /\ todo[t] \in Seq(Step)
  BY DEF SafeInv, TaskInv, TaskTypeOK
<1>2. Len(todo[t]) = 2 => todo[t][2] \in {"take", "joinReclaim", "result"}
  BY <1>1 DEF Rest
<1>3. Tail(todo[t]) \notin {<<"eventRead">>, <<"eventWrite">>}
  <2>1. SUFFICES ASSUME NEW f \in {"eventRead", "eventWrite"}, Tail(todo[t]) = <<f>> PROVE FALSE
    OBVIOUS
  <2>2. PICK q \in Seq(Step) : q = todo[t]
    BY <1>1
  <2>3. q # <<>> /\ Tail(q) = <<f>>
    BY <2>1, <2>2
  <2>4. Len(q) \in Nat /\ Len(q) # 0 /\ Len(Tail(q)) = Len(q) - 1
    BY <2>2, <2>3
  <2>5. Len(<<f>>) = 1 /\ <<f>>[1] = f
    OBVIOUS
  <2>6. Len(q) = 2
    BY <2>3, <2>4, <2>5
  <2>7. Tail(q)[1] = q[2]
    BY <2>2, <2>3, <2>6
  <2> QED BY <1>2, <2>1, <2>2, <2>3, <2>5, <2>6, <2>7
<1> QED BY <1>3, CallChecks DEF Continue

LEMMA StepChecks ==
    ASSUME TaskInv, SafeInv, NEW t \in TCB, TaskStep(t)
    PROVE  ChecksGoOn
<1>1. CASE OsRecycleFinishedTask(t) \/ TaskLock(t)
  BY <1>1 DEF OsRecycleFinishedTask, TaskLock, ChecksGoOn
<1>2. CASE TaskCreate(t)
  BY <1>2, CallChecks DEF TaskCreate
<1>3. CASE NothingToRecycle(t) \/ NoTcb(t) \/ Schedule(t) \/ NoStack(t) \/ JoinReclaim(t)
  <2>1. todo[t] # <<>> /\ \E k : Continue(t, k)
    BY <1>3 DEF NothingToRecycle, NoTcb, Schedule, NoStack, JoinReclaim, Doing
  <2> QED BY <2>1, ContinueChecks
<1>4. CASE TakeTcb(t)
  <2>1. PICK x \in Task : TcbTaken(t, x)
    BY <1>4, TakeTcbSafe
  <2> QED BY <2>1 DEF TcbTaken, ChecksGoOn
<1>5. CASE EnqueueNewTask(t)
  BY <1>5 DEF EnqueueNewTask, ChecksGoOn, TaskInv, TaskTypeOK
<1>6. CASE DeleteSelf(t)
  BY <1>6, CallChecks DEF DeleteSelf
<1>7. CASE TaskYield(t)
  BY <1>7, CallChecks DEF TaskYield
<1>8. CASE TaskUnlock(t)
  <2>1. (IF kernel.lock = 1 THEN <<"schedule">> ELSE <<>>) \notin {<<"eventRead">>, <<"eventWrite">>}
    OBVIOUS
  <2> QED BY <1>8, <2>1, CallChecks DEF TaskUnlock
<1>9. ASSUME NEW d \in Delay, TaskDelay(t, d) PROVE ChecksGoOn
  BY <1>9, CallChecks DEF TaskDelay
<1>10. ASSUME NEW x \in Task, NEW p \in CreatePrio, TaskPriSet(t, x, p) PROVE ChecksGoOn
  <2>1. \A b \in BOOLEAN : (IF b THEN <<"schedule">> ELSE <<>>) \notin {<<"eventRead">>, <<"eventWrite">>}
    OBVIOUS
  <2> QED BY <1>10, <2>1, CallChecks DEF TaskPriSet
<1>11. ASSUME NEW x \in Task, TaskResume(t, x) \/ TaskSuspend(t, x) PROVE ChecksGoOn
  <2>1. \A b \in BOOLEAN : (IF b THEN <<"schedule">> ELSE <<>>) \notin {<<"eventRead">>, <<"eventWrite">>}
    OBVIOUS
  <2> QED BY <1>11, <2>1, CallChecks DEF TaskResume, TaskSuspend
<1>12. ASSUME NEW x \in Task, TaskJoin(t, x) \/ TaskDetach(t, x) PROVE ChecksGoOn
  BY <1>12, CallChecks DEF TaskJoin, JoinPend, TaskDetach
<1>13. ASSUME NEW x \in Task, DeleteOther(t, x) PROVE ChecksGoOn
  BY <1>13 DEF DeleteOther, ChecksGoOn, TaskInv, TaskTypeOK
<1> QED BY <1>1, <1>2, <1>3, <1>4, <1>5, <1>6, <1>7, <1>8, <1>9, <1>10, <1>11, <1>12, <1>13 DEF TaskStep

LEMMA TaskChecks ==
    ASSUME TaskInv, SafeInv, TaskNext
    PROVE  ChecksGoOn
<1>1. CASE UNCHANGED <<todo, arg>>
  BY <1>1 DEF ChecksGoOn
<1>2. Start \/ PendSV \/ TimerStep \/ IsrStep => UNCHANGED <<todo, arg>>
  BY DEF Start, PendSV, TimerStep, IsrStep, TickStart, TickScan, TickEnd, SliceEnd,
         IsrTaskResume, IsrTaskSuspend
<1> QED BY <1>1, <1>2, StepChecks DEF TaskNext

-----------------------------------------------------------------------------
(* The invariant.                                                           *)

EventCBType == eventCB \in [Event -> [live : BOOLEAN, bits : SUBSET Bit]]

\* A call that reads says what it wants, and names an event.
WishInv ==
    /\ wish \in [TCB -> Wish]
    /\ \A t \in TCB : AtResult(t) \/ todo[t] = <<"eventRead">> => wish[t] \in Want /\ arg[t] \in Event

\* A call that has checked its event is a task's, and still finds it.
CheckedInv ==
    \A t \in TCB : todo[t] \in {<<"eventRead">>, <<"eventWrite">>} =>
                      t \in Task /\ arg[t] \in Event /\ eventCB[arg[t]].live

\* NoReaderForgotten, whatever the place in the list.
ReadersWait ==
    \A e \in Event, x \in Task :
       Contains(kernel.pend[e], x) => eventCB[e].live /\ ~Satisfied(eventCB[e].bits, wish[x])

EventPart == EventCBType /\ WishInv /\ CheckedInv /\ ReadersWait

EventInv == TaskInv /\ ObjInv /\ EventPart

LEMMA EventPlaces == ASSUME NEW e \in Event PROVE e \in WaitObj /\ e \in WaitList
  BY EventAssumption DEF WaitList

LEMMA EventInvIs ==
    ASSUME EventInv
    PROVE  TaskInv /\ ObjInv /\ SafeInv /\ EventPart /\ WellFormed(kernel)
  BY SafeKernel DEF EventInv, ObjInv

\* What it says of the readers is what NoReaderForgotten says.
LEMMA NobodyForgotten == EventInv => NoReaderForgotten
<1> SUFFICES ASSUME EventInv, NEW e \in Event, NEW i \in DOMAIN kernel.pend[e]
             PROVE  eventCB[e].live /\ ~Satisfied(eventCB[e].bits, wish[kernel.pend[e][i]])
  BY DEF NoReaderForgotten
<1>1. kernel.pend[e] \in Seq(Task)
  BY EventInvIs, EventPlaces DEF WellFormed, SchedState
<1>2. kernel.pend[e][i] \in Task /\ Contains(kernel.pend[e], kernel.pend[e][i])
  BY <1>1 DEF Contains
<1> QED BY <1>2 DEF EventInv, EventPart, ReadersWait

LEMMA EventTypes1 == EventInv => EventTypeOK
<1> SUFFICES ASSUME EventInv PROVE EventTypeOK
  OBVIOUS
<1>1. TaskTypeOK /\ EventCBType /\ wish \in [TCB -> Wish]
  BY DEF EventInv, EventPart, WishInv, TaskInv
<1>2. ASSUME NEW t \in TCB, NEW e \in Event, Contains(kernel.pend[e], t)
      PROVE  wish[t] \in Want /\ arg[t] = e
  <2>1. AtResult(t) /\ arg[t] = e
    BY <1>2, EventInvIs, EventPlaces, WaiterIs
  <2> QED BY <2>1 DEF EventInv, EventPart, WishInv
<1> QED BY <1>1, <1>2 DEF EventTypeOK, EventCBType

LEMMA SatisfiedLess ==
    ASSUME NEW w, NEW a, NEW b, a \subseteq b, ~Satisfied(b, w)
    PROVE  ~Satisfied(a, w)
  BY DEF Satisfied

LEMMA PollTakes ==
    ASSUME NEW w, NEW b
    PROVE  LOS_EventPoll(b, w) \subseteq b
  BY DEF LOS_EventPoll

LEMMA EventInitInv == EventInit => EventInv
<1> SUFFICES ASSUME EventInit PROVE EventInv
  OBVIOUS
<1>1. Init /\ eventCB = [e \in Event |-> [live |-> FALSE, bits |-> {}]] /\ wish = [t \in TCB |-> NoWish]
  BY DEF EventInit
<1>2. TaskInv /\ ObjInv
  BY <1>1, InitInv, InitControl, InitOutcome, InitSafe DEF ObjInv
<1>3. EventCBType
  BY <1>1 DEF EventCBType
<1>4. wish \in [TCB -> Wish]
  BY <1>1 DEF Wish, NoWish
<1>5. todo = [t \in TCB |-> <<>>] /\ \A o \in WaitList : kernel.pend[o] = <<>>
  BY <1>1 DEF Init
<1>6. WishInv /\ CheckedInv
  BY <1>4, <1>5 DEF WishInv, CheckedInv, AtResult
<1>7. ReadersWait
  BY <1>5, EventPlaces DEF ReadersWait, Contains
<1> QED BY <1>2, <1>3, <1>6, <1>7 DEF EventInv, EventPart

-----------------------------------------------------------------------------
(* What a step may change of the part of the events.                        *)

\* The call of t goes on, but not to a wait; no event is destroyed.
LEMMA CallerPart ==
    ASSUME EventInv, NEW t \in TCB,
           \A u \in TCB : u # t => todo'[u] = todo[u] /\ arg'[u] = arg[u] /\ wish'[u] = wish[u],
           wish' \in [TCB -> Wish], ~AtResult(t)', todo'[t] \notin {<<"eventRead">>, <<"eventWrite">>},
           \A e \in Event : eventCB[e].live => eventCB'[e].live
    PROVE  WishInv' /\ CheckedInv'
<1>1. EventPart
  BY EventInvIs
<1>2. \A u \in TCB : AtResult(u)' => u # t /\ AtResult(u)
  BY DEF AtResult
<1>3. WishInv'
  BY <1>1, <1>2 DEF EventPart, WishInv
<1>4. CheckedInv'
  BY <1>1 DEF EventPart, CheckedInv
<1> QED BY <1>3, <1>4

\* Nobody begins to wait, and no event gets bits.
LEMMA ReaderPart ==
    ASSUME EventInv,
           \A e \in Event, x \in Task :
              Contains(kernel'.pend[e], x) =>
                 /\ Contains(kernel.pend[e], x) /\ wish'[x] = wish[x]
                 /\ eventCB[e].live => eventCB'[e].live
                 /\ eventCB'[e].bits \subseteq eventCB[e].bits
    PROVE  ReadersWait'
<1> SUFFICES ASSUME NEW e \in Event, NEW x \in Task, Contains(kernel'.pend[e], x)
             PROVE  eventCB'[e].live /\ ~Satisfied(eventCB'[e].bits, wish'[x])
  BY DEF ReadersWait
<1>1. eventCB[e].live /\ ~Satisfied(eventCB[e].bits, wish[x])
  BY EventInvIs DEF EventPart, ReadersWait
<1>2. ~Satisfied(eventCB'[e].bits, wish[x])
  BY <1>1, SatisfiedLess
<1> QED BY <1>1, <1>2

-----------------------------------------------------------------------------
(* What the actions of los_event.c do to the tasks.                         *)

\* The calls of the tasks of T go on, to no wait; the tasks of W are woken, and nobody
\* else comes to a wait list or leaves one.
EventMoves(T, W) ==
    /\ TaskInv' /\ ObjInv' /\ Granting(T, W)
    /\ \A o \in WaitObj, x \in Task :
          Contains(kernel'.pend[o], x) <=> Contains(kernel.pend[o], x) /\ x \notin W

LEMMA NothingMoves ==
    ASSUME Unprotected = {}, EventInv, UNCHANGED taskVars
    PROVE  EventMoves({}, {})
<1>1. TaskInv /\ ObjInv
  BY EventInvIs
<1>2. TaskInv' /\ ObjInv'
  BY <1>1, StutterInv, TaskGoes
<1>3. kernel' = kernel /\ todo' = todo /\ arg' = arg
  BY DEF taskVars
<1>4. Granting({}, {})
  BY <1>3 DEF Granting, Grants, Granted, AtResult
<1> QED BY <1>2, <1>3, <1>4 DEF EventMoves

\* A call that moves no task goes on, or ends.
LEMMA WorkMoves ==
    ASSUME EventInv, NEW t \in TCB, Thread(t),
           \/ todo[t] = <<>>
           \/ todo[t] # <<>> /\ Head(todo[t]) \in {"eventRead", "eventWrite"}
           \/ todo[t] # <<>> /\ Head(todo[t]) = "result" /\ "TIMEOUT" \notin kernel.status[t],
           NEW s \in {<<>>, <<"eventRead">>, <<"eventWrite">>}, NEW a \in WaitObj \cup {NoArg},
           Call(t, kernel, s, a)
    PROVE  EventMoves({t}, {}) /\ todo'[t] = s /\ kernel' = kernel
<1>1. TaskInv /\ ObjInv /\ WellFormed(kernel)
  BY EventInvIs
<1>2. s \in Plain /\ s \in Seq(Step) /\ ~ObjectIsTask(s)
  <2>1. s \in Plain
    BY DEF Plain
  <2>2. CASE s = <<>>
    BY <2>1, <2>2 DEF ObjectIsTask
  <2>3. ASSUME NEW f \in {"eventRead", "eventWrite"}, s = <<f>> PROVE s \in Seq(Step) /\ ~ObjectIsTask(s)
    <3>1. f \in Step /\ DOMAIN <<f>> = {1} /\ <<f>>[1] = f
      BY DEF Step
    <3> QED BY <2>3, <3>1 DEF ObjectIsTask
  <2> QED BY <2>1, <2>2, <2>3
<1>3. ObjInv' /\ Grants({t}, {}) /\ todo'[t] = s
  BY <1>1, <1>2, WorkGoes
<1>4. TaskInv'
  BY <1>1, <1>2, CallKeeps, KeepsSelf DEF WaitList
<1>5. kernel' = kernel
  BY DEF Call
<1>6. ~AtResult(t)'
  BY <1>2, <1>3, PlainRest DEF AtResult, Plain
<1>7. Granting({t}, {})
  BY <1>3, <1>6 DEF Granting
<1> QED BY <1>3, <1>4, <1>5, <1>7 DEF EventMoves

\* A wait that has run out ends.
LEMMA TimeoutMoves ==
    ASSUME EventInv, NEW t \in TCB, Doing(t, "result"),
           Call(t, [kernel EXCEPT !.status[t] = @ \ {"TIMEOUT"}], <<>>, NoArg)
    PROVE  EventMoves({t}, {}) /\ todo'[t] = <<>> /\ kernel'.pend = kernel.pend
<1> DEFINE k == [kernel EXCEPT !.status[t] = kernel.status[t] \ {"TIMEOUT"}]
<1>1. TaskInv /\ ObjInv /\ WellFormed(kernel)
  BY EventInvIs
<1>2. <<>> \in Plain
  BY DEF Plain
<1>3. ObjInv' /\ Grants({t}, {}) /\ todo'[t] = <<>>
  BY <1>1, <1>2, TimeoutGoes
<1>4. Keeps(kernel, k)
  <2>1. Fits(t, kernel.status[t] \ {"TIMEOUT"})
    BY <1>1 DEF Fits, WellFormed, SpecialTasks, SchedState
  <2> QED BY <1>1, <2>1, StatusKeeps
<1>5. TaskInv'
  <2>1. Call(t, k, <<>>, NoArg)
    OBVIOUS
  <2> HIDE DEF k
  <2>2. <<>> \in Seq(Step) /\ ~ObjectIsTask(<<>>)
    BY DEF ObjectIsTask
  <2> QED BY <1>1, <1>4, <2>1, <2>2, CallKeeps
<1>6. kernel'.pend = kernel.pend
  BY <1>1 DEF Call, WellFormed, SchedState
<1>7. ~AtResult(t)'
  BY <1>3 DEF AtResult
<1>8. Granting({t}, {})
  BY <1>3, <1>7 DEF Granting
<1> QED BY <1>3, <1>5, <1>6, <1>8 DEF EventMoves

\* The tasks of W wait for the event and are woken.
LEMMA WroteMoves ==
    ASSUME EventInv, NEW e \in WaitObj, NEW T \in SUBSET TCB, NEW W, Wrote(e, T, W),
           \A u \in T : ~AtResult(u)'
    PROVE  EventMoves(T, W)
<1>1. Granting(T, W)
  BY DEF Wrote, Granting
<1>2. TaskInv' /\ ObjInv' /\ W \in SUBSET Task
  BY DEF Wrote
<1>3. ASSUME NEW o \in WaitObj, NEW x \in Task
      PROVE  Contains(kernel'.pend[o], x) <=> Contains(kernel.pend[o], x) /\ x \notin W
  <2>1. o \in WaitList
    BY DEF WaitList
  <2>2. /\ Contains(kernel.pend[o], x) <=> o \in Waits(kernel, x)
        /\ Contains(kernel'.pend[o], x) <=> o \in Waits(kernel', x)
    BY <2>1 DEF Waits
  <2>3. x \in W => Waits(kernel', x) = {}
    BY DEF Wrote
  <2>4. x \notin W => Waits(kernel', x) = Waits(kernel, x)
    BY DEF Wrote
  <2> QED BY <2>2, <2>3, <2>4
<1> QED BY <1>1, <1>2, <1>3 DEF EventMoves

LEMMA AwakenedWait ==
    ASSUME EventInv, NEW e \in Event, NEW events
    PROVE  WaitOn(e, Awakened(e, events)) /\ Woke(WakeAll(e, events), Awakened(e, events))
<1>1. TaskInv /\ SafeInv /\ WellFormed(kernel) /\ e \in WaitObj /\ e \in WaitList
  BY EventInvIs, EventPlaces
<1>2. kernel.pend[e] \in Seq(Task)
  BY <1>1 DEF WellFormed, SchedState
<1>3. \A u \in ToSet(kernel.pend[e]) : Contains(kernel.pend[e], u)
  BY <1>2 DEF ToSet, Contains
<1> QED BY <1>1, <1>3, WokenAll DEF WaitOn, Awakened

LEMMA WriteMoves ==
    ASSUME EventInv, NEW t \in TCB, WriteWakes(t)
    PROVE  /\ EventMoves({t}, Awakened(arg[t], wish[t].mask))
           /\ todo'[t] \in {<<>>, <<"schedule">>} /\ arg[t] \in Event /\ eventCB[arg[t]].live
<1>1. /\ Doing(t, "eventWrite") /\ todo[t] # <<>> /\ Head(todo[t]) = "eventWrite"
      /\ Call(t, WakeAll(arg[t], wish[t].mask),
              IF Awakened(arg[t], wish[t].mask) = {} THEN <<>> ELSE <<"schedule">>, NoArg)
  BY DEF WriteWakes, Doing
<1>2. TaskInv /\ ObjInv /\ SafeInv /\ CheckedInv
  BY EventInvIs DEF EventPart
<1>3. todo[t] = <<"eventWrite">>
  <2>1. todo[t] \in Rest
    BY <1>2 DEF SafeInv
  <2> QED BY <1>1, <2>1 DEF Rest
<1>4. arg[t] \in Event /\ eventCB[arg[t]].live
  BY <1>2, <1>3 DEF CheckedInv
<1>5. PICK W : W = Awakened(arg[t], wish[t].mask)
  OBVIOUS
<1>6. PICK m : m = WakeAll(arg[t], wish[t].mask)
  OBVIOUS
<1>7. PICK b \in BOOLEAN : b <=> W # {}
  OBVIOUS
<1>8. Call(t, m, IF b THEN <<"schedule">> ELSE <<>>, NoArg)
  BY <1>1, <1>5, <1>6, <1>7
<1>9. WaitOn(arg[t], W) /\ Woke(m, W) /\ arg[t] \in WaitObj
  BY <1>4, <1>5, <1>6, AwakenedWait, EventPlaces
<1>10. Wrote(arg[t], {t}, W) /\ todo'[t] \in {<<>>, <<"schedule">>}
  BY <1>1, <1>2, <1>8, <1>9, WokeGoes
<1>11. ~AtResult(t)'
  BY <1>10 DEF AtResult
<1>12. EventMoves({t}, W)
  BY <1>9, <1>10, <1>11, WroteMoves
<1> QED BY <1>4, <1>5, <1>10, <1>12

LEMMA IsrWriteMoves ==
    ASSUME Unprotected = {}, EventInv, NEW e \in Event, NEW events, IsrEventWrite(e, events)
    PROVE  EventMoves({}, Awakened(e, events))
<1>1. TaskInv /\ ObjInv /\ e \in WaitObj
  BY EventInvIs, EventPlaces
<1>2. CASE Awakened(e, events) = {}
  <2>1. UNCHANGED taskVars
    BY <1>2 DEF IsrEventWrite, taskVars
  <2> QED BY <1>2, <2>1, NothingMoves
<1>3. CASE Awakened(e, events) # {}
  <2>1. PICK W : W = Awakened(e, events)
    OBVIOUS
  <2>2. PICK m : m = WakeAll(e, events)
    OBVIOUS
  <2>3. kernel' = LOS_Schedule(m) /\ UNCHANGED <<todo, arg, handles>>
    BY <1>3, <2>2 DEF IsrEventWrite
  <2>4. WaitOn(e, W) /\ Woke(m, W)
    BY <2>1, <2>2, AwakenedWait
  <2>5. Wrote(e, {}, W)
    BY <1>1, <2>3, <2>4, IsrWokeGoes
  <2>6. EventMoves({}, W)
    BY <1>1, <2>5, WroteMoves
  <2> QED BY <2>1, <2>6
<1> QED BY <1>2, <1>3

-----------------------------------------------------------------------------
(* Every step preserves the invariant. *)

LEMMA TasksPart ==
    ASSUME Unprotected = {}, EventInv, TaskNext, Forget, UNCHANGED eventCB
    PROVE  EventInv'
<1>1. TaskInv /\ ObjInv /\ SafeInv /\ EventPart
  BY EventInvIs
<1>2. TaskInv' /\ ObjInv' /\ ResultsGoOn /\ ChecksGoOn
  BY <1>1, NextInv, TaskGoes, TaskChecks
<1>3. /\ wish' \in [TCB -> Wish]
      /\ \A t \in TCB : todo'[t] # <<>> => wish'[t] = wish[t]
  <2>1. NoWish \in Wish
    BY DEF NoWish, Wish
  <2> QED BY <1>1, <2>1 DEF Forget, EventPart, WishInv
<1>4. \A t \in TCB : AtResult(t)' => todo'[t] # <<>> /\ AtResult(t) /\ arg'[t] = arg[t]
  BY <1>2 DEF ResultsGoOn, AtResult
<1>5. WishInv'
  <2>1. ASSUME NEW t \in TCB, AtResult(t)' PROVE wish'[t] \in Want /\ arg'[t] \in Event
    BY <1>1, <1>3, <1>4, <2>1 DEF EventPart, WishInv
  <2>2. ASSUME NEW t \in TCB, todo'[t] = <<"eventRead">> PROVE wish'[t] \in Want /\ arg'[t] \in Event
    <3>1. todo'[t] # <<>>
      BY <2>2
    <3>2. todo[t] = <<"eventRead">> /\ arg'[t] = arg[t] /\ wish'[t] = wish[t]
      BY <1>2, <1>3, <2>2, <3>1 DEF ChecksGoOn
    <3> QED BY <1>1, <3>2 DEF EventPart, WishInv
  <2> QED BY <1>3, <2>1, <2>2 DEF WishInv
<1>6. CheckedInv'
  BY <1>1, <1>2 DEF EventPart, CheckedInv, ChecksGoOn
<1>7. EventCBType'
  BY <1>1 DEF EventPart, EventCBType
<1>8. ASSUME NEW e \in Event, NEW x \in Task, Contains(kernel'.pend[e], x)
      PROVE  Contains(kernel.pend[e], x) /\ wish'[x] = wish[x]
  <2>1. e \in WaitObj /\ x \in TCB
    BY EventPlaces DEF TCB
  <2>2. AtResult(x)'
    BY <1>2, <1>8, <2>1, CallersSplitNext DEF Split, CallersOn
  <2>3. kernel.pend[e] \in Seq(Task) /\ IsInjective(kernel.pend[e])
    BY <1>1, <2>1, CallersSplit DEF Split
  <2>4. SameOn(e) \/ \E z \in Task : CutOut(e, z)
    BY <1>1, <1>2, <2>1, TasksOn DEF LateAt, CutOff
  <2>5. ASSUME NEW z \in Task, CutOut(e, z) PROVE Contains(kernel.pend[e], x)
    BY <1>8, <2>3, <2>5, UnlinkOnce DEF CutOut, Unlink
  <2>6. Contains(kernel.pend[e], x)
    BY <1>8, <2>4, <2>5 DEF SameOn
  <2> QED BY <1>3, <1>4, <2>1, <2>2, <2>6
<1>9. ReadersWait'
  BY <1>8, ReaderPart
<1> QED BY <1>2, <1>5, <1>6, <1>7, <1>9 DEF EventInv, EventPart

\* The call of t goes on, and no event is destroyed or gets bits.
LEMMA CallPart ==
    ASSUME EventInv, NEW t \in TCB, EventMoves({t}, {}),
           todo'[t] \notin {<<"eventRead">>, <<"eventWrite">>},
           wish' = [wish EXCEPT ![t] = NoWish], EventCBType',
           \A e \in Event : /\ eventCB[e].live => eventCB'[e].live
                            /\ eventCB'[e].bits \subseteq eventCB[e].bits
    PROVE  EventInv'
<1>1. TaskInv' /\ ObjInv' /\ Granting({t}, {}) /\ EventPart /\ TaskInv /\ ObjInv
  BY EventInvIs DEF EventMoves
<1>2. wish' \in [TCB -> Wish] /\ \A u \in TCB : u # t => wish'[u] = wish[u]
  <2>1. NoWish \in Wish
    BY DEF NoWish, Wish
  <2> QED BY <1>1, <2>1 DEF EventPart, WishInv
<1>3. ~AtResult(t)' /\ \A u \in TCB : u # t => todo'[u] = todo[u] /\ arg'[u] = arg[u]
  BY <1>1 DEF Granting, Grants
<1>4. WishInv' /\ CheckedInv'
  BY <1>2, <1>3, CallerPart
<1>5. ASSUME NEW e \in Event, NEW x \in Task, Contains(kernel'.pend[e], x)
      PROVE  Contains(kernel.pend[e], x) /\ wish'[x] = wish[x]
  <2>1. e \in WaitObj /\ x \in TCB
    BY EventPlaces DEF TCB
  <2>2. AtResult(x)'
    BY <1>1, <1>5, <2>1, CallersSplitNext DEF Split, CallersOn
  <2>3. x # t
    BY <1>3, <2>2
  <2> QED BY <1>2, <1>5, <2>1, <2>3 DEF EventMoves
<1>6. ReadersWait'
  BY <1>5, ReaderPart
<1> QED BY <1>1, <1>4, <1>6 DEF EventInv, EventPart

\* The call of t polls its event and is over.
LEMMA PollPart ==
    ASSUME EventInv, NEW t \in TCB, arg[t] \in Event, EventMoves({t}, {}), todo'[t] = <<>>,
           wish' = [wish EXCEPT ![t] = NoWish],
           eventCB' = [eventCB EXCEPT ![arg[t]].bits = LOS_EventPoll(@, wish[t])]
    PROVE  EventInv'
<1>1. EventCBType
  BY EventInvIs DEF EventPart
<1>2. eventCB' = [eventCB EXCEPT ![arg[t]].bits = LOS_EventPoll(eventCB[arg[t]].bits, wish[t])]
  OBVIOUS
<1>3. PICK b : b = LOS_EventPoll(eventCB[arg[t]].bits, wish[t]) /\ b \subseteq eventCB[arg[t]].bits
  BY PollTakes
<1>4. EventCBType' /\ \A e \in Event : /\ eventCB[e].live => eventCB'[e].live
                                       /\ eventCB'[e].bits \subseteq eventCB[e].bits
  BY <1>1, <1>2, <1>3 DEF EventCBType
<1>5. todo'[t] \notin {<<"eventRead">>, <<"eventWrite">>}
  OBVIOUS
<1> QED BY <1>4, <1>5, CallPart

\* No call moves.
LEMMA ObjectPart ==
    ASSUME Unprotected = {}, EventInv, UNCHANGED taskVars, UNCHANGED wish, EventCBType', CheckedInv',
           \A e \in Event, x \in Task : Contains(kernel.pend[e], x) =>
                /\ eventCB[e].live => eventCB'[e].live
                /\ eventCB'[e].bits \subseteq eventCB[e].bits
    PROVE  EventInv'
<1>1. EventPart /\ TaskInv' /\ ObjInv'
  BY EventInvIs, NothingMoves DEF EventMoves
<1>2. kernel' = kernel /\ todo' = todo /\ arg' = arg
  BY DEF taskVars
<1>3. WishInv'
  BY <1>1, <1>2 DEF EventPart, WishInv, AtResult
<1>4. ReadersWait'
  BY <1>2, ReaderPart
<1> QED BY <1>1, <1>3, <1>4 DEF EventInv, EventPart

LEMMA InitPart ==
    ASSUME Unprotected = {}, EventInv, NEW t \in TCB, NEW e \in Event, LOS_EventInit(t, e)
    PROVE  EventInv'
<1>1. EventPart
  BY EventInvIs
<1>2. UNCHANGED taskVars /\ UNCHANGED wish /\ ~eventCB[e].live
  BY DEF LOS_EventInit
<1>3. EventCBType' /\ \A z \in Event : eventCB[z].live => eventCB'[z] = eventCB[z]
  BY <1>1, <1>2 DEF EventPart, EventCBType, LOS_EventInit
<1>4. CheckedInv'
  BY <1>1, <1>2, <1>3 DEF EventPart, CheckedInv, taskVars
<1>5. \A z \in Event, x \in Task : Contains(kernel.pend[z], x) => eventCB[z].live
  BY <1>1 DEF EventPart, ReadersWait
<1> QED BY <1>2, <1>3, <1>4, <1>5, ObjectPart

\* LOS_EventPoll in an interrupt, and LOS_EventClear.
LEMMA TakePart ==
    ASSUME Unprotected = {}, EventInv, NEW e \in Event, NEW b, b \subseteq eventCB[e].bits,
           eventCB' = [eventCB EXCEPT ![e].bits = b], UNCHANGED taskVars, UNCHANGED wish
    PROVE  EventInv'
<1>1. EventPart
  BY EventInvIs
<1>2. EventCBType' /\ \A z \in Event : /\ eventCB'[z].live = eventCB[z].live
                                       /\ eventCB'[z].bits \subseteq eventCB[z].bits
  BY <1>1 DEF EventPart, EventCBType
<1>3. CheckedInv'
  BY <1>1, <1>2 DEF EventPart, CheckedInv, taskVars
<1> QED BY <1>2, <1>3, ObjectPart

\* Nobody has checked an event that is destroyed, and nobody waits for it.
LEMMA DestroyPart ==
    ASSUME Unprotected = {}, EventInv, NEW t \in TCB, NEW e \in Event, EventDestroy(t, e)
    PROVE  EventInv'
<1>1. EventPart
  BY EventInvIs
<1>2. UNCHANGED taskVars /\ UNCHANGED wish /\ kernel.pend[e] = <<>> /\ \A u \in TCB : ~Checked(u, e)
  BY DEF EventDestroy
<1>3. EventCBType' /\ \A z \in Event \ {e} : eventCB'[z] = eventCB[z]
  BY <1>1 DEF EventPart, EventCBType, EventDestroy
<1>4. CheckedInv'
  BY <1>1, <1>2, <1>3 DEF EventPart, CheckedInv, taskVars, Checked
<1>5. \A x \in Task : ~Contains(kernel.pend[e], x)
  BY <1>2 DEF Contains
<1> QED BY <1>2, <1>3, <1>4, <1>5, ObjectPart

\* The checks of LOS_EventRead and LOS_EventWrite.
LEMMA BeginPart ==
    ASSUME EventInv, NEW t \in TCB, NEW call, App(t, call), NEW e \in Event, eventCB[e].live,
           NEW w \in Wish, wish' = [wish EXCEPT ![t] = w], UNCHANGED eventCB,
           NEW s \in {<<"eventRead">>, <<"eventWrite">>}, s = <<"eventRead">> => w \in Want,
           Call(t, kernel, s, e)
    PROVE  EventInv'
<1>1. EventPart /\ e \in WaitObj /\ Thread(t) /\ todo[t] = <<>> /\ TaskInv /\ t \in Task
  BY EventInvIs, EventPlaces DEF App
<1>2. EventMoves({t}, {}) /\ todo'[t] = s /\ kernel' = kernel
  BY <1>1, WorkMoves
<1>3. arg'[t] = e
  <2>1. arg' = [arg EXCEPT ![t] = IF s = <<>> THEN NoArg ELSE e]
    BY DEF Call
  <2>2. s # <<>>
    <3>1. PICK f : s = <<f>>
      OBVIOUS
    <3> QED BY <3>1
  <2> QED BY <1>1, <2>1, <2>2 DEF TaskInv, TaskTypeOK
<1>4. ~AtResult(t)' /\ \A u \in TCB : u # t => todo'[u] = todo[u] /\ arg'[u] = arg[u] /\ wish'[u] = wish[u]
  BY <1>1, <1>2 DEF EventMoves, Granting, Grants, EventPart, WishInv
<1>5. wish' \in [TCB -> Wish] /\ wish'[t] = w
  BY <1>1 DEF EventPart, WishInv
<1>6. WishInv'
  <2>1. \A u \in TCB : u # t /\ AtResult(u)' => AtResult(u)
    BY <1>4 DEF AtResult
  <2>2. ASSUME NEW u \in TCB, AtResult(u)' \/ todo'[u] = <<"eventRead">> PROVE wish'[u] \in Want /\ arg'[u] \in Event
    BY <1>1, <1>2, <1>3, <1>4, <1>5, <2>1, <2>2 DEF EventPart, WishInv
  <2> QED BY <1>5, <2>2 DEF WishInv
<1>7. CheckedInv'
  BY <1>1, <1>3, <1>4 DEF EventPart, CheckedInv
<1>8. EventCBType'
  BY <1>1 DEF EventPart, EventCBType
<1>9. ASSUME NEW z \in Event, NEW x \in Task, Contains(kernel'.pend[z], x)
      PROVE  Contains(kernel.pend[z], x) /\ wish'[x] = wish[x]
  <2>1. Contains(kernel.pend[z], x) /\ x \in TCB /\ z \in WaitObj
    BY <1>2, <1>9, EventPlaces DEF TCB
  <2>2. AtResult(x)
    BY <2>1, EventInvIs, WaiterIs
  <2>3. x # t
    BY <1>1, <2>2 DEF AtResult
  <2> QED BY <1>4, <2>1, <2>3
<1>10. ReadersWait'
  BY <1>9, ReaderPart
<1> QED BY <1>2, <1>6, <1>7, <1>8, <1>10 DEF EventMoves, EventInv, EventPart

\* What is known of a call that goes on.
LEMMA Rests ==
    ASSUME EventInv, NEW t \in TCB, NEW f \in {"eventRead", "eventWrite", "result"}, Doing(t, f)
    PROVE  /\ Thread(t) /\ todo[t] = <<f>> /\ todo[t] # <<>> /\ Head(todo[t]) = f
           /\ f = "result" => AtResult(t)
           /\ f # "result" => t \in Task /\ ~AtResult(t) /\ eventCB[arg[t]].live
           /\ f # "eventWrite" => wish[t] \in Want
           /\ arg[t] \in Event
<1>1. Thread(t) /\ todo[t] # <<>> /\ Head(todo[t]) = f /\ SafeInv /\ EventPart
  BY EventInvIs DEF Doing
<1>2. todo[t] = <<f>>
  <2>1. todo[t] \in Rest
    BY <1>1 DEF SafeInv
  <2> QED BY <1>1, <2>1 DEF Rest
<1>3. f = "result" => AtResult(t)
  BY <1>2 DEF AtResult
<1>4. f # "result" => ~AtResult(t) /\ todo[t] \in {<<"eventRead">>, <<"eventWrite">>}
  <2> SUFFICES ASSUME f # "result" PROVE ~AtResult(t) /\ todo[t] \in {<<"eventRead">>, <<"eventWrite">>}
    OBVIOUS
  <2>1. todo[t] \in {<<"eventRead">>, <<"eventWrite">>}
    BY <1>2
  <2> QED BY <1>1, <2>1 DEF AtResult
<1> QED BY <1>1, <1>2, <1>3, <1>4 DEF EventPart, WishInv, CheckedInv

LEMMA ReturnsPart ==
    ASSUME EventInv, NEW t \in TCB, ReadTakes(t) \/ ReadFails(t) \/ ReadResult(t)
    PROVE  EventInv' /\ EventMoves({t}, {})
<1>1. EventCBType
  BY EventInvIs DEF EventPart
<1>2. CASE ReadTakes(t)
  <2>1. Doing(t, "eventRead") /\ ReadReturns(t, kernel)
    BY <1>2 DEF ReadTakes
  <2>2. EventMoves({t}, {}) /\ todo'[t] = <<>> /\ arg[t] \in Event
    BY <2>1, Rests, WorkMoves DEF ReadReturns
  <2> QED BY <2>1, <2>2, PollPart DEF ReadReturns
<1>3. CASE ReadFails(t)
  <2>1. /\ Doing(t, "eventRead") /\ Call(t, kernel, <<>>, NoArg)
        /\ wish' = [wish EXCEPT ![t] = NoWish] /\ UNCHANGED eventCB
    BY <1>3 DEF ReadFails, ReadMustWait
  <2>2. EventMoves({t}, {}) /\ todo'[t] = <<>>
    BY <2>1, Rests, WorkMoves
  <2>3. EventCBType' /\ todo'[t] \notin {<<"eventRead">>, <<"eventWrite">>}
    BY <1>1, <2>1, <2>2 DEF EventCBType
  <2> QED BY <2>1, <2>2, <2>3, CallPart
<1>4. CASE ReadResult(t) /\ Has(kernel, t, {"TIMEOUT"})
  <2>1. /\ Doing(t, "result") /\ Call(t, [kernel EXCEPT !.status[t] = @ \ {"TIMEOUT"}], <<>>, NoArg)
        /\ wish' = [wish EXCEPT ![t] = NoWish] /\ UNCHANGED eventCB
    BY <1>4 DEF ReadResult
  <2>2. EventMoves({t}, {}) /\ todo'[t] = <<>>
    BY <2>1, TimeoutMoves
  <2>3. EventCBType' /\ todo'[t] \notin {<<"eventRead">>, <<"eventWrite">>}
    BY <1>1, <2>1, <2>2 DEF EventCBType
  <2> QED BY <2>1, <2>2, <2>3, CallPart
<1>5. CASE ReadResult(t) /\ ~Has(kernel, t, {"TIMEOUT"})
  <2>1. Doing(t, "result") /\ ReadReturns(t, kernel) /\ "TIMEOUT" \notin kernel.status[t]
    BY <1>5 DEF ReadResult, Has
  <2>2. EventMoves({t}, {}) /\ todo'[t] = <<>> /\ arg[t] \in Event
    BY <2>1, Rests, WorkMoves DEF ReadReturns
  <2> QED BY <2>1, <2>2, PollPart DEF ReadReturns
<1> QED BY <1>2, <1>3, <1>4, <1>5

\* A read waits at the end of the list.
ReadQueues(t) ==
    /\ TaskInv' /\ ObjInv' /\ Grants({t}, {}) /\ t \in Task /\ ~AtResult(t) /\ AtResult(t)'
    /\ todo'[t] = <<"schedule", "result">> /\ arg'[t] = arg[t] /\ arg[t] \in Event
    /\ wish[t] \in Want /\ ~Satisfied(eventCB[arg[t]].bits, wish[t]) /\ eventCB[arg[t]].live
    /\ kernel'.pend = [kernel.pend EXCEPT ![arg[t]] = Append(@, t)]

LEMMA WaitMoves ==
    ASSUME EventInv, NEW t \in TCB, NEW timeout \in EventTimeout, ReadWaits(t, timeout)
    PROVE  ReadQueues(t)
<1> DEFINE steps == <<"schedule", "result">>
<1>1. Doing(t, "eventRead") /\ ~Satisfied(eventCB[arg[t]].bits, wish[t]) /\ kernel.lock = 0
  BY DEF ReadWaits, ReadMustWait
<1>2. /\ t \in Task /\ Thread(t) /\ todo[t] = <<"eventRead">> /\ ~AtResult(t) /\ eventCB[arg[t]].live
      /\ wish[t] \in Want /\ arg[t] \in Event
  BY <1>1, Rests
<1>3. PICK k : k = OsSchedTaskWait(kernel, arg[t], timeout)
  OBVIOUS
<1>4. Call(t, k, steps, arg[t])
  BY <1>2, <1>3 DEF ReadWaits
<1>5. TaskInv /\ ObjInv /\ SafeInv /\ WellFormed(kernel)
  BY EventInvIs
<1>6. /\ t = kernel.run /\ arg[t] \in WaitObj /\ arg[t] \in WaitList
      /\ timeout \in (0 .. MaxDelay) \cup {NoTime}
  BY <1>2, EventPlaces, EventAssumption DEF Thread
<1>7. /\ ObjInv' /\ Grants({t}, {}) /\ todo'[t] = <<"schedule", "result">> /\ arg'[t] = arg[t]
  <2>1. AsBefore(kernel)
    BY <1>5, SelfAsBefore
  <2>2. PICK o : o = arg[t]
    OBVIOUS
  <2>3. Call(t, OsSchedTaskWait(kernel, o, timeout), <<"schedule", "result">>, o)
    BY <1>3, <1>4, <2>2
  <2>4. ObjInv' /\ Grants({t}, {}) /\ todo'[t] = <<"schedule", "result">> /\ arg'[t] = o
    BY <1>1, <1>2, <1>5, <1>6, <2>1, <2>2, <2>3, WaitGoes
  <2> QED BY <2>2, <2>4
<1>8. kernel' = k /\ WellFormed(k)
  <2>1. kernel.run \in Task
    BY <1>2, <1>6
  <2>2. WellFormed(OsSchedTaskWait(kernel, arg[t], timeout))
    BY <1>5, <1>6, <2>1, TaskWaitKeeps
  <2> QED BY <1>3, <1>4, <2>2 DEF Call
<1>9. kernel'.pend = [kernel.pend EXCEPT ![arg[t]] = Append(@, t)]
  BY <1>3, <1>5, <1>6, <1>8, WaitAppends
<1>10. steps \in Seq(Step) /\ ~ObjectIsTask(steps)
  BY DEF Step, ObjectIsTask
<1> HIDE DEF steps
<1>11. TaskInv'
  <2>1. /\ todo' = [todo EXCEPT ![t] = steps] /\ handles' = handles
        /\ arg' = [arg EXCEPT ![t] = IF steps = <<>> THEN NoArg ELSE arg[t]]
    BY <1>4 DEF Call
  <2>2. handles' \subseteq Task
    BY <1>5, <2>1 DEF TaskInv, TaskTypeOK
  <2> QED BY <1>5, <1>6, <1>8, <1>10, <2>1, <2>2, CallStep
<1> QED BY <1>1, <1>2, <1>6, <1>7, <1>9, <1>11 DEF ReadQueues, AtResult

LEMMA WaitsPart ==
    ASSUME EventInv, NEW t \in TCB, NEW timeout \in EventTimeout, ReadWaits(t, timeout)
    PROVE  EventInv'
<1>1. ReadQueues(t) /\ EventPart /\ TaskInv
  BY EventInvIs, WaitMoves
<1>2. UNCHANGED <<eventCB, wish>>
  BY DEF ReadWaits, eventVars
<1>3. \A u \in TCB : u # t => todo'[u] = todo[u] /\ arg'[u] = arg[u]
  BY <1>1 DEF ReadQueues, Grants
<1>4. WishInv'
  <2>1. \A u \in TCB : u # t /\ AtResult(u)' => AtResult(u)
    BY <1>3 DEF AtResult
  <2>2. ASSUME NEW u \in TCB, u # t, AtResult(u)' \/ todo'[u] = <<"eventRead">>
        PROVE  wish[u] \in Want /\ arg'[u] \in Event
    BY <1>1, <1>3, <2>1, <2>2 DEF EventPart, WishInv
  <2>3. wish[t] \in Want /\ arg'[t] \in Event
    BY <1>1 DEF ReadQueues
  <2> QED BY <1>1, <1>2, <2>2, <2>3 DEF EventPart, WishInv
<1>5. CheckedInv'
  <2>1. todo'[t] \notin {<<"eventRead">>, <<"eventWrite">>}
    <3>1. Len(<<"schedule", "result">>) = 2 /\ Len(<<"eventRead">>) = 1 /\ Len(<<"eventWrite">>) = 1
      OBVIOUS
    <3> QED BY <1>1, <3>1 DEF ReadQueues
  <2> QED BY <1>1, <1>2, <1>3, <2>1 DEF EventPart, CheckedInv
<1>6. EventCBType'
  BY <1>1, <1>2 DEF EventPart, EventCBType
<1>7. ReadersWait'
  <2>1. SUFFICES ASSUME NEW e \in Event, NEW x \in Task, Contains(kernel'.pend[e], x)
                 PROVE  eventCB[e].live /\ ~Satisfied(eventCB[e].bits, wish[x])
    BY <1>2 DEF ReadersWait
  <2>2. e \in WaitObj /\ kernel.pend[e] \in Seq(Task) /\ DOMAIN kernel.pend = WaitList /\ e \in WaitList
    BY EventInvIs, EventPlaces DEF WellFormed, SchedState
  <2>3. CASE Contains(kernel.pend[e], x)
    BY <1>1, <2>3 DEF EventPart, ReadersWait
  <2>4. CASE ~Contains(kernel.pend[e], x)
    <3>1. e = arg[t] /\ kernel'.pend[e] = Append(kernel.pend[e], t)
      BY <1>1, <2>1, <2>2, <2>4 DEF ReadQueues
    <3>2. x = t
      BY <1>1, <2>1, <2>2, <2>4, <3>1 DEF Contains, ReadQueues
    <3> QED BY <1>1, <3>1, <3>2 DEF ReadQueues
  <2> QED BY <2>3, <2>4
<1> QED BY <1>1, <1>4, <1>5, <1>6, <1>7 DEF ReadQueues, EventInv, EventPart

\* Who is not woken by a write is not satisfied by it either: the bits that were there
\* before were none of those that an OR reader wants.
LEMMA NotWoken ==
    ASSUME NEW w, NEW bits, NEW events, ~Satisfied(bits, w), ~WokenBy(w, events, bits \cup events)
    PROVE  ~Satisfied(bits \cup events, w)
  BY DEF Satisfied, WokenBy

\* A write of events on e, by the task t or an interrupt.
LEMMA WritePart ==
    ASSUME EventInv, NEW T, NEW e \in Event, NEW events \in SUBSET Bit,
           EventMoves(T, Awakened(e, events)), eventCB[e].live,
           eventCB' = [eventCB EXCEPT ![e].bits = @ \cup events],
           wish' \in [TCB -> Wish], \A u \in TCB : u \notin T => wish'[u] = wish[u],
           \A u \in T : todo'[u] \notin {<<"eventRead">>, <<"eventWrite">>}
    PROVE  EventInv'
<1>1. EventPart /\ TaskInv /\ ObjInv
  BY EventInvIs
<1>2. EventCBType' /\ \A z \in Event : /\ eventCB'[z].live = eventCB[z].live
                                       /\ eventCB'[z].bits = IF z = e THEN eventCB[z].bits \cup events ELSE eventCB[z].bits
  BY <1>1 DEF EventPart, EventCBType
<1>3. /\ \A u \in T : ~AtResult(u)'
      /\ \A u \in TCB : u \notin T => todo'[u] = todo[u] /\ arg'[u] = arg[u]
  BY DEF EventMoves, Granting, Grants
<1>4. WishInv'
  <2>1. ASSUME NEW u \in TCB, AtResult(u)' \/ todo'[u] = <<"eventRead">>
        PROVE  wish'[u] \in Want /\ arg'[u] \in Event
    <3>1. u \notin T
      BY <1>3, <2>1
    <3>2. AtResult(u)' => AtResult(u)
      BY <1>3, <3>1 DEF AtResult
    <3> QED BY <1>1, <1>3, <2>1, <3>1, <3>2 DEF EventPart, WishInv
  <2> QED BY <2>1 DEF WishInv
<1>5. CheckedInv'
  BY <1>1, <1>2, <1>3 DEF EventPart, CheckedInv
<1>6. ReadersWait'
  <2>1. SUFFICES ASSUME NEW z \in Event, NEW x \in Task, Contains(kernel'.pend[z], x)
                 PROVE  eventCB'[z].live /\ ~Satisfied(eventCB'[z].bits, wish'[x])
    BY DEF ReadersWait
  <2>2. z \in WaitObj /\ z \in WaitList /\ x \in TCB /\ kernel.pend[z] \in Seq(Task)
    BY EventInvIs, EventPlaces DEF TCB, WellFormed, SchedState
  <2>3. Contains(kernel.pend[z], x) /\ x \notin Awakened(e, events)
    BY <2>1, <2>2 DEF EventMoves
  <2>4. eventCB[z].live /\ ~Satisfied(eventCB[z].bits, wish[x])
    BY <1>1, <2>3 DEF EventPart, ReadersWait
  <2>5. x \notin T
    <3>1. AtResult(x)'
      BY <2>1, <2>2, CallersSplitNext DEF EventMoves, Split, CallersOn
    <3> QED BY <1>3, <3>1
  <2>6. wish'[x] = wish[x]
    BY <2>2, <2>5
  <2>7. CASE z # e
    BY <1>2, <2>4, <2>6, <2>7
  <2>8. CASE z = e
    <3>1. x \in ToSet(kernel.pend[e])
      BY <2>2, <2>3, <2>8 DEF ToSet, Contains
    <3>2. ~WokenBy(wish[x], events, eventCB[e].bits \cup events)
      BY <2>3, <3>1 DEF Awakened
    <3>3. ~Satisfied(eventCB[e].bits \cup events, wish[x])
      BY <2>4, <2>8, <3>2, NotWoken
    <3> QED BY <1>2, <2>4, <2>6, <2>8, <3>3
  <2> QED BY <2>7, <2>8
<1> QED BY <1>2, <1>4, <1>5, <1>6 DEF EventMoves, EventInv, EventPart

LEMMA StepPart ==
    ASSUME Unprotected = {}, EventInv, NEW t \in TCB, EventStep(t)
    PROVE  EventInv'
<1>1. CASE ReadTakes(t) \/ ReadFails(t) \/ ReadResult(t)
  BY <1>1, ReturnsPart
<1>2. CASE WriteWakes(t)
  <2>1. /\ EventMoves({t}, Awakened(arg[t], wish[t].mask))
        /\ todo'[t] \in {<<>>, <<"schedule">>} /\ arg[t] \in Event /\ eventCB[arg[t]].live
    BY <1>2, WriteMoves
  <2>2. wish[t].mask \in SUBSET Bit
    BY EventInvIs DEF EventPart, WishInv, Wish
  <2>3. /\ eventCB' = [eventCB EXCEPT ![arg[t]].bits = @ \cup wish[t].mask]
        /\ wish' = [wish EXCEPT ![t] = NoWish]
    BY <1>2 DEF WriteWakes
  <2>4. wish' \in [TCB -> Wish] /\ \A u \in TCB : u \notin {t} => wish'[u] = wish[u]
    <3>1. NoWish \in Wish
      BY DEF NoWish, Wish
    <3> QED BY <2>3, <3>1, EventInvIs DEF EventPart, WishInv
  <2>5. todo'[t] \notin {<<"eventRead">>, <<"eventWrite">>}
    <3>1. <<"schedule">> \notin {<<"eventRead">>, <<"eventWrite">>} /\ <<>> \notin {<<"eventRead">>, <<"eventWrite">>}
      OBVIOUS
    <3> QED BY <2>1, <3>1
  <2>6. PICK T : T = {t}
    OBVIOUS
  <2>7. \A u \in T : todo'[u] \notin {<<"eventRead">>, <<"eventWrite">>}
    BY <2>5, <2>6
  <2>8. EventMoves(T, Awakened(arg[t], wish[t].mask)) /\ \A u \in TCB : u \notin T => wish'[u] = wish[u]
    BY <2>1, <2>4, <2>6
  <2> QED BY <2>1, <2>2, <2>3, <2>4, <2>7, <2>8, WritePart
<1>3. ASSUME NEW timeout \in EventTimeout, ReadWaits(t, timeout) PROVE EventInv'
  BY <1>3, WaitsPart
<1>4. ASSUME NEW e \in Event, LOS_EventInit(t, e) \/ EventDestroy(t, e) PROVE EventInv'
  BY <1>4, InitPart, DestroyPart
<1>5. ASSUME NEW e \in Event, NEW w \in Want, EventRead(t, e, w) PROVE EventInv'
  <2>1. w \in Wish
    BY EventAssumption
  <2> QED BY <1>5, <2>1, BeginPart DEF EventRead
<1>6. ASSUME NEW e \in Event, NEW events \in SUBSET Bit, EventWrite(t, e, events) PROVE EventInv'
  <2>1. PICK w : w = [wish[t] EXCEPT !.mask = events]
    OBVIOUS
  <2>2. wish[t] \in Wish
    BY EventInvIs DEF EventPart, WishInv
  <2>3. w \in Wish
    BY <2>1, <2>2 DEF Wish
  <2>4. wish' = [wish EXCEPT ![t] = w]
    BY <1>6, <2>1 DEF EventWrite
  <2>5. <<"eventWrite">> # <<"eventRead">>
    OBVIOUS
  <2> QED BY <1>6, <2>3, <2>4, <2>5, BeginPart DEF EventWrite
<1>7. ASSUME NEW e \in Event, NEW keep \in SUBSET Bit, EventClear(t, e, keep) PROVE EventInv'
  <2>1. PICK b : b = eventCB[e].bits \cap keep
    OBVIOUS
  <2>2. b \subseteq eventCB[e].bits /\ eventCB' = [eventCB EXCEPT ![e].bits = b]
    BY <1>7, <2>1 DEF EventClear
  <2>3. UNCHANGED taskVars /\ UNCHANGED wish
    BY <1>7 DEF EventClear
  <2> QED BY <2>2, <2>3, TakePart
<1> QED BY <1>1, <1>2, <1>3, <1>4, <1>5, <1>6, <1>7 DEF EventStep

LEMMA EventNextInv ==
    ASSUME Unprotected = {}, EventInv, [EventNext]_allEventVars
    PROVE  EventInv'
<1>1. CASE TaskNext /\ Forget /\ UNCHANGED eventCB
  BY <1>1, TasksPart
<1>2. ASSUME NEW t \in TCB, EventStep(t) PROVE EventInv'
  BY <1>2, StepPart
<1>3. ASSUME NEW e \in Event, NEW w \in Want, IsrEventPoll(e, w) PROVE EventInv'
  <2>1. PICK b : b = LOS_EventPoll(eventCB[e].bits, w)
    OBVIOUS
  <2>2. b \subseteq eventCB[e].bits
    BY <2>1, PollTakes
  <2>3. eventCB' = [eventCB EXCEPT ![e].bits = b] /\ UNCHANGED taskVars /\ UNCHANGED wish
    BY <1>3, <2>1 DEF IsrEventPoll
  <2> QED BY <2>2, <2>3, TakePart
<1>4. ASSUME NEW e \in Event, NEW events \in SUBSET Bit, IsrEventWrite(e, events) PROVE EventInv'
  <2>1. EventMoves({}, Awakened(e, events))
    BY <1>4, IsrWriteMoves
  <2>2. wish' = wish /\ wish \in [TCB -> Wish]
    BY <1>4, EventInvIs DEF IsrEventWrite, EventPart, WishInv
  <2>3. eventCB[e].live /\ eventCB' = [eventCB EXCEPT ![e].bits = @ \cup events]
    BY <1>4 DEF IsrEventWrite
  <2>4. PICK T : T = {}
    OBVIOUS
  <2>5. /\ EventMoves(T, Awakened(e, events)) /\ wish' \in [TCB -> Wish]
        /\ \A u \in TCB : u \notin T => wish'[u] = wish[u]
        /\ \A u \in T : todo'[u] \notin {<<"eventRead">>, <<"eventWrite">>}
    BY <2>1, <2>2, <2>4
  <2> QED BY <2>3, <2>5, WritePart
<1>5. CASE UNCHANGED allEventVars
  <2>1. UNCHANGED taskVars /\ eventCB' = eventCB /\ wish' = wish
    BY <1>5 DEF allEventVars, taskVars
  <2>2. EventPart
    BY EventInvIs
  <2>3. EventCBType' /\ CheckedInv'
    BY <2>1, <2>2 DEF EventPart, EventCBType, CheckedInv, taskVars
  <2> QED BY <2>1, <2>3, ObjectPart
<1> QED BY <1>1, <1>2, <1>3, <1>4, <1>5 DEF EventNext

\* Whatever comes between the two steps of a call, every variable keeps its type; a
\* task waits for the event that its call names, for bits that it asked for.
THEOREM EventTypes ==
    ASSUME Unprotected = {}
    PROVE  EventSpec => []EventTypeOK
<1>1. EventInv /\ [EventNext]_allEventVars => EventInv'
  BY EventNextInv
<1> QED BY <1>1, EventInitInv, EventTypes1, PTL DEF EventSpec

\* Semaphores or events, whichever a behaviour of MCIpc has: tasks and objects keep
\* their types.
THEOREM IpcTypes ==
    ASSUME Unprotected = {}
    PROVE  IpcSpec => []IpcTypeOK
<1> DEFINE Inv == kind \in {"sem", "event"} /\ (IF kind = "sem" THEN SemInv ELSE EventInv)
<1>1. IpcInit => Inv
  BY SemInitInv, EventInitInv DEF IpcInit
<1>2. Inv /\ [IpcNext]_ipcVars => Inv'
  <2> SUFFICES ASSUME Inv, [IpcNext]_ipcVars PROVE Inv'
    OBVIOUS
  <2>1. kind' = kind
    BY DEF IpcNext, ipcVars
  <2>2. CASE kind = "sem"
    <3>1. [SemNext]_allSemVars
      BY <2>2 DEF IpcNext, ipcVars, allSemVars
    <3> QED BY <2>1, <2>2, <3>1, SemNextInv
  <2>3. CASE kind = "event"
    <3>1. [EventNext]_allEventVars
      BY <2>3 DEF IpcNext, ipcVars, allSemVars, eventVars, allEventVars
    <3> QED BY <2>1, <2>3, <3>1, EventNextInv
  <2> QED BY <2>2, <2>3
<1>3. Inv => IpcTypeOK
  <2>1. SemInv => SemTypeOK
    BY DEF SemInv, SemCBType, SemTypeOK, TaskInv
  <2> QED BY <2>1, EventTypes1 DEF IpcTypeOK
<1> QED BY <1>1, <1>2, <1>3, PTL DEF IpcSpec

\* No write is lost: whoever waits for an event waits for bits that it does not have,
\* whatever is written between a poll and the wait, and the event is not destroyed.
THEOREM NoReaderIsForgotten ==
    ASSUME Unprotected = {}
    PROVE  EventSpec => []NoReaderForgotten
<1>1. EventInv /\ [EventNext]_allEventVars => EventInv'
  BY EventNextInv
<1> QED BY <1>1, EventInitInv, NobodyForgotten, PTL DEF EventSpec

-----------------------------------------------------------------------------
(* Who runs has the highest priority: each call on a semaphore or an event *)
(* that wakes somebody goes on to ask for a switch, and the others make    *)
(* nobody ready.                                                           *)

\* The objects' own steps begin where no switch is asked for.
LEMMA SemRanked ==
    ASSUME SemRefInv, Ranked, NEW t \in TCB, SemStep(t)
    PROVE  Ranked'
<1>0. TaskInv /\ SafeInv /\ WellFormed(kernel) /\ kernel \in SchedState
  BY SemParts, InvWellFormed DEF WellFormed
<1>1. /\ <<"schedule">> \in Simple /\ <<"schedule", "result">> \in Simple /\ <<>> \in Simple
      /\ Head(<<"schedule">>) = "schedule" /\ <<"schedule">> # <<>>
      /\ Head(<<"schedule", "result">>) = "schedule" /\ <<"schedule", "result">> # <<>>
  BY DEF Simple, Plain
<1>2. ASSUME NEW m \in Limit, NEW c \in 0 .. m, OsSemCreate(t, c, m) PROVE Ranked'
  BY <1>2, SameRanked DEF OsSemCreate, taskVars
<1>3. ASSUME NEW s \in Sem, SemDelete(t, s) \/ SemTake(t, s) PROVE Ranked'
  BY <1>3, SameRanked DEF SemDelete, SemTake, taskVars
<1>4. ASSUME NEW s \in Sem, SemPost(t, s) PROVE Ranked'
  <2>1. Thread(t) /\ todo[t] = <<>> /\ t = kernel.run
    BY <1>4, SemCaller DEF SemPost
  <2>2. CASE SemPostWakes(s) /\ Call(t, Woken(s), <<"schedule">>, NoArg)
    <3>1. Woken(s).run = t
      <4>1. kernel.pend[s] \in Seq(Task) /\ kernel.pend[s] # <<>>
        BY <1>0, <2>2, SemAssumption DEF SemPostWakes, SchedState, WaitList
      <4>2. Head(kernel.pend[s]) \in Task
        BY <4>1
      <4> QED BY <1>0, <2>1, <4>2, TaskWakeControl DEF Woken, SameControl
    <3> QED BY <1>0, <1>1, <2>1, <2>2, <3>1, CallRanked
  <2>3. CASE UNCHANGED taskVars
    BY <2>3, SameRanked DEF taskVars
  <2> QED BY <1>4, <2>2, <2>3 DEF SemPost
<1>5. ASSUME NEW s \in Sem, NEW timeout \in Timeout, SemWait(t, s, timeout) PROVE Ranked'
  <2>1. Thread(t) /\ todo[t] = <<>> /\ t = kernel.run
    BY <1>5, SemCaller DEF SemWait
  <2>2. PICK k : k = OsSchedTaskWait(kernel, s, timeout)
    OBVIOUS
  <2>3. Call(t, k, <<"schedule", "result">>, s) /\ k.run = t
    BY <1>0, <1>5, <2>1, <2>2, OwnControl DEF SemWait, SameControl
  <2> QED BY <1>0, <1>1, <2>1, <2>3, CallRanked
<1>6. CASE SemResult(t)
  <2>1. /\ Thread(t) /\ todo[t] # <<>> /\ Head(todo[t]) = "result"
        /\ Call(t, [kernel EXCEPT !.status[t] = @ \ {"TIMEOUT"}], Tail(todo[t]), arg[t])
    BY <1>6 DEF SemResult, Continue, Doing
  <2>2. PICK S : S = kernel.status[t] \ {"TIMEOUT"}
    OBVIOUS
  <2>3. PICK k : k = [kernel EXCEPT !.status[t] = S]
    OBVIOUS
  <2>4. Calm(kernel, k) /\ Call(t, k, Tail(todo[t]), arg[t])
    BY <1>0, <2>1, <2>2, <2>3, CalmLists
  <2>5. Tail(todo[t]) \in Simple
    BY <2>1, SimpleRest DEF Ranked, JoinFree
  <2> QED BY <1>0, <2>1, <2>4, <2>5, CallRanked
<1> QED BY <1>2, <1>3, <1>4, <1>5, <1>6 DEF SemStep

LEMMA SemNextRanked ==
    ASSUME Unprotected = {}, "join" \notin Calls, SemRefInv, Ranked, [SemNext]_allSemVars
    PROVE  Ranked'
<1>0. TaskInv /\ ObjInv /\ SafeInv /\ ControlInv /\ WellFormed(kernel) /\ kernel \in SchedState
  BY SemParts, InvWellFormed DEF ObjInv, WellFormed
<1>1. CASE TaskNext
  BY <1>0, <1>1, TasksRank
<1>2. ASSUME NEW t \in TCB, SemStep(t) PROVE Ranked'
  BY <1>2, SemRanked
<1>3. ASSUME NEW s \in Sem, IsrSemPost(s) PROVE Ranked'
  <2>1. CASE SemPostWakes(s) /\ kernel' = LOS_Schedule(Woken(s))
    <3>1. Keeps(kernel, Woken(s))
      BY <2>1, WokenKeeps, SemParts
    <3>2. kernel.pend[s] \in Seq(Task) /\ kernel.pend[s] # <<>>
      BY <1>0, <2>1, SemAssumption DEF SemPostWakes, SchedState, WaitList
    <3>3. Head(kernel.pend[s]) \in Task
      BY <3>2
    <3>4. WellFormed(Woken(s)) /\ SameControl(kernel, Woken(s))
      BY <1>0, <3>1, <3>3, KeepsWellFormed, TaskWakeControl DEF Woken
    <3> QED BY <1>0, <1>3, <2>1, <3>4, AskRanked DEF IsrSemPost
  <2>2. CASE UNCHANGED kernel
    BY <1>3, <2>2, SameRanked DEF IsrSemPost
  <2> QED BY <1>3, <2>1, <2>2 DEF IsrSemPost
<1>4. CASE UNCHANGED allSemVars
  BY <1>4, SameRanked DEF allSemVars
<1> QED BY <1>1, <1>2, <1>3, <1>4 DEF SemNext

LEMMA EventRanked ==
    ASSUME EventInv, Ranked, NEW t \in TCB, EventStep(t)
    PROVE  Ranked'
<1>0. TaskInv /\ SafeInv /\ WellFormed(kernel) /\ kernel \in SchedState
  BY EventInvIs DEF WellFormed
<1>1. /\ <<"schedule">> \in Simple /\ <<"schedule", "result">> \in Simple /\ <<>> \in Simple
      /\ <<"eventRead">> \in Simple /\ <<"eventWrite">> \in Simple
      /\ Head(<<"schedule">>) = "schedule" /\ <<"schedule">> # <<>>
      /\ Head(<<"schedule", "result">>) = "schedule" /\ <<"schedule", "result">> # <<>>
  BY DEF Simple, Plain
<1>2. ASSUME NEW f \in {"eventRead", "eventWrite", "result"}, Doing(t, f)
      PROVE  Thread(t) /\ todo[t] # <<>> /\ Head(todo[t]) # "schedule" /\ t = kernel.run
  BY <1>2 DEF Doing, Thread
<1>3. ASSUME Thread(t), todo[t] = <<>> \/ Head(todo[t]) # "schedule",
             NEW s \in Simple, NEW a, Call(t, kernel, s, a)
      PROVE  Ranked'
  BY <1>0, <1>3, CalmSelf, CallRanked
<1>4. CASE ReadTakes(t) \/ ReadFails(t)
  <2>1. Call(t, kernel, <<>>, NoArg) /\ Doing(t, "eventRead")
    BY <1>4 DEF ReadTakes, ReadFails, ReadMustWait, ReadReturns
  <2> QED BY <1>1, <1>2, <1>3, <2>1
<1>5. CASE ReadResult(t)
  <2>1. Doing(t, "result")
    BY <1>5 DEF ReadResult
  <2>2. CASE Call(t, kernel, <<>>, NoArg)
    BY <1>1, <1>2, <1>3, <2>1, <2>2
  <2>3. CASE Call(t, [kernel EXCEPT !.status[t] = @ \ {"TIMEOUT"}], <<>>, NoArg)
    <3>1. PICK S : S = kernel.status[t] \ {"TIMEOUT"}
      OBVIOUS
    <3>2. PICK k : k = [kernel EXCEPT !.status[t] = S]
      OBVIOUS
    <3>3. Calm(kernel, k) /\ Call(t, k, <<>>, NoArg)
      BY <1>0, <2>3, <3>1, <3>2, CalmLists
    <3> QED BY <1>0, <1>1, <1>2, <2>1, <3>3, CallRanked
  <2> QED BY <1>5, <2>2, <2>3 DEF ReadResult, ReadReturns
<1>6. CASE WriteWakes(t)
  <2>1. Doing(t, "eventWrite") /\ arg[t] \in WaitObj
    BY <1>6, WriteMoves, EventPlaces DEF WriteWakes
  <2>2. PICK W : W = Awakened(arg[t], wish[t].mask)
    OBVIOUS
  <2>3. PICK m : m = WakeAll(arg[t], wish[t].mask)
    OBVIOUS
  <2>4. Woke(m, W)
    BY <1>0, <2>1, <2>2, <2>3, WokenAll
  <2>5. m.run = t
    BY <1>2, <2>1, <2>4 DEF Woke, SameControl
  <2>6. CASE W # {}
    <3>1. Call(t, m, <<"schedule">>, NoArg)
      BY <1>6, <2>2, <2>3, <2>6 DEF WriteWakes
    <3> QED BY <1>0, <1>1, <1>2, <2>1, <2>5, <3>1, CallRanked
  <2>7. CASE W = {}
    <3>1. m = kernel
      BY <1>0, <2>1, <2>2, <2>3, <2>7, NobodyWoken
    <3>2. Call(t, kernel, <<>>, NoArg)
      BY <1>6, <2>2, <2>3, <2>7, <3>1 DEF WriteWakes
    <3> QED BY <1>1, <1>2, <1>3, <2>1, <3>2
  <2> QED BY <2>6, <2>7
<1>7. ASSUME NEW timeout \in EventTimeout, ReadWaits(t, timeout) PROVE Ranked'
  <2>1. Doing(t, "eventRead") /\ eventCB[arg[t]].live
    BY <1>7, Rests DEF ReadWaits, ReadMustWait
  <2>2. PICK k : k = OsSchedTaskWait(kernel, arg[t], timeout)
    OBVIOUS
  <2>3. Call(t, k, <<"schedule", "result">>, arg[t]) /\ k.run = t
    BY <1>0, <1>2, <1>7, <2>1, <2>2, OwnControl DEF ReadWaits, SameControl
  <2> QED BY <1>0, <1>1, <1>2, <2>1, <2>3, CallRanked
<1>8. ASSUME NEW e \in Event,
             \/ LOS_EventInit(t, e) \/ EventDestroy(t, e)
             \/ \E keep \in SUBSET Bit : EventClear(t, e, keep)
      PROVE  Ranked'
  BY <1>8, SameRanked DEF LOS_EventInit, EventDestroy, EventClear, taskVars
<1>9. ASSUME NEW e \in Event,
             \/ \E w \in Want : EventRead(t, e, w)
             \/ \E events \in SUBSET Bit : EventWrite(t, e, events)
      PROVE  Ranked'
  <2>1. /\ Thread(t) /\ todo[t] = <<>>
        /\ Call(t, kernel, <<"eventRead">>, e) \/ Call(t, kernel, <<"eventWrite">>, e)
    BY <1>9 DEF EventRead, EventWrite, App
  <2> QED BY <1>1, <1>3, <2>1
<1> QED BY <1>4, <1>5, <1>6, <1>7, <1>8, <1>9 DEF EventStep

LEMMA EventNextRanked ==
    ASSUME Unprotected = {}, "join" \notin Calls, EventInv, Ranked, [EventNext]_allEventVars
    PROVE  Ranked'
<1>0. TaskInv /\ SafeInv /\ ControlInv /\ WellFormed(kernel)
  BY EventInvIs DEF ObjInv
<1>1. CASE TaskNext
  BY <1>0, <1>1, TasksRank
<1>2. ASSUME NEW t \in TCB, EventStep(t) PROVE Ranked'
  BY <1>2, EventRanked
<1>3. ASSUME NEW e \in Event, NEW events, IsrEventWrite(e, events) PROVE Ranked'
  <2>1. todo' = todo /\ e \in WaitObj
    BY <1>3, EventPlaces DEF IsrEventWrite
  <2>2. CASE kernel' = kernel
    BY <2>1, <2>2, SameRanked
  <2>3. CASE kernel' = LOS_Schedule(WakeAll(e, events))
    <3>1. PICK m : m = WakeAll(e, events)
      OBVIOUS
    <3>2. WellFormed(m) /\ SameControl(kernel, m)
      BY <1>0, <2>1, <3>1, WokenAll DEF Woke, Keeps
    <3> QED BY <1>0, <2>1, <2>3, <3>1, <3>2, AskRanked
  <2> QED BY <1>3, <2>2, <2>3 DEF IsrEventWrite
<1>4. ASSUME NEW e \in Event, NEW w, IsrEventPoll(e, w) PROVE Ranked'
  BY <1>4, SameRanked DEF IsrEventPoll, taskVars
<1>5. CASE UNCHANGED allEventVars
  BY <1>5, SameRanked DEF allEventVars
<1> QED BY <1>1, <1>2, <1>3, <1>4, <1>5 DEF EventNext

\* With semaphores or with events: as long as application code runs with the
\* scheduler unlocked no ready task has a higher priority. No post, write or wait
\* forgets to schedule, nor does a timeout or an interrupt between a call's steps.
THEOREM HighestPriorityRunsIpc ==
    ASSUME Unprotected = {}, "join" \notin Calls
    PROVE  IpcSpec => []HighestPriorityRuns
<1> DEFINE Inv == /\ kind \in {"sem", "event"} /\ Ranked
                  /\ IF kind = "sem" THEN SemRefInv ELSE EventInv
<1>1. IpcInit => Inv
  <2>1. SemInit => Ranked
    BY InitRank DEF SemInit
  <2> QED BY <2>1, SemStarts, EventInitInv DEF IpcInit
<1>2. Inv /\ [IpcNext]_ipcVars => Inv'
  <2> SUFFICES ASSUME Inv, [IpcNext]_ipcVars PROVE Inv'
    OBVIOUS
  <2>1. kind' = kind
    BY DEF IpcNext, ipcVars
  <2>2. CASE kind = "sem"
    <3>1. [SemNext]_allSemVars
      BY <2>2 DEF IpcNext, ipcVars, allSemVars
    <3> QED BY <2>1, <2>2, <3>1, SemRefNext, SemNextRanked
  <2>3. CASE kind = "event"
    <3>1. [EventNext]_allEventVars
      BY <2>3 DEF IpcNext, ipcVars, allSemVars, eventVars, allEventVars
    <3> QED BY <2>1, <2>3, <3>1, EventNextInv, EventNextRanked
  <2> QED BY <2>2, <2>3
<1>3. Inv => HighestPriorityRuns
  BY SemParts, EventInvIs, RankShows
<1> QED BY <1>1, <1>2, <1>3, PTL DEF IpcSpec

-----------------------------------------------------------------------------
(* Each event implements the abstract one.  Its readers are the callers of  *)
(* LosListProofs; who waits is on the list, so that EventInv tells what he  *)
(* wants and that he does not find it.                                      *)

ReadFates(e) ==
    /\ ReadWaiting(e) = {t \in Task : Contains(kernel.pend[e], t)}
    /\ ReadWoken(e) = GrantedOn(e) /\ ReadTimedOut(e) = LateOn(e)
    /\ Split(e)
    /\ \A t \in ReadWaiting(e) \cup ReadWoken(e) \cup ReadTimedOut(e) :
          t \in CallersOn(e) /\ wish[t] \in Want

LEMMA ReadFatesAre == EventInv => \A e \in Event : ReadFates(e)
<1> SUFFICES ASSUME EventInv, NEW e \in Event PROVE ReadFates(e)
  OBVIOUS
<1>1. TaskInv /\ ObjInv /\ SafeInv /\ e \in WaitObj /\ EventPart
  BY EventInvIs, EventPlaces
<1>2. InRead(e) = CallersOn(e)
  BY <1>1, ResultToCome DEF InRead, CallersOn, TCB
<1>3. Split(e)
  BY <1>1, CallersSplit
<1>4. ReadWaiting(e) = {t \in Task : Contains(kernel.pend[e], t)}
  <2>1. \A t : t \in ReadWaiting(e) <=> t \in CallersOn(e) /\ "PEND" \in kernel.status[t]
    BY <1>2 DEF ReadWaiting, Has
  <2>2. \A t : t \in ReadWaiting(e) <=> t \in Task /\ Contains(kernel.pend[e], t)
    BY <1>3, <2>1 DEF Split, CallersOn
  <2> QED BY <2>2
<1>5. ReadWoken(e) = GrantedOn(e)
  BY <1>2 DEF ReadWoken, GrantedOn, Granted, CallersOn, Has
<1>6. ReadTimedOut(e) = LateOn(e)
  BY <1>2 DEF ReadTimedOut, LateOn, Has
<1>7. \A t \in ReadWaiting(e) \cup ReadWoken(e) \cup ReadTimedOut(e) : t \in CallersOn(e)
  BY <1>2 DEF ReadWaiting, ReadWoken, ReadTimedOut
<1>8. \A t \in CallersOn(e) : wish[t] \in Want
  BY <1>1 DEF CallersOn, EventPart, WishInv, TCB
<1> QED BY <1>3, <1>4, <1>5, <1>6, <1>7, <1>8 DEF ReadFates

LEMMA ReadFatesNext == EventInv' => (\A e \in Event : ReadFates(e))'
  BY ReadFatesAre, PTL

\* The readers after a step, if those who are left want what they did.
ReadersAre(e, A, B, C) ==
    /\ Readers(ReadWaiting(e))' = Readers(A)
    /\ Readers(ReadWoken(e))' = Readers(B)
    /\ Readers(ReadTimedOut(e))' = Readers(C)

LEMMA ReadersAfter ==
    ASSUME NEW e, NEW A, NEW B, NEW C,
           ReadWaiting(e)' = A, ReadWoken(e)' = B, ReadTimedOut(e)' = C,
           \A t \in A \cup B \cup C : wish'[t] = wish[t]
    PROVE  ReadersAre(e, A, B, C)
  BY DEF ReadersAre, Readers

ReaderOf(t) == [who |-> t, want |-> wish[t]]

LEMMA ReaderSets ==
    ASSUME NEW S, NEW t
    PROVE  /\ ReaderOf(t) \in Readers(S) <=> t \in S
           /\ Readers(S \cup {t}) = Readers(S) \cup {ReaderOf(t)}
           /\ Readers(S \ {t}) = Readers(S) \ {ReaderOf(t)}
<1>1. \A r : r \in Readers(S) <=> \E z \in S : r = ReaderOf(z)
  BY DEF Readers, ReaderOf
<1>2. \A z : ReaderOf(z).who = z
  BY DEF ReaderOf
<1>3. \A z : ReaderOf(z) \in Readers(S) <=> z \in S
  BY <1>1, <1>2
<1>4. \A r : r \in Readers(S \cup {t}) <=> r \in Readers(S) \/ r = ReaderOf(t)
  BY DEF Readers, ReaderOf
<1>5. \A r : r \in Readers(S \ {t}) <=> r \in Readers(S) /\ r # ReaderOf(t)
  <2>1. \A r : r \in Readers(S \ {t}) <=> \E z \in S : z # t /\ r = ReaderOf(z)
    BY DEF Readers, ReaderOf
  <2>2. \A z : ReaderOf(z) = ReaderOf(t) => z = t
    BY <1>2
  <2> QED BY <1>1, <2>1, <2>2
<1> QED BY <1>3, <1>4, <1>5

\* The readers of e after a call of the tasks of T that wakes the tasks of W, who wait
\* for q.
LEMMA MovesOn ==
    ASSUME EventInv, EventInv', NEW T, NEW W, EventMoves(T, W), NEW q \in WaitObj, WaitOn(q, W),
           \A u \in TCB : u \notin T => wish'[u] = wish[u], NEW e \in Event,
           NEW X, X = IF e = q THEN W ELSE {}
    PROVE  ReadersAre(e, ReadWaiting(e) \ X, (ReadWoken(e) \ T) \cup X, ReadTimedOut(e) \ T)
<1>1. /\ TaskInv /\ ObjInv /\ SafeInv /\ TaskInv' /\ ObjInv' /\ e \in WaitObj /\ e \in WaitList
      /\ ReadFates(e) /\ Granting(T, W)
  BY EventInvIs, EventPlaces, ReadFatesAre DEF EventInv, EventMoves
<1>2. ReadFates(e)'
  BY ReadFatesNext
<1>3. CallersAfter(e, T, W)
  BY <1>1, GrantsOn
<1>4. \A w \in W : /\ w \in Task /\ arg[w] = q /\ "PEND" \in kernel.status[w] /\ AtResult(w)
  BY <1>1, WaiterIs DEF WaitOn
<1>5. W \cap CallersOn(e) = X
  BY <1>4 DEF CallersOn
<1>6. W \subseteq TCB /\ \A w \in W : Contains(kernel.pend[q], w)
  BY <1>4 DEF TCB, WaitOn
<1>7. \A x \in Task : Contains(kernel'.pend[e], x) <=> Contains(kernel.pend[e], x) /\ x \notin W
  BY <1>1 DEF EventMoves
<1>8. ReadWaiting(e)' = ReadWaiting(e) \ X
  <2>1. ReadWaiting(e)' = {x \in Task : Contains(kernel'.pend[e], x)}
    BY <1>2 DEF ReadFates
  <2>2. \A x \in ReadWaiting(e) : x \in CallersOn(e)
    BY <1>1 DEF ReadFates
  <2>3. \A x \in ReadWaiting(e) : x \in W <=> x \in X
    BY <1>5, <2>2
  <2>4. ReadWaiting(e) = {x \in Task : Contains(kernel.pend[e], x)}
    BY <1>1 DEF ReadFates
  <2> QED BY <1>7, <2>1, <2>3, <2>4
<1>9. ReadWoken(e)' = (ReadWoken(e) \ T) \cup X
  BY <1>1, <1>2, <1>3, <1>5 DEF ReadFates, CallersAfter
<1>10. ReadTimedOut(e)' = ReadTimedOut(e) \ T
  <2>1. LateOn(e)' = {x \in CallersOn(e) \ T : ~Granted(x) /\ x \notin W /\ ~Contains(kernel'.pend[e], x)}
    BY <1>3 DEF CallersAfter
  <2>2. LateOn(e) = {x \in CallersOn(e) : ~Granted(x) /\ ~Contains(kernel.pend[e], x)}
    BY <1>1 DEF ReadFates, Split
  <2>3. \A x \in LateOn(e) : x \notin W
    BY <1>4 DEF LateOn
  <2>4. \A x \in CallersOn(e) : x \in W => Contains(kernel.pend[e], x)
    BY <1>1, <1>4 DEF ReadFates, Split
  <2>5. \A x : x \in LateOn(e)' <=> x \in LateOn(e) /\ x \notin T
    <3>1. \A x \in CallersOn(e) : x \in Task
      BY DEF CallersOn
    <3> QED BY <1>7, <2>1, <2>2, <2>3, <2>4, <3>1
  <2>6. LateOn(e)' = LateOn(e) \ T
    BY <2>5
  <2> QED BY <1>1, <1>2, <2>6 DEF ReadFates
<1>11. \A x \in (ReadWaiting(e) \ X) \cup ((ReadWoken(e) \ T) \cup X) \cup (ReadTimedOut(e) \ T) :
          wish'[x] = wish[x]
  <2>1. \A x : x \in ReadWaiting(e)' \cup ReadWoken(e)' \cup ReadTimedOut(e)' => x \in CallersOn(e)'
    BY <1>2 DEF ReadFates
  <2>2. \A x \in CallersOn(e)' : x \in TCB /\ x \notin T
    BY <1>3 DEF CallersAfter, CallersOn, TCB
  <2> QED BY <1>8, <1>9, <1>10, <2>1, <2>2
<1> QED BY <1>8, <1>9, <1>10, <1>11, ReadersAfter

-----------------------------------------------------------------------------
(* The steps of one event. *)

LEMMA EventStutters ==
    ASSUME NEW e, ReadersAre(e, ReadWaiting(e), ReadWoken(e), ReadTimedOut(e)),
           eventCB'[e] = eventCB[e]
    PROVE  EventStepOn(e)
  BY DEF EventStepOn, AbstractEvent!event, ReadersAre

\* A read that need not wait takes what w asks for, or nothing.
LEMMA EventPolls ==
    ASSUME NEW e \in Event, ReadersAre(e, ReadWaiting(e), ReadWoken(e), ReadTimedOut(e)), NEW w \in Want,
           IsrEventPoll(e, w) \/ \E t \in Task : ReadTakes(t) /\ arg[t] = e /\ wish[t] = w,
           eventCB'[e].live = eventCB[e].live,
           eventCB'[e].bits = LOS_EventPoll(eventCB[e].bits, w)
    PROVE  EventStepOn(e)
<1>1. CASE Satisfied(eventCB[e].bits, w)
  <2>1. AbstractEvent(e)!Poll(w)
    BY <1>1 DEF AbstractEvent!Poll, AbstractEvent!Content, AbstractEvent!Rest, Satisfied, LOS_EventPoll, ReadersAre
  <2> QED BY <2>1 DEF EventStepOn, TakenAtOnce
<1>2. CASE ~Satisfied(eventCB[e].bits, w)
  <2>1. eventCB'[e].bits = eventCB[e].bits
    BY <1>2 DEF LOS_EventPoll
  <2> QED BY <2>1 DEF EventStepOn, AbstractEvent!event, ReadersAre
<1> QED BY <1>1, <1>2

LEMMA ReaderIs ==
    ASSUME NEW e, ReadFates(e), NEW t \in ReadWaiting(e) \cup ReadWoken(e) \cup ReadTimedOut(e)
    PROVE  ReaderOf(t) \in AbstractEvent(e)!Reader
  BY DEF ReadFates, CallersOn, ReaderOf, AbstractEvent!Reader

\* A step of the tasks: nothing, a timeout, or the end of a task in its call.
LEMMA EventTaskStep ==
    ASSUME EventInv, EventInv', ResultsGoOn, UNCHANGED eventCB,
           \A u \in TCB : AtResult(u)' => wish'[u] = wish[u], NEW e \in Event
    PROVE  EventStepOn(e)
<1> DEFINE A == ReadWaiting(e)
           B == ReadWoken(e)
           C == ReadTimedOut(e)
<1>1. ReadFates(e) /\ TaskInv /\ ObjInv /\ TaskInv' /\ ObjInv' /\ e \in WaitObj
  BY EventInvIs, EventPlaces, ReadFatesAre DEF EventInv
<1>2. ReadFates(e)'
  BY ReadFatesNext
<1>3. \A x \in A' \cup B' \cup C' : wish'[x] = wish[x]
  <2>1. \A x \in CallersOn(e)' : AtResult(x)' /\ x \in TCB
    BY DEF CallersOn, TCB
  <2> QED BY <1>2, <2>1 DEF ReadFates
<1>4. /\ A = {x \in Task : Contains(kernel.pend[e], x)} /\ A' = {x \in Task : Contains(kernel'.pend[e], x)}
      /\ B = GrantedOn(e) /\ B' = GrantedOn(e)' /\ C = LateOn(e) /\ C' = LateOn(e)'
      /\ kernel.pend[e] \in Seq(Task) /\ IsInjective(kernel.pend[e])
  BY <1>1, <1>2 DEF ReadFates, Split
<1>5. SameOn(e) \/ \E x \in Task : LateAt(e, x) \/ CutOff(e, x)
  BY <1>1, TasksOn
<1>6. CASE SameOn(e)
  <2>1. A' = A /\ B' = B /\ C' = C
    BY <1>4, <1>6 DEF SameOn
  <2>2. ReadersAre(e, A, B, C)
    BY <1>3, <2>1, ReadersAfter
  <2> QED BY <2>2, EventStutters
<1>7. ASSUME NEW x \in Task, CutOut(e, x) PROVE A' = A \ {x}
  <2>1. \A z : Contains(kernel'.pend[e], z) <=> Contains(kernel.pend[e], z) /\ z # x
    BY <1>4, <1>7, UnlinkOnce DEF CutOut, Unlink
  <2> HIDE DEF A
  <2> QED BY <1>4, <2>1
<1>8. ASSUME NEW x \in Task, LateAt(e, x) PROVE EventStepOn(e)
  <2>1. A' = A \ {x} /\ B' = B /\ C' = C \cup {x} /\ x \in A
    BY <1>4, <1>7, <1>8 DEF LateAt
  <2>2. ReadersAre(e, A \ {x}, B, C \cup {x})
    BY <1>3, <2>1, ReadersAfter
  <2>3. ReaderOf(x) \in AbstractEvent(e)!Reader /\ ReaderOf(x) \in Readers(A)
    BY <1>1, <2>1, ReaderIs, ReaderSets
  <2>4. Readers(A \ {x}) = Readers(A) \ {ReaderOf(x)} /\ Readers(C \cup {x}) = Readers(C) \cup {ReaderOf(x)}
    BY ReaderSets
  <2>5. AbstractEvent(e)!Expire(ReaderOf(x))
    BY <2>2, <2>3, <2>4 DEF AbstractEvent!Expire, ReadersAre
  <2> QED BY <2>3, <2>5 DEF EventStepOn, AbstractEvent!Serve
<1>9. ASSUME NEW x \in Task, CutOff(e, x) PROVE EventStepOn(e)
  <2>1. A' = A \ {x} /\ B' = B \ {x} /\ C' = C \ {x}
    BY <1>4, <1>7, <1>9 DEF CutOff
  <2>2. x \in A \cup B \cup C
    <3>1. x \in CallersOn(e)
      BY <1>9 DEF CutOff
    <3>2. Contains(kernel.pend[e], x) \/ x \in GrantedOn(e) \/ x \in LateOn(e)
      BY <1>1, <3>1 DEF ReadFates, Split, GrantedOn
    <3> QED BY <1>4, <3>2
  <2>3. ReadersAre(e, A \ {x}, B \ {x}, C \ {x})
    BY <1>3, <2>1, ReadersAfter
  <2>4. ReaderOf(x) \in AbstractEvent(e)!Reader
    BY <1>1, <2>2, ReaderIs
  <2>5. /\ Readers(A \ {x}) = Readers(A) \ {ReaderOf(x)} /\ Readers(B \ {x}) = Readers(B) \ {ReaderOf(x)}
        /\ Readers(C \ {x}) = Readers(C) \ {ReaderOf(x)}
        /\ ReaderOf(x) \in Readers(A) \cup Readers(B) \cup Readers(C)
    BY <2>2, ReaderSets
  <2>6. AbstractEvent(e)!Leave(ReaderOf(x))
    BY <2>3, <2>5 DEF AbstractEvent!Leave, ReadersAre
  <2> QED BY <2>4, <2>6 DEF EventStepOn, AbstractEvent!Serve
<1> QED BY <1>5, <1>6, <1>8, <1>9

\* A call of t, who is in no wait, that moves nobody.
LEMMA NobodyMoves ==
    ASSUME EventInv, EventInv', NEW T, EventMoves(T, {}), \A u \in T : ~AtResult(u),
           \A u \in TCB : u \notin T => wish'[u] = wish[u], NEW e \in Event
    PROVE  ReadersAre(e, ReadWaiting(e), ReadWoken(e), ReadTimedOut(e))
<1>1. e \in WaitObj /\ ReadFates(e)
  BY EventPlaces, ReadFatesAre
<1>2. WaitOn(e, {})
  BY DEF WaitOn
<1>3. PICK X : X = IF e = e THEN {} ELSE {}
  OBVIOUS
<1>4. ReadersAre(e, ReadWaiting(e) \ X, (ReadWoken(e) \ T) \cup X, ReadTimedOut(e) \ T)
  BY <1>1, <1>2, <1>3, MovesOn
<1>5. X = {} /\ \A x \in ReadWoken(e) \cup ReadTimedOut(e) : x \notin T
  BY <1>1, <1>3 DEF ReadFates, CallersOn
<1>6. /\ ReadWaiting(e) \ X = ReadWaiting(e) /\ (ReadWoken(e) \ T) \cup X = ReadWoken(e)
      /\ ReadTimedOut(e) \ T = ReadTimedOut(e)
  BY <1>5
<1> QED BY <1>4, <1>6

\* A reader waits.
LEMMA EventWaits ==
    ASSUME EventInv, EventInv', NEW t \in TCB, ReadQueues(t), UNCHANGED <<eventCB, wish>>, NEW e \in Event
    PROVE  EventStepOn(e)
<1> DEFINE A == ReadWaiting(e)
           B == ReadWoken(e)
           C == ReadTimedOut(e)
<1>1. ReadFates(e) /\ TaskInv /\ ObjInv /\ TaskInv' /\ ObjInv' /\ e \in WaitObj
  BY EventInvIs, EventPlaces, ReadFatesAre DEF EventInv
<1>2. ReadFates(e)'
  BY ReadFatesNext
<1>3. PICK o \in Event : o = arg[t] /\ o \in WaitObj
  BY EventPlaces DEF ReadQueues
<1>4. /\ t \in Task /\ Grants({t}, {}) /\ ~AtResult(t) /\ AtResult(t)' /\ arg'[t] = o
      /\ kernel'.pend = [kernel.pend EXCEPT ![o] = Append(@, t)]
      /\ wish[t] \in Want /\ ~Satisfied(eventCB[o].bits, wish[t]) /\ eventCB[o].live
  BY <1>3 DEF ReadQueues
<1>5. /\ t \notin CallersOn(o) /\ kernel'.pend[o] = Append(kernel.pend[o], t)
      /\ GrantedOn(o)' = GrantedOn(o) /\ LateOn(o)' = LateOn(o)
      /\ \A q \in WaitObj \ {o} : SameOn(q)
  BY <1>1, <1>3, <1>4, WaitsOn
<1>6. /\ A = {x \in Task : Contains(kernel.pend[e], x)} /\ A' = {x \in Task : Contains(kernel'.pend[e], x)}
      /\ B = GrantedOn(e) /\ B' = GrantedOn(e)' /\ C = LateOn(e) /\ C' = LateOn(e)'
      /\ kernel.pend[e] \in Seq(Task)
  BY <1>1, <1>2 DEF ReadFates, Split
<1>7. CASE e # o
  <2>1. A' = A /\ B' = B /\ C' = C
    BY <1>1, <1>5, <1>6, <1>7 DEF SameOn
  <2>2. ReadersAre(e, A, B, C)
    BY <2>1, ReadersAfter
  <2> QED BY <2>2, EventStutters
<1>8. CASE e = o
  <2>1. \A x : Contains(kernel'.pend[e], x) <=> Contains(kernel.pend[e], x) \/ x = t
    <3>1. PICK l \in Seq(Task) : l = kernel.pend[e]
      BY <1>6
    <3>2. PICK m : m = Append(l, t)
      OBVIOUS
    <3>3. /\ Len(l) \in Nat /\ Len(m) = Len(l) + 1 /\ m[Len(m)] = t
          /\ \A i \in 1 .. Len(l) : m[i] = l[i]
      BY <3>1, <3>2
    <3>4. \A x : Contains(m, x) <=> Contains(l, x) \/ x = t
      BY <3>3 DEF Contains
    <3> QED BY <1>5, <1>8, <3>1, <3>2, <3>4
  <2>2. A' = A \cup {t} /\ B' = B /\ C' = C
    <3> HIDE DEF A, B, C
    <3> QED BY <1>4, <1>5, <1>6, <1>8, <2>1
  <2>3. ReadersAre(e, A \cup {t}, B, C)
    BY <2>2, ReadersAfter
  <2>4. t \notin A \cup B \cup C
    BY <1>1, <1>5, <1>8 DEF ReadFates
  <2>5. ReaderOf(t) \in AbstractEvent(e)!Reader /\ ReaderOf(t).who = t /\ ReaderOf(t).want = wish[t]
    BY <1>4 DEF ReaderOf, AbstractEvent!Reader
  <2>6. ReaderOf(t).who \notin AbstractEvent(e)!calling
    <3>1. \A r \in Readers(A) \cup Readers(B) \cup Readers(C) : r.who \in A \cup B \cup C
      <4> HIDE DEF A, B, C
      <4> QED BY DEF Readers
    <3> QED BY <2>4, <2>5, <3>1 DEF AbstractEvent!calling
  <2>7. ~AbstractEvent(e)!Content(eventCB[e].bits, wish[t])
    BY <1>4, <1>8 DEF AbstractEvent!Content, Satisfied
  <2>8. Readers(A \cup {t}) = Readers(A) \cup {ReaderOf(t)}
    BY ReaderSets
  <2>9. AbstractEvent(e)!Wait(ReaderOf(t))
    BY <1>4, <1>8, <2>3, <2>5, <2>6, <2>7, <2>8 DEF AbstractEvent!Wait, ReadersAre
  <2> QED BY <2>5, <2>9 DEF EventStepOn, AbstractEvent!Serve
<1> QED BY <1>7, <1>8

\* The readers that a write wakes are those that the bits suffice for.
LEMMA ContentAwakened ==
    ASSUME EventInv, NEW e \in Event, NEW events, NEW t \in ReadWaiting(e)
    PROVE  t \in Awakened(e, events) <=>
              AbstractEvent(e)!Content(eventCB[e].bits \cup events, wish[t])
<1>1. ReadFates(e) /\ EventPart
  BY EventInvIs, ReadFatesAre
<1>2. t \in Task /\ Contains(kernel.pend[e], t)
  BY <1>1 DEF ReadFates
<1>3. t \in ToSet(kernel.pend[e])
  BY <1>1, <1>2 DEF ToSet, Contains, ReadFates, Split
<1>4. ~Satisfied(eventCB[e].bits, wish[t])
  BY <1>1, <1>2 DEF EventPart, ReadersWait
<1>5. t \in Awakened(e, events) <=> WokenBy(wish[t], events, eventCB[e].bits \cup events)
  BY <1>3 DEF Awakened
<1> QED BY <1>4, <1>5 DEF WokenBy, Satisfied, AbstractEvent!Content

LEMMA EventWrites ==
    ASSUME EventInv, EventInv', NEW T, NEW q \in Event, NEW events \in SUBSET Bit, NEW W,
           W = Awakened(q, events), EventMoves(T, W), \A u \in T : ~AtResult(u),
           \A u \in TCB : u \notin T => wish'[u] = wish[u],
           eventCB' = [eventCB EXCEPT ![q].bits = @ \cup events], eventCB[q].live, NEW e \in Event
    PROVE  EventStepOn(e)
<1> DEFINE A == ReadWaiting(e)
           B == ReadWoken(e)
           C == ReadTimedOut(e)
<1>1. ReadFates(e) /\ EventCBType /\ q \in WaitObj
  BY EventInvIs, EventPlaces, ReadFatesAre DEF EventPart
<1>2. WaitOn(q, W)
  BY AwakenedWait
<1>3. PICK X : X = IF e = q THEN W ELSE {}
  OBVIOUS
<1>4. ReadersAre(e, A \ X, (B \ T) \cup X, C \ T)
  BY <1>1, <1>2, <1>3, MovesOn
<1>5. \A x \in B \cup C : x \notin T
  BY <1>1 DEF ReadFates, CallersOn
<1>6. (B \ T) \cup X = B \cup X /\ C \ T = C
  <2> HIDE DEF B, C
  <2> QED BY <1>5
<1>7. CASE e # q
  <2>1. X = {}
    BY <1>3, <1>7
  <2>2. A \ X = A /\ B \cup X = B
    BY <2>1
  <2>3. eventCB'[e] = eventCB[e]
    BY <1>1, <1>7 DEF EventCBType
  <2> QED BY <1>4, <1>6, <2>2, <2>3, EventStutters
<1>8. CASE e = q
  <2>1. X = W /\ eventCB'[e].live = eventCB[e].live /\ eventCB'[e].bits = eventCB[e].bits \cup events
    BY <1>1, <1>3, <1>8 DEF EventCBType
  <2>2. PICK P : P = {r \in Readers(A) : AbstractEvent(e)!Content(eventCB[e].bits \cup events, r.want)}
    OBVIOUS
  <2>3. \A t \in A : t \in W <=> AbstractEvent(e)!Content(eventCB[e].bits \cup events, wish[t])
    BY <1>8, ContentAwakened
  <2>4. W \subseteq A
    <3>1. \A w \in W : w \in Task /\ Contains(kernel.pend[e], w)
      BY <1>1, <1>2, <1>8, EventInvIs, WaiterIs DEF WaitOn
    <3> QED BY <1>1, <3>1 DEF ReadFates
  <2>5. P = Readers(W)
    <3>1. \A r : r \in Readers(A) <=> \E t \in A : r = ReaderOf(t)
      BY DEF Readers, ReaderOf
    <3>2. \A r : r \in Readers(W) <=> \E t \in W : r = ReaderOf(t)
      BY DEF Readers, ReaderOf
    <3>3. \A t : ReaderOf(t).want = wish[t]
      BY DEF ReaderOf
    <3>4. \A r : r \in P <=> r \in Readers(A) /\ AbstractEvent(e)!Content(eventCB[e].bits \cup events, r.want)
      BY <2>2
    <3>5. ASSUME NEW r \in P PROVE r \in Readers(W)
      <4>1. PICK t \in A : r = ReaderOf(t)
        BY <3>1, <3>4
      <4>2. AbstractEvent(e)!Content(eventCB[e].bits \cup events, wish[t])
        <5>1. r.want = wish[t] /\ AbstractEvent(e)!Content(eventCB[e].bits \cup events, r.want)
          BY <3>3, <3>4, <4>1
        <5> QED BY <5>1 DEF AbstractEvent!Content
      <4> QED BY <2>3, <3>2, <4>1, <4>2
    <3>6. ASSUME NEW r \in Readers(W) PROVE r \in P
      <4>1. PICK t \in W : r = ReaderOf(t)
        BY <3>2
      <4>2. t \in A /\ r.want = wish[t] /\ AbstractEvent(e)!Content(eventCB[e].bits \cup events, wish[t])
        BY <2>3, <2>4, <3>3, <4>1
      <4>3. AbstractEvent(e)!Content(eventCB[e].bits \cup events, r.want)
        BY <4>2 DEF AbstractEvent!Content
      <4>4. r \in Readers(A)
        BY <3>1, <4>1, <4>2
      <4> QED BY <3>4, <4>3, <4>4
    <3> QED BY <3>5, <3>6
  <2>6. Readers(A \ W) = Readers(A) \ Readers(W) /\ Readers(B \cup W) = Readers(B) \cup Readers(W)
    <3> HIDE DEF A, B
    <3>1. \A S : \A r : r \in Readers(S) <=> \E t \in S : r = ReaderOf(t)
      BY DEF Readers, ReaderOf
    <3>2. \A t, u : ReaderOf(t) = ReaderOf(u) => t = u
      BY DEF ReaderOf
    <3>3. \A r : r \in Readers(A \ W) <=> r \in Readers(A) /\ r \notin Readers(W)
      BY <3>1, <3>2
    <3>4. \A r : r \in Readers(B \cup W) <=> r \in Readers(B) \/ r \in Readers(W)
      BY <3>1
    <3> QED BY <3>3, <3>4
  <2>7. ReadersAre(e, A \ W, B \cup W, C)
    BY <1>4, <1>6, <2>1
  <2>8. AbstractEvent(e)!Write(events)
    <3>1. P = {r \in Readers(A) : AbstractEvent(e)!Content(eventCB'[e].bits, r.want)}
      BY <2>1, <2>2
    <3> QED BY <1>8, <2>1, <2>5, <2>6, <2>7, <3>1 DEF AbstractEvent!Write, ReadersAre
  <2> QED BY <2>8 DEF EventStepOn, AbstractEvent!Serve
<1> QED BY <1>7, <1>8

\* A wait ends: the reader takes what is left, or is too late.
LEMMA EventReturns ==
    ASSUME EventInv, EventInv', NEW t \in TCB, ReadResult(t), NEW e \in Event
    PROVE  EventStepOn(e)
<1> DEFINE A == ReadWaiting(e)
           B == ReadWoken(e)
           C == ReadTimedOut(e)
<1>1. ReadFates(e) /\ ObjInv /\ TaskInv /\ SafeInv /\ OutcomeInv /\ EventCBType /\ EventPart /\ e \in WaitObj
  BY EventInvIs, EventPlaces, ReadFatesAre DEF EventPart, ObjInv
<1>2. Doing(t, "result")
  BY DEF ReadResult
<1>3. Thread(t) /\ AtResult(t) /\ arg[t] \in Event /\ todo[t] # <<>> /\ Head(todo[t]) = "result"
  BY <1>2, Rests
<1>4. t \in Task /\ "PEND" \notin kernel.status[t]
  <2>1. t \in Task
    BY <1>1, <1>3 DEF OutcomeInv
  <2> QED BY <1>1, <1>3, <2>1, WorkFlags DEF Blocking
<1>5. EventMoves({t}, {})
  BY ReturnsPart
<1>6. wish' = [wish EXCEPT ![t] = NoWish]
  BY DEF ReadResult, ReadReturns
<1>7. ReadersAre(e, A, B \ {t}, C \ {t})
  <2>1. WaitOn(e, {})
    BY DEF WaitOn
  <2>2. \A u \in TCB : u \notin {t} => wish'[u] = wish[u]
    BY <1>1, <1>6 DEF EventPart, WishInv
  <2>3. PICK X : X = IF e = e THEN {} ELSE {}
    OBVIOUS
  <2>4. ReadersAre(e, A \ X, (B \ {t}) \cup X, C \ {t})
    BY <1>1, <1>5, <2>1, <2>2, <2>3, MovesOn
  <2>5. A \ X = A /\ (B \ {t}) \cup X = B \ {t}
    BY <2>3
  <2> QED BY <2>4, <2>5
<1>8. CASE e # arg[t]
  <2>1. t \notin B \cup C
    BY <1>1, <1>8 DEF ReadFates, CallersOn
  <2>2. B \ {t} = B /\ C \ {t} = C
    BY <2>1
  <2>3. eventCB'[e] = eventCB[e]
    BY <1>1, <1>8 DEF ReadResult, ReadReturns, EventCBType
  <2> QED BY <1>7, <2>2, <2>3, EventStutters
<1>9. CASE e = arg[t]
  <2>1. t \in CallersOn(e)
    BY <1>3, <1>4, <1>9 DEF CallersOn
  <2>2. IF "TIMEOUT" \in kernel.status[t] THEN t \in C ELSE t \in B
    BY <1>1, <1>4, <2>1 DEF ReadFates, LateOn, GrantedOn, Granted, CallersOn
  <2>3. Readers(B \ {t}) = Readers(B) \ {ReaderOf(t)} /\ Readers(C \ {t}) = Readers(C) \ {ReaderOf(t)}
    BY ReaderSets
  <2>4. ReaderOf(t) \in AbstractEvent(e)!Reader /\ ReaderOf(t).want = wish[t]
    BY <1>1, <2>2, ReaderIs DEF ReaderOf
  <2>5. eventCB'[e].live = eventCB[e].live
    BY <1>1, <1>9 DEF ReadResult, ReadReturns, EventCBType
  <2>6. CASE "TIMEOUT" \in kernel.status[t]
    <3>1. eventCB'[e].bits = eventCB[e].bits
      BY <2>6 DEF ReadResult, Has
    <3>2. ReaderOf(t) \in Readers(C)
      BY <2>2, <2>6, ReaderSets
    <3>3. AbstractEvent(e)!Return(ReaderOf(t))
      BY <1>7, <2>3, <2>5, <3>1, <3>2 DEF AbstractEvent!Return, ReadersAre
    <3> QED BY <2>4, <3>3 DEF EventStepOn, AbstractEvent!Serve
  <2>7. CASE "TIMEOUT" \notin kernel.status[t]
    <3>1. eventCB'[e].bits = LOS_EventPoll(eventCB[e].bits, wish[t])
      BY <1>1, <1>9, <2>7 DEF ReadResult, ReadReturns, Has, EventCBType
    <3>2. ReaderOf(t) \in Readers(B)
      BY <2>2, <2>7, ReaderSets
    <3>3. LOS_EventPoll(eventCB[e].bits, wish[t]) = AbstractEvent(e)!Rest(eventCB[e].bits, wish[t])
      BY DEF LOS_EventPoll, Satisfied, AbstractEvent!Rest, AbstractEvent!Content
    <3>4. PICK w : w = wish[t] /\ ReaderOf(t).want = w
      BY <2>4
    <3>5. AbstractEvent(e)!Rest(eventCB[e].bits, w) = AbstractEvent(e)!Rest(eventCB[e].bits, ReaderOf(t).want)
      BY <3>4
    <3>6. AbstractEvent(e)!Return(ReaderOf(t))
      BY <1>7, <2>3, <2>5, <3>1, <3>2, <3>3, <3>4, <3>5 DEF AbstractEvent!Return, ReadersAre
    <3> QED BY <2>4, <3>6 DEF EventStepOn, AbstractEvent!Serve
  <2> QED BY <2>6, <2>7
<1> QED BY <1>8, <1>9

\* The event q is initialised or destroyed.
LEMMA ObjectOn ==
    ASSUME Unprotected = {}, EventInv, EventInv', UNCHANGED taskVars, UNCHANGED wish, NEW q \in Event,
           NEW t \in TCB, LOS_EventInit(t, q) \/ EventDestroy(t, q), NEW e \in Event
    PROVE  EventStepOn(e)
<1>1. EventMoves({}, {}) /\ EventCBType /\ EventPart /\ ReadFates(e)
  BY EventInvIs, NothingMoves, ReadFatesAre DEF EventPart
<1>2. ReadersAre(e, ReadWaiting(e), ReadWoken(e), ReadTimedOut(e))
  BY <1>1, NobodyMoves
<1>3. CASE LOS_EventInit(t, q)
  <2>1. CASE e # q
    BY <1>1, <1>2, <1>3, <2>1, EventStutters DEF LOS_EventInit, EventCBType
  <2>2. CASE e = q
    <3>1. eventCB[e].live = FALSE /\ eventCB'[e].live = TRUE /\ eventCB'[e].bits = {}
      BY <1>1, <1>3, <2>2 DEF LOS_EventInit, EventCBType
    <3>2. AbstractEvent(e)!Open
      BY <1>2, <3>1 DEF AbstractEvent!Open, ReadersAre
    <3> QED BY <3>2 DEF EventStepOn, AbstractEvent!Serve
  <2> QED BY <2>1, <2>2
<1>4. CASE EventDestroy(t, q)
  <2>1. CASE e # q
    BY <1>1, <1>2, <1>4, <2>1, EventStutters DEF EventDestroy, EventCBType
  <2>2. CASE e = q
    <3>1. eventCB[e].live = TRUE /\ eventCB'[e].live = FALSE /\ eventCB'[e].bits = eventCB[e].bits
      BY <1>1, <1>4, <2>2 DEF EventDestroy, EventCBType
    <3>2. Readers(ReadWaiting(e)) = {}
      <4>1. kernel.pend[e] = <<>>
        BY <1>4, <2>2 DEF EventDestroy
      <4>2. ReadWaiting(e) = {}
        BY <1>1, <4>1 DEF ReadFates, Contains
      <4> QED BY <4>2 DEF Readers
    <3>3. AbstractEvent(e)!Close
      BY <1>2, <3>1, <3>2 DEF AbstractEvent!Close, ReadersAre
    <3> QED BY <3>3 DEF EventStepOn, AbstractEvent!Serve
  <2> QED BY <2>1, <2>2
<1> QED BY <1>3, <1>4

\* A handler takes the bits that it asks for.
LEMMA IsrPollOn ==
    ASSUME Unprotected = {}, EventInv, EventInv', NEW q \in Event, NEW w \in Want, IsrEventPoll(q, w),
           NEW e \in Event
    PROVE  EventStepOn(e)
<1>1. UNCHANGED taskVars /\ wish' = wish
  BY DEF IsrEventPoll
<1>2. EventMoves({}, {}) /\ EventCBType
  BY <1>1, EventInvIs, NothingMoves DEF EventPart
<1>3. ReadersAre(e, ReadWaiting(e), ReadWoken(e), ReadTimedOut(e))
  BY <1>1, <1>2, NobodyMoves
<1>4. CASE e # q
  BY <1>2, <1>3, <1>4, EventStutters DEF IsrEventPoll, EventCBType
<1>5. CASE e = q
  <2>1. eventCB'[e].live = eventCB[e].live /\ eventCB'[e].bits = LOS_EventPoll(eventCB[e].bits, w)
    BY <1>2, <1>5 DEF IsrEventPoll, EventCBType
  <2> QED BY <1>3, <1>5, <2>1, EventPolls
<1> QED BY <1>4, <1>5

LEMMA ClearOn ==
    ASSUME Unprotected = {}, EventInv, EventInv', NEW t \in TCB, NEW q \in Event, NEW keep \in SUBSET Bit,
           EventClear(t, q, keep), NEW e \in Event
    PROVE  EventStepOn(e)
<1>1. UNCHANGED taskVars /\ wish' = wish
  BY DEF EventClear
<1>2. EventMoves({}, {}) /\ EventCBType
  BY <1>1, EventInvIs, NothingMoves DEF EventPart
<1>3. ReadersAre(e, ReadWaiting(e), ReadWoken(e), ReadTimedOut(e))
  BY <1>1, <1>2, NobodyMoves
<1>4. CASE e # q
  BY <1>2, <1>3, <1>4, EventStutters DEF EventClear, EventCBType
<1>5. CASE e = q
  <2>1. eventCB'[e].live = eventCB[e].live /\ eventCB'[e].bits = eventCB[e].bits \cap keep
    BY <1>2, <1>5 DEF EventClear, EventCBType
  <2>2. AbstractEvent(e)!Clear(keep)
    BY <1>3, <2>1 DEF AbstractEvent!Clear, ReadersAre
  <2> QED BY <1>5, <2>2 DEF EventStepOn, TakenAtOnce
<1> QED BY <1>4, <1>5

\* A call of t that moves nobody.
LEMMA EventCalls ==
    ASSUME EventInv, EventInv', NEW t \in TCB, ~AtResult(t), EventMoves({t}, {}),
           \A u \in TCB : u # t => wish'[u] = wish[u], NEW e \in Event
    PROVE  ReadersAre(e, ReadWaiting(e), ReadWoken(e), ReadTimedOut(e))
<1>1. PICK T : T = {t}
  OBVIOUS
<1>2. EventMoves(T, {}) /\ \A u \in T : ~AtResult(u)
  BY <1>1
<1>3. \A u \in TCB : u \notin T => wish'[u] = wish[u]
  BY <1>1
<1> QED BY <1>2, <1>3, NobodyMoves

LEMMA ReadsOn ==
    ASSUME EventInv, EventInv', NEW t \in TCB, NEW e \in Event, ReadTakes(t) \/ ReadFails(t)
    PROVE  EventStepOn(e)
<1>1. Doing(t, "eventRead") /\ wish' = [wish EXCEPT ![t] = NoWish] /\ EventMoves({t}, {})
  BY ReturnsPart DEF ReadTakes, ReadReturns, ReadFails, ReadMustWait
<1>2. ~AtResult(t) /\ arg[t] \in Event
  BY <1>1, Rests
<1>3. EventPart /\ EventCBType
  BY EventInvIs DEF EventPart
<1>4. \A u \in TCB : u # t => wish'[u] = wish[u]
  BY <1>1, <1>3 DEF EventPart, WishInv
<1>5. ReadersAre(e, ReadWaiting(e), ReadWoken(e), ReadTimedOut(e))
  BY <1>1, <1>2, <1>4, EventCalls
<1>6. CASE UNCHANGED eventCB \/ e # arg[t]
  <2>1. eventCB'[e] = eventCB[e]
    BY <1>2, <1>3, <1>6 DEF ReadTakes, ReadReturns, ReadFails, EventCBType
  <2> QED BY <1>5, <2>1, EventStutters
<1>7. CASE ReadTakes(t) /\ e = arg[t]
  <2>1. eventCB'[e].live = eventCB[e].live /\ eventCB'[e].bits = LOS_EventPoll(eventCB[e].bits, wish[t])
    BY <1>3, <1>7 DEF ReadTakes, ReadReturns, EventCBType
  <2>2. wish[t] \in Want /\ t \in Task
    BY <1>1, Rests
  <2> QED BY <1>5, <1>7, <2>1, <2>2, EventPolls
<1> QED BY <1>6, <1>7 DEF ReadFails

LEMMA BeginsOn ==
    ASSUME EventInv, EventInv', NEW t \in TCB, NEW call, App(t, call), NEW q \in Event,
           NEW w, wish' = [wish EXCEPT ![t] = w], UNCHANGED eventCB,
           NEW s \in {<<"eventRead">>, <<"eventWrite">>}, Call(t, kernel, s, q), NEW e \in Event
    PROVE  EventStepOn(e)
<1>1. Thread(t) /\ todo[t] = <<>> /\ q \in WaitObj /\ ~AtResult(t) /\ EventPart
  BY EventInvIs, EventPlaces, NotAtResult DEF App
<1>2. EventMoves({t}, {})
  BY <1>1, WorkMoves
<1>3. \A u \in TCB : u # t => wish'[u] = wish[u]
  BY <1>1 DEF EventPart, WishInv
<1> QED BY <1>1, <1>2, <1>3, EventCalls, EventStutters

LEMMA EventStepSimulates ==
    ASSUME Unprotected = {}, EventInv, EventInv', NEW t \in TCB, EventStep(t), NEW e \in Event
    PROVE  EventStepOn(e)
<1>1. CASE ReadTakes(t) \/ ReadFails(t)
  BY <1>1, ReadsOn
<1>2. CASE ReadResult(t)
  BY <1>2, EventReturns
<1>3. CASE WriteWakes(t)
  <2>1. PICK q \in Event : q = arg[t] /\ eventCB[q].live
    BY <1>3, WriteMoves
  <2>2. PICK events : events = wish[t].mask /\ events \in SUBSET Bit
    BY EventInvIs DEF EventPart, WishInv, Wish
  <2>3. PICK W : W = Awakened(q, events)
    OBVIOUS
  <2>4. PICK T : T = {t}
    OBVIOUS
  <2>5. EventMoves(T, W)
    BY <1>3, <2>1, <2>2, <2>3, <2>4, WriteMoves
  <2>6. \A u \in T : ~AtResult(u)
    <3>1. Doing(t, "eventWrite")
      BY <1>3 DEF WriteWakes
    <3> QED BY <2>4, <3>1, Rests
  <2>7. /\ eventCB' = [eventCB EXCEPT ![q].bits = @ \cup events]
        /\ wish' = [wish EXCEPT ![t] = NoWish]
    BY <1>3, <2>1, <2>2 DEF WriteWakes
  <2>8. \A u \in TCB : u \notin T => wish'[u] = wish[u]
    BY <2>4, <2>7, EventInvIs DEF EventPart, WishInv
  <2> QED BY <2>1, <2>2, <2>3, <2>5, <2>6, <2>7, <2>8, EventWrites
<1>4. ASSUME NEW timeout \in EventTimeout, ReadWaits(t, timeout) PROVE EventStepOn(e)
  <2>1. ReadQueues(t) /\ UNCHANGED <<eventCB, wish>>
    BY <1>4, WaitMoves DEF ReadWaits, eventVars
  <2> QED BY <2>1, EventWaits
<1>5. ASSUME NEW q \in Event, LOS_EventInit(t, q) \/ EventDestroy(t, q) PROVE EventStepOn(e)
  <2>1. UNCHANGED taskVars /\ UNCHANGED wish
    BY <1>5 DEF LOS_EventInit, EventDestroy
  <2> QED BY <1>5, <2>1, ObjectOn
<1>6. ASSUME NEW q \in Event, NEW w \in Want, EventRead(t, q, w) PROVE EventStepOn(e)
  BY <1>6, BeginsOn DEF EventRead
<1>7. ASSUME NEW q \in Event, NEW events \in SUBSET Bit, EventWrite(t, q, events) PROVE EventStepOn(e)
  <2>1. PICK w : w = [wish[t] EXCEPT !.mask = events]
    OBVIOUS
  <2>2. wish' = [wish EXCEPT ![t] = w] /\ App(t, "eventWrite") /\ UNCHANGED eventCB /\ Call(t, kernel, <<"eventWrite">>, q)
    BY <1>7, <2>1 DEF EventWrite
  <2> QED BY <2>2, BeginsOn
<1>8. ASSUME NEW q \in Event, NEW keep \in SUBSET Bit, EventClear(t, q, keep) PROVE EventStepOn(e)
  BY <1>8, ClearOn
<1> QED BY <1>1, <1>2, <1>3, <1>4, <1>5, <1>6, <1>7, <1>8 DEF EventStep

LEMMA EventSimulates ==
    ASSUME Unprotected = {}, EventInv, [EventNext]_allEventVars, NEW e \in Event
    PROVE  EventStepOn(e)
<1>1. EventInv' /\ TaskInv /\ ObjInv
  BY EventNextInv, EventInvIs
<1>2. CASE TaskNext /\ Forget /\ UNCHANGED eventCB
  <2>1. ResultsGoOn
    BY <1>1, <1>2, TaskGoes
  <2>2. \A u \in TCB : AtResult(u)' => wish'[u] = wish[u]
    BY <1>2 DEF Forget, AtResult
  <2> QED BY <1>1, <1>2, <2>1, <2>2, EventTaskStep
<1>3. ASSUME NEW t \in TCB, EventStep(t) PROVE EventStepOn(e)
  BY <1>1, <1>3, EventStepSimulates
<1>4. ASSUME NEW q \in Event, NEW w \in Want, IsrEventPoll(q, w) PROVE EventStepOn(e)
  BY <1>1, <1>4, IsrPollOn
<1>5. ASSUME NEW q \in Event, NEW events \in SUBSET Bit, IsrEventWrite(q, events) PROVE EventStepOn(e)
  <2>1. PICK W : W = Awakened(q, events)
    OBVIOUS
  <2>2. PICK T : T = {}
    OBVIOUS
  <2>3. EventMoves(T, W)
    BY <1>5, <2>1, <2>2, IsrWriteMoves
  <2>4. (\A u \in T : ~AtResult(u)) /\ \A u \in TCB : u \notin T => wish'[u] = wish[u]
    BY <1>5, <2>2 DEF IsrEventWrite
  <2>5. eventCB' = [eventCB EXCEPT ![q].bits = @ \cup events] /\ eventCB[q].live
    BY <1>5 DEF IsrEventWrite
  <2> QED BY <1>1, <2>1, <2>3, <2>4, <2>5, EventWrites
<1>6. CASE UNCHANGED allEventVars
  <2>1. UNCHANGED taskVars /\ eventCB' = eventCB /\ wish' = wish
    BY <1>6 DEF allEventVars, taskVars
  <2>2. EventMoves({}, {})
    BY <2>1, NothingMoves
  <2>3. ReadersAre(e, ReadWaiting(e), ReadWoken(e), ReadTimedOut(e))
    BY <1>1, <2>1, <2>2, NobodyMoves
  <2> QED BY <2>1, <2>3, EventStutters
<1> QED BY <1>2, <1>3, <1>4, <1>5, <1>6 DEF EventNext

LEMMA EventStarts == EventInit => EventInv /\ \A e \in Event : AbstractEvent(e)!Init
<1> SUFFICES ASSUME EventInit PROVE EventInv /\ \A e \in Event : AbstractEvent(e)!Init
  OBVIOUS
<1>1. EventInv
  BY EventInitInv
<1>2. ASSUME NEW e \in Event PROVE AbstractEvent(e)!Init
  <2>1. InRead(e) = {}
    BY DEF InRead, EventInit, Init, TCB, Contains
  <2>2. Readers(ReadWaiting(e)) = {} /\ Readers(ReadWoken(e)) = {} /\ Readers(ReadTimedOut(e)) = {}
    BY <2>1 DEF Readers, ReadWaiting, ReadWoken, ReadTimedOut
  <2>3. eventCB[e].live = FALSE /\ eventCB[e].bits = {}
    BY DEF EventInit
  <2> QED BY <2>2, <2>3 DEF AbstractEvent!Init
<1> QED BY <1>1, <1>2

\* Each event is the set of bits that LOS_EventRead and LOS_EventWrite promise: a write
\* wakes exactly the readers that its bits suffice for; a read that need not wait takes
\* the bits of its own mask, a reader that was woken what is left of them, once, and a
\* late or a deleted one none, whatever comes between the steps of their calls.
THEOREM EveryEventIsOne ==
    ASSUME Unprotected = {}
    PROVE  EventSpec => EachIsAnEvent
<1>1. EventInit => EventInv /\ \A e \in Event : AbstractEvent(e)!Init
  BY EventStarts
<1>2. EventInv /\ [EventNext]_allEventVars => EventInv'
  BY EventNextInv
<1>3. EventInv /\ [EventNext]_allEventVars =>
         [\A e \in Event : EventStepOn(e)]_allEventVars
  BY EventSimulates
<1> QED BY <1>1, <1>2, <1>3, PTL DEF EventSpec, EachIsAnEvent

=============================================================================
