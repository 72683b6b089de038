---------------------------- MODULE LosMuxProofs ----------------------------
(***************************************************************************)
(* For any number of tasks and mutexes, any priorities and timeouts and    *)
(* any interleaving with interrupts: a mutex is locked if and only if it   *)
(* has an owner, nobody waits for one that has none, and inherited         *)
(* priorities are given back.                                              *)
(*                                                                         *)
(* As for the semaphores, that nobody waits on an unused control block is  *)
(* part of the invariant, since creation resets the owner; and the steps   *)
(* of the tasks may add no waiter (NextInv).  That an owner is a task is   *)
(* what lets its priority be changed.                                      *)
(*                                                                         *)
(* For the priorities the invariant is a ladder: the priorities that the   *)
(* mutexes of a task have saved go down, in number, from the first that it *)
(* got to the last, and the first has saved the priority that the task was *)
(* given.  A release takes the last rung away.  That no wait moves another *)
(* task, and that an owner lives, comes from ObjInv (LosListProofs) and    *)
(* HeldInv.                                                                *)
(***************************************************************************)
EXTENDS LosMuxRefinement, LosListProofs

MuxCB == [stat : {"USED", "UNUSED"}, count : 0 .. MaxDepth,
          owner : Task \cup {NoOwner}, priority : Prio]

MuxCBType ==
    /\ muxCB \in [Mux -> MuxCB]
    /\ unusedMux \in Seq(Mux)
    /\ held \in [Task -> Seq(Mux)]
    /\ \A m \in Mux : Owned(m) <=> muxCB[m].count > 0

GivenType == given \in [Task -> Prio]

MuxInv == TaskInv /\ MuxCBType /\ GivenType /\ WaitersHaveOwner

LEMMA MuxInitInv == MuxInit => MuxInv
<1> SUFFICES ASSUME MuxInit PROVE MuxInv
  OBVIOUS
<1>1. TaskInv
  BY InitInv DEF MuxInit
<1>2. /\ \A m \in Mux : kernel.pend[m] = <<>> /\ muxCB[m].count = 0 /\ ~Used(m) /\ ~Owned(m)
      /\ muxCB \in [Mux -> MuxCB]
  BY MuxAssumption, SchedAssumption DEF MuxInit, Init, WaitList, Used, Owned, MuxCB, Prio
<1>3. Cardinality(Mux) \in Nat
  BY MuxAssumption, FS_CardinalityType
<1>4. /\ unusedMux \in [1 .. Cardinality(Mux) -> Mux]
      /\ IsInjective(unusedMux)
      /\ \A m \in Mux : \E i \in 1 .. Cardinality(Mux) : unusedMux[i] = m
  BY DEF MuxInit, Bijection, Injection, Surjection, IsInjective
<1>5. unusedMux \in Seq(Mux) /\ Len(unusedMux) = Cardinality(Mux)
  BY <1>3, <1>4
<1>6. \A m \in Mux : Contains(unusedMux, m)
  BY <1>4, <1>5 DEF Contains
<1>7. held \in [Task -> Seq(Mux)] /\ GivenType
  BY SchedAssumption DEF MuxInit, GivenType, Prio
<1> QED BY <1>1, <1>2, <1>4, <1>5, <1>6, <1>7 DEF MuxInv, MuxCBType, WaitersHaveOwner

-----------------------------------------------------------------------------
(* The shapes of the actions; Record is a conjunct of all of them. *)

\* The priority that is recorded is one of a task.
LEMMA RecordPart ==
    ASSUME MuxInv, TaskInv', Record
    PROVE  GivenType'
<1>1. \A t \in Task : kernel'.priority[t] \in Prio
  BY DEF TaskInv, TaskTypeOK, SpecialTasks
<1> QED BY <1>1 DEF Record, MuxInv, GivenType

\* A step that leaves the control blocks alone and adds no waiter.
LEMMA OtherPart ==
    ASSUME MuxInv, TaskInv', NoNewObjWaiter, UNCHANGED muxVars, Record
    PROVE  MuxInv'
<1>1. \A m \in Mux : kernel.pend[m] = <<>> => kernel'.pend[m] = <<>>
  BY MuxAssumption DEF NoNewObjWaiter
<1>2. muxCB' = muxCB /\ unusedMux' = unusedMux /\ held' = held
  BY DEF muxVars
<1>3. GivenType'
  BY RecordPart
<1> QED BY <1>1, <1>2, <1>3 DEF MuxInv, MuxCBType, WaitersHaveOwner, Used, Owned

\* The control block of m becomes c, which is used as before; nobody waits for m
\* after the step, or m has an owner.
LEMMA ControlPart ==
    ASSUME MuxInv, TaskInv', NoNewObjWaiter, Record,
           NEW m \in Mux, NEW c \in MuxCB, c.stat = muxCB[m].stat,
           muxCB' = [muxCB EXCEPT ![m] = c], unusedMux' = unusedMux,
           held' \in [Task -> Seq(Mux)],
           c.owner # NoOwner <=> c.count > 0,
           kernel.pend[m] = <<>> \/ c.owner # NoOwner
    PROVE  MuxInv'
<1>1. \A z \in Mux : muxCB'[z] = IF z = m THEN c ELSE muxCB[z]
  BY DEF MuxInv, MuxCBType
<1>2. MuxCBType'
  BY <1>1 DEF MuxInv, MuxCBType, Owned
<1>3. \A z \in Mux : kernel.pend[z] = <<>> => kernel'.pend[z] = <<>>
  BY MuxAssumption DEF NoNewObjWaiter
<1>4. WaitersHaveOwner'
  <2>1. \A z \in Mux : Used(z)' <=> Used(z)
    BY <1>1 DEF Used
  <2>2. \A z \in Mux \ {m} : Owned(z)' <=> Owned(z)
    BY <1>1 DEF Owned
  <2>3. Owned(m)' <=> c.owner # NoOwner
    BY <1>1 DEF Owned
  <2> QED BY <1>3, <2>1, <2>2, <2>3 DEF MuxInv, WaitersHaveOwner
<1> QED BY <1>2, <1>4, RecordPart DEF MuxInv

LEMMA MuxType ==
    ASSUME MuxInv, NEW m \in Mux
    PROVE  /\ muxCB[m] \in MuxCB /\ muxCB[m].count \in 0 .. MaxDepth
           /\ muxCB[m].owner \in Task \cup {NoOwner} /\ muxCB[m].priority \in Prio
           /\ muxCB[m].count > 0 => muxCB[m].owner \in Task
  BY DEF MuxInv, MuxCBType, MuxCB, Owned

-----------------------------------------------------------------------------
(* The operations. *)

\* The head of the unused list is not used, and nobody waits for it.
LEMMA CreateMux ==
    ASSUME MuxInv, NEW t \in TCB, MuxCreate(t), Record
    PROVE  MuxInv'
<1> DEFINE m == Head(unusedMux)
           q == Tail(unusedMux)
           c == [stat |-> "USED", count |-> 0, owner |-> NoOwner, priority |-> 0]
<1>1. unusedMux \in Seq(Mux) /\ unusedMux # <<>> /\ IsInjective(unusedMux)
  BY DEF MuxCreate, MuxInv, MuxCBType, WaitersHaveOwner
<1>2. /\ m \in Mux /\ Contains(unusedMux, m)
      /\ q \in Seq(Mux) /\ IsInjective(q) /\ ~Contains(q, m)
      /\ \A z \in Mux \ {m} : Contains(q, z) <=> Contains(unusedMux, z)
  BY <1>1, TakeFirst
<1>3. /\ UNCHANGED taskVars /\ unusedMux' = q /\ held' = held
      /\ muxCB' = [muxCB EXCEPT ![m] = c]
  BY DEF MuxCreate
<1>4. c \in MuxCB /\ c.stat = "USED" /\ c.owner = NoOwner /\ c.count = 0
  BY MuxAssumption, SchedAssumption DEF MuxCB, Prio
<1> HIDE DEF m, q, c
<1>5. kernel.pend[m] = <<>>
  BY <1>2 DEF MuxInv, WaitersHaveOwner
<1>6. TaskInv' /\ kernel' = kernel
  BY <1>3, StutterInv DEF MuxInv, taskVars
<1>7. \A z \in Mux : muxCB'[z] = IF z = m THEN c ELSE muxCB[z]
  BY <1>3 DEF MuxInv, MuxCBType
<1>8. MuxCBType'
  BY <1>2, <1>3, <1>4, <1>7 DEF MuxInv, MuxCBType, Owned
<1>9. WaitersHaveOwner'
  BY <1>2, <1>3, <1>4, <1>5, <1>6, <1>7 DEF MuxInv, WaitersHaveOwner, Used, Owned
<1> QED BY <1>6, <1>8, <1>9, RecordPart DEF MuxInv

LEMMA DeleteMux ==
    ASSUME MuxInv, NEW t \in TCB, NEW m \in Mux, MuxDelete(t, m), Record
    PROVE  MuxInv'
<1> DEFINE q == <<m>> \o unusedMux
<1>1. /\ unusedMux \in Seq(Mux) /\ IsInjective(unusedMux) /\ ~Contains(unusedMux, m)
      /\ kernel.pend[m] = <<>>
  BY DEF MuxDelete, MuxDeleteValid, MuxInv, MuxCBType, WaitersHaveOwner
<1>2. /\ q \in Seq(Mux) /\ IsInjective(q) /\ Contains(q, m)
      /\ \A z \in Mux \ {m} : Contains(q, z) <=> Contains(unusedMux, z)
  BY <1>1, PutFirst
<1>3. /\ UNCHANGED taskVars /\ unusedMux' = q /\ held' = held
      /\ muxCB' = [muxCB EXCEPT ![m].stat = "UNUSED"]
  BY DEF MuxDelete
<1> HIDE DEF q
<1>4. TaskInv' /\ kernel' = kernel
  BY <1>3, StutterInv DEF MuxInv, taskVars
<1>5. \A z \in Mux : /\ muxCB'[z].count = muxCB[z].count /\ muxCB'[z].owner = muxCB[z].owner
                     /\ muxCB'[z].stat = IF z = m THEN "UNUSED" ELSE muxCB[z].stat
  BY <1>3 DEF MuxInv, MuxCBType, MuxCB
<1>6. MuxCBType'
  BY <1>2, <1>3, <1>5 DEF MuxInv, MuxCBType, MuxCB, Owned
<1>7. WaitersHaveOwner'
  BY <1>1, <1>2, <1>3, <1>4, <1>5 DEF MuxInv, WaitersHaveOwner, Used, Owned
<1> QED BY <1>4, <1>6, <1>7, RecordPart DEF MuxInv

\* Nobody waits for a mutex that is free.
LEMMA TakeMux ==
    ASSUME MuxInv, NEW t \in TCB, NEW m \in Mux, MuxTake(t, m), Record
    PROVE  MuxInv'
<1> DEFINE c == [muxCB[m] EXCEPT !.count = 1, !.owner = t, !.priority = kernel.priority[t]]
<1>1. t \in Task /\ UNCHANGED taskVars /\ unusedMux' = unusedMux
  BY DEF MuxTake, MuxPendValid, App
<1>2. kernel.priority[t] \in Prio
  BY <1>1 DEF MuxInv, TaskInv, TaskTypeOK, SpecialTasks
<1>3. c \in MuxCB /\ c.stat = muxCB[m].stat /\ c.count = 1 /\ c.owner = t /\ t # NoOwner
  <2>1. muxCB[m] \in MuxCB /\ 1 \in 0 .. MaxDepth
    BY MuxType, MuxAssumption
  <2>2. t # NoOwner
    BY MuxAssumption
  <2> QED BY <1>1, <1>2, <2>1, <2>2 DEF MuxCB
<1>4. muxCB' = [muxCB EXCEPT ![m] = c]
  BY DEF MuxTake, MuxInv, MuxCBType, MuxCB
<1> HIDE DEF c
<1>5. TaskInv' /\ NoNewObjWaiter
  BY <1>1, StutterInv DEF MuxInv
<1>6. held' \in [Task -> Seq(Mux)]
  BY <1>1 DEF MuxTake, MuxInv, MuxCBType
<1>7. kernel.pend[m] = <<>> \/ c.owner # NoOwner
  BY <1>3
<1>8. c.owner # NoOwner <=> c.count > 0
  BY <1>3
<1> QED BY <1>1, <1>3, <1>4, <1>5, <1>6, <1>7, <1>8, ControlPart

\* The count of m becomes n, and m has the owner it had.
LEMMA CountPart ==
    ASSUME MuxInv, NEW m \in Mux, NEW n \in 1 .. MaxDepth, Record,
           muxCB[m].count > 0, UNCHANGED <<taskVars, unusedMux, held>>,
           muxCB' = [muxCB EXCEPT ![m].count = n]
    PROVE  MuxInv'
<1> DEFINE c == [muxCB[m] EXCEPT !.count = n]
<1>1. muxCB[m].owner \in Task /\ NoOwner \notin Task
  BY MuxType, MuxAssumption DEF TCB
<1>2. /\ c \in MuxCB /\ c.stat = muxCB[m].stat /\ c.count = n /\ c.owner = muxCB[m].owner
  BY MuxType DEF MuxCB
<1>3. muxCB' = [muxCB EXCEPT ![m] = c]
  BY DEF MuxInv, MuxCBType, MuxCB
<1> HIDE DEF c
<1>4. TaskInv' /\ NoNewObjWaiter
  BY StutterInv DEF MuxInv
<1>5. held' \in [Task -> Seq(Mux)]
  BY DEF MuxInv, MuxCBType
<1>6. c.owner # NoOwner /\ c.count > 0
  BY <1>1, <1>2
<1> QED BY <1>2, <1>3, <1>4, <1>5, <1>6, ControlPart

LEMMA RepeatMux ==
    ASSUME MuxInv, NEW t \in TCB, NEW m \in Mux, MuxRepeat(t, m), Record
    PROVE  MuxInv'
<1> DEFINE n == muxCB[m].count + 1
<1>1. n \in 1 .. MaxDepth /\ muxCB[m].count > 0
  BY MuxAssumption DEF MuxRepeat
<1>2. muxCB' = [muxCB EXCEPT ![m].count = n] /\ UNCHANGED <<taskVars, unusedMux, held>>
  BY DEF MuxRepeat
<1> HIDE DEF n
<1> QED BY <1>1, <1>2, CountPart

LEMMA PostNestedMux ==
    ASSUME MuxInv, NEW t \in TCB, NEW m \in Mux, MuxPostNested(t, m), Record
    PROVE  MuxInv'
<1> DEFINE n == muxCB[m].count - 1
<1>1. n \in 1 .. MaxDepth /\ muxCB[m].count > 0
  BY MuxType, MuxAssumption DEF MuxPostNested
<1>2. muxCB' = [muxCB EXCEPT ![m].count = n] /\ UNCHANGED <<taskVars, unusedMux, held>>
  BY DEF MuxPostNested
<1> HIDE DEF n
<1> QED BY <1>1, <1>2, CountPart

\* The owner's priority is changed, and the running task is the one it was.
LEMMA InheritedKeeps ==
    ASSUME MuxInv, NEW t \in Task, NEW m \in Mux, muxCB[m].count > 0
    PROVE  Keeps(kernel, Inherited(t, m)) /\ Inherited(t, m).run = kernel.run
<1> DEFINE o == muxCB[m].owner
           p == kernel.priority[t]
<1>1. o \in Task /\ p \in Prio
  BY MuxType DEF MuxInv, TaskInv, TaskTypeOK, SpecialTasks
<1>2. WellFormed(kernel)
  BY InvWellFormed DEF MuxInv
<1> HIDE DEF o, p
<1>3. CASE kernel.priority[o] > p
  <2>1. Inherited(t, m) = OsSchedModifyTaskSchedParam(kernel, o, p)
    BY <1>3 DEF Inherited, o, p
  <2> QED BY <1>1, <1>2, <2>1, ModifyTaskSchedParamKeeps, ModifyTaskSchedParamRun
<1>4. CASE ~(kernel.priority[o] > p)
  <2>1. Inherited(t, m) = kernel
    BY <1>4 DEF Inherited, o, p
  <2> QED BY <1>2, <2>1, KeepsSelf
<1> QED BY <1>3, <1>4

LEMMA RestoredKeeps ==
    ASSUME MuxInv, NEW m \in Mux, muxCB[m].count > 0
    PROVE  Keeps(kernel, Restored(m))
<1>1. muxCB[m].owner \in Task /\ muxCB[m].priority \in Prio
  BY MuxType
<1>2. WellFormed(kernel)
  BY InvWellFormed DEF MuxInv
<1> QED BY <1>1, <1>2, KeepsSelf, ModifyTaskSchedParamKeeps DEF Restored

\* Only a task that finds the mutex owned waits.
LEMMA WaitMux ==
    ASSUME MuxInv, NEW t \in TCB, NEW m \in Mux, NEW timeout \in Timeout,
           MuxWait(t, m, timeout), Record
    PROVE  MuxInv'
<1> DEFINE i == Inherited(t, m)
           k == OsSchedTaskWait(i, m, timeout)
           steps == <<"schedule", "result">>
<1>1. /\ kernel' = k /\ UNCHANGED muxVars
      /\ todo' = [todo EXCEPT ![t] = steps]
      /\ arg' = [arg EXCEPT ![t] = IF steps = <<>> THEN NoArg ELSE m]
      /\ handles' = handles
  BY DEF MuxWait, Call
<1>2. /\ t \in Task /\ kernel.run = t /\ m \in WaitList
      /\ timeout \in (0 .. MaxDelay) \cup {NoTime}
      /\ Used(m) /\ muxCB[m].count > 0
  BY MuxAssumption DEF MuxWait, MuxPendValid, App, Thread, WaitList
<1>3. Keeps(kernel, i) /\ i.run \in Task
  BY <1>2, InheritedKeeps
<1> HIDE DEF i
<1>4. WellFormed(k) /\ \A o \in WaitList \ {m} : k.pend[o] = i.pend[o]
  BY <1>2, <1>3, KeepsWellFormed, TaskWaitKeeps
<1> HIDE DEF k
<1>5. steps \in Seq(Step) /\ ~ObjectIsTask(steps)
  BY DEF Step, ObjectIsTask
<1> HIDE DEF steps
<1>6. TaskInv'
  <2>1. TaskInv /\ WellFormed(kernel') /\ m \in WaitList \cup {NoArg}
    BY <1>1, <1>2, <1>4 DEF MuxInv
  <2>2. handles' \subseteq Task
    BY <1>1, <2>1 DEF TaskInv, TaskTypeOK
  <2> QED BY <1>1, <1>5, <2>1, <2>2, CallStep
<1>7. \A z \in Mux \ {m} : kernel.pend[z] = <<>> => kernel'.pend[z] = <<>>
  BY <1>1, <1>3, <1>4, MuxAssumption DEF WaitList, Keeps, NoNewWaiter
<1>8. muxCB' = muxCB /\ unusedMux' = unusedMux /\ held' = held
  BY <1>1 DEF muxVars
<1>9. MuxCBType'
  BY <1>8 DEF MuxInv, MuxCBType, Owned
<1>10. Owned(m)
  BY <1>2 DEF MuxInv, MuxCBType
<1>11. WaitersHaveOwner'
  BY <1>2, <1>7, <1>8, <1>10 DEF MuxInv, WaitersHaveOwner, Used, Owned
<1> QED BY <1>6, <1>9, <1>11, RecordPart DEF MuxInv

LEMMA ResultMux ==
    ASSUME MuxInv, NEW t \in TCB, MuxResult(t), Record
    PROVE  MuxInv'
<1> DEFINE k == [kernel EXCEPT !.status[t] = kernel.status[t] \ {"TIMEOUT"}]
<1>1. Doing(t, "result") /\ Continue(t, k) /\ UNCHANGED muxVars
  BY DEF MuxResult
<1>2. Keeps(kernel, k)
  <2>1. Fits(t, kernel.status[t] \ {"TIMEOUT"})
    BY InvWellFormed DEF MuxInv, Fits, WellFormed, SpecialTasks, SchedState
  <2> QED BY <2>1, InvWellFormed, StatusKeeps DEF MuxInv
<1> HIDE DEF k
<1>3. TaskInv' /\ NoNewObjWaiter
  BY <1>1, <1>2, ContinueKeeps DEF Doing, MuxInv
<1> QED BY <1>1, <1>3, OtherPart

LEMMA PostFreeMux ==
    ASSUME MuxInv, NEW t \in TCB, NEW m \in Mux, MuxPostFree(t, m), Record
    PROVE  MuxInv'
<1> DEFINE c == [muxCB[m] EXCEPT !.count = 0, !.owner = NoOwner]
<1>1. /\ muxCB[m].count > 0 /\ kernel.pend[m] = <<>> /\ unusedMux' = unusedMux
      /\ Call(t, Restored(m), <<>>, NoArg)
      /\ held' = [held EXCEPT ![t] = RemoveFirst(@, m)] /\ t \in Task
  BY MuxType DEF MuxPostFree, MuxPostValid, App
<1>2. /\ c \in MuxCB /\ c.stat = muxCB[m].stat /\ c.count = 0 /\ c.owner = NoOwner
  <2>1. muxCB[m] \in MuxCB /\ 0 \in 0 .. MaxDepth
    BY MuxType, MuxAssumption
  <2> QED BY <2>1 DEF MuxCB
<1>3. muxCB' = [muxCB EXCEPT ![m] = c]
  BY DEF MuxPostFree, MuxInv, MuxCBType, MuxCB
<1> HIDE DEF c
<1>4. TaskInv' /\ NoNewObjWaiter
  BY <1>1, RestoredKeeps, PlainSteps, CallKeeps DEF MuxInv
<1>5. held' \in [Task -> Seq(Mux)]
  BY <1>1, UnlinkType DEF MuxInv, MuxCBType, Unlink
<1>6. c.owner = NoOwner /\ ~(c.count > 0)
  BY <1>2
<1> QED BY <1>1, <1>2, <1>3, <1>4, <1>5, <1>6, ControlPart

\* The first waiter is the owner from now on.
LEMMA PostHandMux ==
    ASSUME MuxInv, NEW t \in TCB, NEW m \in Mux, MuxPostHand(t, m), Record
    PROVE  MuxInv'
<1> DEFINE w == Head(kernel.pend[m])
           c == [muxCB[m] EXCEPT !.owner = w, !.priority = kernel.priority[w]]
           k == OsSchedTaskWake(Restored(m), w)
<1>1. /\ muxCB[m].count = 1 /\ unusedMux' = unusedMux /\ t \in Task
      /\ Call(t, k, <<"schedule">>, NoArg)
      /\ held' = [held EXCEPT ![t] = RemoveFirst(@, m), ![w] = Append(@, m)]
  BY DEF MuxPostHand, MuxPostValid, App
<1>2. w \in Task
  <2>1. kernel.pend[m] \in Seq(Task) /\ kernel.pend[m] # <<>>
    BY MuxAssumption DEF MuxPostHand, MuxInv, TaskInv, TaskTypeOK, SchedState, WaitList
  <2> QED BY <2>1
<1>3. kernel.priority[w] \in Prio /\ w # NoOwner
  BY <1>2, MuxAssumption DEF MuxInv, TaskInv, TaskTypeOK, SpecialTasks, TCB
<1>4. /\ c \in MuxCB /\ c.stat = muxCB[m].stat /\ c.count = 1 /\ c.owner = w
  BY <1>1, <1>2, <1>3, MuxType DEF MuxCB
<1>5. muxCB' = [muxCB EXCEPT ![m] = c]
  BY DEF MuxPostHand, MuxInv, MuxCBType, MuxCB
<1>6. Keeps(kernel, k)
  BY <1>1, <1>2, RestoredKeeps, KeepsWellFormed, TaskWakeKeeps, KeepsTrans
<1> HIDE DEF w, c, k
<1>7. TaskInv' /\ NoNewObjWaiter
  BY <1>1, <1>6, PlainSteps, CallKeeps DEF MuxInv
<1>8. held' \in [Task -> Seq(Mux)]
  <2>1. RemoveFirst(held[t], m) \in Seq(Mux)
    BY <1>1, UnlinkType DEF MuxInv, MuxCBType, Unlink
  <2>2. held \in [Task -> Seq(Mux)]
    BY DEF MuxInv, MuxCBType
  <2> QED BY <1>1, <1>2, <2>1, <2>2
<1>9. c.owner # NoOwner /\ c.count > 0
  BY <1>3, <1>4
<1> QED BY <1>1, <1>4, <1>5, <1>7, <1>8, <1>9, ControlPart

-----------------------------------------------------------------------------

LEMMA MuxNextInv == MuxInv /\ [MuxNext]_allMuxVars => MuxInv'
<1> SUFFICES ASSUME MuxInv, [MuxNext]_allMuxVars PROVE MuxInv'
  OBVIOUS
<1>1. CASE TaskNext /\ UNCHANGED muxVars /\ Record
  BY <1>1, NextInv, OtherPart DEF MuxInv
<1>2. ASSUME NEW t \in TCB, MuxStep(t), Record PROVE MuxInv'
  BY <1>2, CreateMux, ResultMux, DeleteMux, TakeMux, RepeatMux, PostNestedMux,
     PostFreeMux, PostHandMux, WaitMux DEF MuxStep
<1>3. CASE UNCHANGED allMuxVars
  <2>1. UNCHANGED taskVars /\ UNCHANGED muxVars /\ given' = given
    BY <1>3 DEF allMuxVars, taskVars, muxVars
  <2>2. TaskInv' /\ kernel' = kernel
    BY <2>1, StutterInv DEF MuxInv, taskVars
  <2> QED BY <2>1, <2>2
          DEF muxVars, MuxInv, MuxCBType, GivenType, WaitersHaveOwner, Used, Owned
<1> QED BY <1>1, <1>2, <1>3 DEF MuxNext

\* Whatever the tasks, interrupts and timeouts do, every control block keeps its
\* type, and a mutex is locked if and only if it has an owner.
THEOREM MuxTypes == MuxSpec => []MuxTypeOK
<1>1. MuxInv => MuxTypeOK
  BY DEF MuxInv, MuxCBType, MuxCB, GivenType, MuxTypeOK, TaskInv
<1> QED BY <1>1, MuxInitInv, MuxNextInv, PTL DEF MuxSpec

\* Whoever waits, waits for a mutex that exists and has an owner, also when owners
\* are deleted or mutexes released in any order.
THEOREM WaitersAreOwned == MuxSpec => []WaitersHaveOwner
<1>1. MuxInv => WaitersHaveOwner
  BY DEF MuxInv
<1> QED BY <1>1, MuxInitInv, MuxNextInv, PTL DEF MuxSpec

-----------------------------------------------------------------------------
(* No step of the tasks changes the priority of a task that is there, but   *)
(* LOS_TaskPriSet.                                                          *)

SamePriority(k, r) ==
    "priority" \in DOMAIN k => "priority" \in DOMAIN r /\ r.priority = k.priority

LEMMA PriorityTrans ==
    ASSUME NEW k, NEW m, NEW r, SamePriority(k, m), SamePriority(m, r)
    PROVE  SamePriority(k, r)
  BY DEF SamePriority

\* A task joins or leaves the ready queues,
LEMMA QueuesKeepPriority ==
    ASSUME NEW k, NEW t
    PROVE  /\ SamePriority(k, OsSchedTaskEnQueue(k, t))
           /\ SamePriority(k, OsSchedTaskDeQueue(k, t))
<1>1. SamePriority(k, ReadyQueueIn(k, t))
  BY DEF SamePriority, ReadyQueueIn, OsSchedPriQueueEnHead, OsSchedPriQueueEnTail
<1>2. SamePriority(k, OsSchedPriQueueDelete(k, t))
  BY DEF SamePriority, OsSchedPriQueueDelete
<1>3. \A r, S : SamePriority(r, [r EXCEPT !.status[t] = S]) /\ SamePriority(r, [r EXCEPT !.panic = TRUE])
  BY DEF SamePriority
<1>4. SamePriority(k, OsSchedTaskEnQueue(k, t))
  BY <1>1, <1>3, PriorityTrans DEF OsSchedTaskEnQueue
<1>5. SamePriority(k, k)
  BY DEF SamePriority
<1> QED BY <1>2, <1>3, <1>4, <1>5, PriorityTrans DEF OsSchedTaskDeQueue

\* or the wait lists and the sort link,
LEMMA ListsKeepPriority ==
    ASSUME NEW k, NEW t, NEW o, NEW ticks
    PROVE  /\ SamePriority(k, LeaveWaitList(k, t))
           /\ SamePriority(k, OsAdd2SortLink(k, t))
           /\ SamePriority(k, OsDeleteNodeSortLink(k, t))
           /\ SamePriority(k, OsDeleteSortLink(k, t))
           /\ SamePriority(k, OsSchedTaskWait(k, o, ticks))
           /\ SamePriority(k, OsSchedYield(k))
           /\ SamePriority(k, OsSchedDelay(k, ticks))
           /\ SamePriority(k, OsTimeSliceUpdate(k, ticks))
           /\ SamePriority(k, LOS_Schedule(k))
           /\ SamePriority(k, Elapse(k))
<1>1. /\ SamePriority(k, LeaveWaitList(k, t)) /\ SamePriority(k, OsAdd2SortLink(k, t))
      /\ SamePriority(k, OsDeleteNodeSortLink(k, t)) /\ SamePriority(k, OsDeleteSortLink(k, t))
  BY DEF SamePriority, LeaveWaitList, OsAdd2SortLink, OsDeleteNodeSortLink, OsDeleteSortLink
<1>2. SamePriority(k, OsSchedTaskWait(k, o, ticks))
  BY DEF SamePriority, OsSchedTaskWait
<1>3. /\ SamePriority(k, OsSchedYield(k)) /\ SamePriority(k, OsSchedDelay(k, ticks))
      /\ SamePriority(k, OsTimeSliceUpdate(k, ticks)) /\ SamePriority(k, LOS_Schedule(k))
      /\ SamePriority(k, Elapse(k))
  BY DEF SamePriority, OsSchedYield, OsSchedDelay, OsTimeSliceUpdate, LOS_Schedule, Elapse
<1> QED BY <1>1, <1>2, <1>3

LEMMA AskKeepsPriority ==
    ASSUME NEW k, NEW r, SamePriority(k, r)
    PROVE  SamePriority(k, LOS_Schedule(r))
  BY DEF SamePriority, LOS_Schedule

LEMMA FlagsKeepPriority ==
    ASSUME NEW k, NEW t, NEW S
    PROVE  SamePriority(k, [k EXCEPT !.status[t] = S])
  BY DEF SamePriority

\* is woken, suspended or resumed, or exits,
LEMMA WakesKeepPriority ==
    ASSUME NEW k, NEW t
    PROVE  /\ SamePriority(k, OsSchedTaskWake(k, t))
           /\ SamePriority(k, OsSchedWakePendTimeTask(k, t))
           /\ SamePriority(k, OsSchedSuspend(k, t))
           /\ SamePriority(k, OsSchedResume(k, t))
           /\ SamePriority(k, OsSchedTaskExit(k, t))
<1>0. SamePriority(k, k)
  BY DEF SamePriority
<1>1. SamePriority(k, OsSchedTaskWake(k, t))
  <2> DEFINE k1 == [LeaveWaitList(k, t) EXCEPT !.status[t] = @ \ {"PEND"}]
             k2 == ClearPendTime(k1, t)
  <2>1. SamePriority(k, k1)
    BY ListsKeepPriority, FlagsKeepPriority, PriorityTrans
  <2> HIDE DEF k1
  <2>2. SamePriority(k1, k1)
    BY DEF SamePriority
  <2>3. SamePriority(k1, k2)
    BY <2>2, ListsKeepPriority, FlagsKeepPriority, PriorityTrans DEF ClearPendTime
  <2> HIDE DEF k2
  <2>4. SamePriority(k, k2) /\ SamePriority(k, OsSchedTaskEnQueue(k2, t))
    BY <2>1, <2>3, QueuesKeepPriority, PriorityTrans
  <2>5. OsSchedTaskWake(k, t) = k2 \/ OsSchedTaskWake(k, t) = OsSchedTaskEnQueue(k2, t)
    BY DEF OsSchedTaskWake, k1, k2
  <2> QED BY <2>4, <2>5
<1>2. SamePriority(k, OsSchedWakePendTimeTask(k, t))
  <2> DEFINE k1 == [k EXCEPT !.status[t] = @ \ {"PEND", "PEND_TIME", "DELAY"}]
             l  == [LeaveWaitList(k1, t) EXCEPT !.status[t] = @ \cup {"TIMEOUT"}]
             k2 == IF Has(k, t, {"PEND"}) THEN l ELSE k1
  <2>1. SamePriority(k, k1)
    BY FlagsKeepPriority
  <2> HIDE DEF k1
  <2>2. SamePriority(k, l)
    BY <2>1, ListsKeepPriority, FlagsKeepPriority, PriorityTrans
  <2> HIDE DEF l
  <2>3. SamePriority(k, k2)
    BY <2>1, <2>2
  <2> HIDE DEF k2
  <2>4. SamePriority(k, OsSchedTaskEnQueue(k2, t))
    BY <2>3, QueuesKeepPriority, PriorityTrans
  <2>5. OsSchedWakePendTimeTask(k, t) \in {k, k2, OsSchedTaskEnQueue(k2, t)}
    BY DEF OsSchedWakePendTimeTask, k1, l, k2
  <2> QED BY <1>0, <2>3, <2>4, <2>5
<1>3. SamePriority(k, OsSchedSuspend(k, t))
  BY QueuesKeepPriority, FlagsKeepPriority, PriorityTrans DEF OsSchedSuspend
<1>4. SamePriority(k, OsSchedResume(k, t))
  BY QueuesKeepPriority, FlagsKeepPriority, PriorityTrans DEF OsSchedResume
<1>5. SamePriority(k, OsSchedTaskExit(k, t))
  <2> DEFINE l  == [LeaveWaitList(k, t) EXCEPT !.status[t] = @ \ {"PEND"}]
             k1 == IF Has(k, t, {"READY"}) THEN OsSchedTaskDeQueue(k, t)
                   ELSE IF Has(k, t, {"PEND"}) THEN l ELSE k
             d  == [OsDeleteSortLink(k1, t) EXCEPT !.status[t] = @ \ {"DELAY", "PEND_TIME"}]
             k2 == IF Has(k1, t, {"DELAY", "PEND_TIME"}) THEN d ELSE k1
  <2>1. SamePriority(k, l)
    BY ListsKeepPriority, FlagsKeepPriority, PriorityTrans
  <2> HIDE DEF l
  <2>2. SamePriority(k, k1)
    BY <1>0, <2>1, QueuesKeepPriority
  <2> HIDE DEF k1
  <2>3. SamePriority(k, d)
    BY <2>2, ListsKeepPriority, FlagsKeepPriority, PriorityTrans
  <2> HIDE DEF d
  <2>4. SamePriority(k, k2)
    BY <2>2, <2>3
  <2> HIDE DEF k2
  <2>5. OsSchedTaskExit(k, t) = [k2 EXCEPT !.status[t] = @ \cup {"EXIT"}]
    BY DEF OsSchedTaskExit, l, k1, d, k2
  <2> QED BY <2>4, <2>5, FlagsKeepPriority, PriorityTrans
<1> QED BY <1>1, <1>2, <1>3, <1>4, <1>5

\* gets the processor or gives it up.
LEMMA SwitchKeepsPriority ==
    ASSUME NEW k
    PROVE  SamePriority(k, OsSchedStart(k)) /\ SamePriority(k, OsSchedTaskSwitch(k))
<1>0. SamePriority(k, k)
  BY DEF SamePriority
<1>1. \A m, n, S : SamePriority(m, [m EXCEPT !.status[n] = S, !.run = n])
  BY DEF SamePriority
<1>2. \A m : SamePriority(m, [m EXCEPT !.started = TRUE]) /\ SamePriority(m, [m EXCEPT !.pendSV = FALSE])
  BY DEF SamePriority
<1>3. SamePriority(k, OsSchedStart(k))
  <2> DEFINE n == OsGetTopTask(k)
             k1 == [k EXCEPT !.status[n] = @ \cup {"RUNNING"}, !.run = n]
  <2>1. SamePriority(k, k1)
    BY <1>1
  <2> HIDE DEF k1
  <2>2. SamePriority(k, OsSchedTaskDeQueue(k1, n))
    BY <2>1, QueuesKeepPriority, PriorityTrans
  <2>3. OsSchedStart(k) = [OsSchedTaskDeQueue(k1, n) EXCEPT !.started = TRUE]
    BY DEF OsSchedStart, k1
  <2> QED BY <1>2, <2>2, <2>3, PriorityTrans
<1>4. SamePriority(k, OsSchedTaskSwitch(k))
  <2> DEFINE k1 == PutBack(k)
             n  == OsGetTopTask(k1)
             k2 == [k1 EXCEPT !.status[k.run] = @ \ {"RUNNING"}]
             k3 == [k2 EXCEPT !.status[n] = @ \cup {"RUNNING"}, !.run = n]
  <2>1. SamePriority(k, k1)
    BY <1>0, ListsKeepPriority, QueuesKeepPriority DEF PutBack
  <2> HIDE DEF k1
  <2>2. SamePriority(k, k2)
    BY <2>1, FlagsKeepPriority, PriorityTrans
  <2> HIDE DEF k2
  <2>3. SamePriority(k, k3)
    BY <1>1, <2>2, PriorityTrans
  <2> HIDE DEF k3
  <2>4. SamePriority(k, OsSchedTaskDeQueue(k3, n))
    BY <2>3, QueuesKeepPriority, PriorityTrans
  <2>5. \/ OsSchedTaskSwitch(k) = k1
        \/ OsSchedTaskSwitch(k) = [OsSchedTaskDeQueue(k3, n) EXCEPT !.pendSV = FALSE]
    BY DEF OsSchedTaskSwitch, k1, k2, k3
  <2> QED BY <1>2, <2>1, <2>4, <2>5, PriorityTrans
<1> QED BY <1>3, <1>4

\* A TCB that is freed is nobody's.
LEMMA FreeingKeepsPriority ==
    ASSUME NEW k, WellFormed(k), NEW t, NEW r,
           r = OsInsertTCBToFreeList(k, t) \/ r = OsRecycleTaskResources(k, t),
           NEW x \in Task, "UNUSED" \notin r.status[x]
    PROVE  r.priority[x] = k.priority[x]
<1>1. ASSUME NEW m, m = k \/ m = [k EXCEPT !.status[t] = @ \ {"STACK_FREE"}], r = OsInsertTCBToFreeList(m, t)
      PROVE  r.priority[x] = k.priority[x]
  <2>1. /\ "priority" \in DOMAIN m /\ "status" \in DOMAIN m
        /\ x \in DOMAIN m.status /\ x \in DOMAIN m.priority /\ m.priority = k.priority
    BY <1>1 DEF WellFormed, SchedState, TCB
  <2>2. /\ r.priority = [m.priority EXCEPT ![t] = 0]
        /\ r.status = [m.status EXCEPT ![t] = {"UNUSED"}]
    BY <1>1, <2>1 DEF OsInsertTCBToFreeList
  <2> QED BY <2>1, <2>2
<1>2. CASE r = OsInsertTCBToFreeList(k, t)
  BY <1>1, <1>2
<1>3. CASE r = OsRecycleTaskResources(k, t)
  <2> DEFINE m == [k EXCEPT !.status[t] = @ \ {"STACK_FREE"}]
  <2>1. m.priority = k.priority
    BY DEF WellFormed, SchedState
  <2>2. r = m \/ r = OsInsertTCBToFreeList(m, t)
    BY <1>3 DEF OsRecycleTaskResources
  <2>3. m = [k EXCEPT !.status[t] = @ \ {"STACK_FREE"}]
    OBVIOUS
  <2> HIDE DEF m
  <2> QED BY <1>1, <2>1, <2>2, <2>3
<1> QED BY <1>2, <1>3

\* The end of a task changes no priority.
LEMMA ExitKeepsPriority ==
    ASSUME WellFormed(kernel), NEW x
    PROVE  SamePriority(kernel, Exited(x))
<1> DEFINE u == IF Has(kernel, x, {"RUNNING"}) THEN [kernel EXCEPT !.lock = 0] ELSE kernel
           j == OsTaskJoinPostUnsafe(u, x)
<1>1. SamePriority(kernel, u)
  BY DEF SamePriority
<1> HIDE DEF u
<1>2. SamePriority(u, j)
  <2>1. SamePriority(u, u)
    BY DEF SamePriority
  <2> QED BY <2>1, WakesKeepPriority DEF OsTaskJoinPostUnsafe
<1> HIDE DEF j
<1>3. Exited(x) = OsSchedTaskExit(j, x)
  BY DEF Exited, u, j
<1> QED BY <1>1, <1>2, <1>3, WakesKeepPriority, PriorityTrans

\* A task that is there, and stays, keeps its priority.
SamePriorities == \A x \in Task : Created(x) /\ Created(x)' => kernel'.priority[x] = kernel.priority[x]

LEMMA KeptPriorities ==
    ASSUME WellFormed(kernel), SamePriority(kernel, kernel')
    PROVE  SamePriorities
  BY DEF SamePriority, SamePriorities, WellFormed, SchedState

LEMMA FreeingPriorities ==
    ASSUME TaskInv, NEW t \in TCB,
           \/ OsRecycleFinishedTask(t) \/ NoStack(t) \/ JoinReclaim(t)
           \/ \E y \in Task : DeleteOther(t, y)
    PROVE  SamePriorities
<1>0. WellFormed(kernel)
  BY InvWellFormed
<1>1. SUFFICES ASSUME NEW x \in Task, Created(x), Created(x)' PROVE kernel'.priority[x] = kernel.priority[x]
  BY DEF SamePriorities
<1>2. "UNUSED" \notin kernel'.status[x]
  BY <1>1 DEF Created
<1>3. CASE OsRecycleFinishedTask(t)
  <2> DEFINE s == Tail(kernel.recycle)
             k == [kernel EXCEPT !.recycle = s]
  <2>0. s \in Seq(Task)
    BY <1>0, <1>3 DEF OsRecycleFinishedTask, WellFormed, SchedState
  <2> HIDE DEF s
  <2>1. WellFormed(k) /\ k.priority = kernel.priority
    <3>1. Keeps(kernel, k)
      BY <1>0, <2>0, ListFieldKeeps
    <3>2. k.priority = kernel.priority
      BY <1>0 DEF WellFormed, SchedState
    <3> HIDE DEF k
    <3> QED BY <3>1, <3>2, KeepsWellFormed
  <2>2. kernel' = OsRecycleTaskResources(k, Head(kernel.recycle))
    BY <1>3 DEF OsRecycleFinishedTask, s
  <2> HIDE DEF k
  <2> QED BY <1>2, <2>1, <2>2, FreeingKeepsPriority
<1>4. CASE NoStack(t)
  <2>1. kernel' = OsInsertTCBToFreeList(kernel, arg[t])
    BY <1>4 DEF NoStack, Continue, Call
  <2> QED BY <1>0, <1>2, <2>1, FreeingKeepsPriority
<1>5. CASE JoinReclaim(t)
  <2> DEFINE y == arg[t]
             k == [kernel EXCEPT !.status[y] = @ \ {"JOINABLE"}]
  <2>1. y \in Task
    BY <1>5, DoingArg DEF Step, JoinReclaim
  <2>2. WellFormed(k) /\ k.priority = kernel.priority
    <3>1. Keeps(kernel, k)
      BY <1>0, <2>1, DropFlagsKeeps
    <3>2. k.priority = kernel.priority
      BY <1>0 DEF WellFormed, SchedState
    <3> HIDE DEF k
    <3> QED BY <3>1, <3>2, KeepsWellFormed
  <2>3. kernel' = OsRecycleTaskResources(k, y)
    BY <1>5 DEF JoinReclaim, Continue, Call
  <2> HIDE DEF k, y
  <2> QED BY <1>2, <2>2, <2>3, FreeingKeepsPriority
<1>6. ASSUME NEW y \in Task, DeleteOther(t, y) PROVE kernel'.priority[x] = kernel.priority[x]
  <2> DEFINE k == Exited(y)
  <2>1. WellFormed(k) /\ SamePriority(kernel, k)
    BY <1>0, ExitedKeeps, KeepsWellFormed, ExitKeepsPriority
  <2>2. kernel' = OsRecycleTaskResources(k, y)
    BY <1>6 DEF DeleteOther
  <2> HIDE DEF k
  <2>3. kernel'.priority[x] = k.priority[x]
    BY <1>2, <2>1, <2>2, FreeingKeepsPriority
  <2> QED BY <1>0, <2>1, <2>3 DEF SamePriority, WellFormed, SchedState
<1> QED BY <1>3, <1>4, <1>5, <1>6

LEMMA TakePriorities ==
    ASSUME TaskInv, SafeInv, NEW t \in TCB, TakeTcb(t)
    PROVE  SamePriorities
<1>0. WellFormed(kernel)
  BY InvWellFormed
<1>1. PICK y \in Task : TcbTaken(t, y)
  BY TakeTcbSafe
<1> DEFINE h == Head(kernel.free)
<1>2. h \in Task /\ "UNUSED" \in kernel.status[h]
  <2>1. kernel.free \in Seq(Task) /\ kernel.free # <<>>
    BY <1>0 DEF TakeTcb, WellFormed, SchedState
  <2>2. h \in Task /\ Contains(kernel.free, h)
    BY <2>1, EmptyList
  <2> QED BY <2>2, SafeKernel DEF Placed
<1>3. \A x \in Task : x # h => kernel'.priority[x] = kernel.priority[x]
  <2>1. PICK p \in CreatePrio, joinable \in BOOLEAN, rest \in {<<>>, <<"enqueue">>, <<"noStack">>} :
           kernel' = [OsNewTaskInit([kernel EXCEPT !.free = Tail(@)], h, p, joinable) EXCEPT !.status[h] =
                                IF rest = <<"noStack">> THEN @ ELSE @ \cup {"STACK_FREE"}]
    BY DEF TakeTcb
  <2>2. kernel'.priority = [kernel.priority EXCEPT ![h] = p]
    BY <1>0, <2>1 DEF OsNewTaskInit, WellFormed, SchedState
  <2> QED BY <1>0, <2>2 DEF WellFormed, SchedState, TCB
<1> HIDE DEF h
<1> QED BY <1>2, <1>3 DEF SamePriorities, Created

\* So the priorities of the tasks are the business of LOS_TaskPriSet and the mutexes.
LEMMA PrioritiesStay ==
    ASSUME TaskInv, SafeInv, "priset" \notin Calls, [TaskNext]_taskVars
    PROVE  SamePriorities
<1>0. WellFormed(kernel) /\ SamePriority(kernel, kernel)
  BY InvWellFormed DEF SamePriority
<1>1. CASE UNCHANGED taskVars
  BY <1>1 DEF taskVars, SamePriorities
<1>2. CASE Start \/ PendSV
  <2>1. SamePriority(kernel, kernel')
    BY <1>2, SwitchKeepsPriority, ListsKeepPriority, PriorityTrans DEF Start, PendSV
  <2> QED BY <1>0, <2>1, KeptPriorities
<1>3. CASE TimerStep \/ IsrStep
  <2>1. CASE TickStart
    <3>1. SamePriority(Elapse(kernel), [Elapse(kernel) EXCEPT !.tick = TRUE])
      BY DEF SamePriority
    <3>2. SamePriority(kernel, kernel')
      BY <2>1, <3>1, ListsKeepPriority, PriorityTrans DEF TickStart
    <3> QED BY <1>0, <3>2, KeptPriorities
  <2>2. CASE TickScan
    <3>1. SamePriority(kernel, kernel')
      BY <2>2, ListsKeepPriority, WakesKeepPriority, PriorityTrans DEF TickScan
    <3> QED BY <1>0, <3>1, KeptPriorities
  <2>3. CASE TickEnd \/ SliceEnd
    <3>1. \A k : SamePriority(k, [k EXCEPT !.tick = FALSE])
      BY DEF SamePriority
    <3>2. PICK used : LET u == OsTimeSliceUpdate(kernel, used)
                      IN  kernel' = LOS_Schedule([u EXCEPT !.tick = FALSE]) \/ kernel' = LOS_Schedule(u)
      BY <2>3 DEF TickEnd, SliceEnd
    <3> DEFINE u == OsTimeSliceUpdate(kernel, used)
    <3>3. SamePriority(kernel, u)
      BY ListsKeepPriority
    <3> HIDE DEF u
    <3>4. SamePriority(kernel, [u EXCEPT !.tick = FALSE])
      BY <3>1, <3>3, PriorityTrans
    <3>5. kernel' = LOS_Schedule([u EXCEPT !.tick = FALSE]) \/ kernel' = LOS_Schedule(u)
      BY <3>2 DEF u
    <3>6. SamePriority(kernel, kernel')
      BY <3>3, <3>4, <3>5, AskKeepsPriority
    <3> QED BY <1>0, <3>6, KeptPriorities
  <2>4. ASSUME NEW x \in Task, IsrTaskResume(x) \/ IsrTaskSuspend(x) PROVE SamePriorities
    <3>1. PICK k : /\ k = OsSchedResume(kernel, x) \/ k = OsSchedSuspend(kernel, x)
                   /\ kernel' = k \/ kernel' = LOS_Schedule(k)
      BY <2>4 DEF IsrTaskResume, IsrTaskSuspend
    <3>2. SamePriority(kernel, k)
      BY <3>1, WakesKeepPriority
    <3>3. SamePriority(kernel, kernel')
      BY <3>1, <3>2, AskKeepsPriority
    <3> QED BY <1>0, <3>3, KeptPriorities
  <2> QED BY <1>3, <2>1, <2>2, <2>3, <2>4 DEF TimerStep, IsrStep
<1>4. ASSUME NEW t \in TCB, TaskStep(t) PROVE SamePriorities
  <2>1. CASE \/ OsRecycleFinishedTask(t) \/ NoStack(t) \/ JoinReclaim(t)
             \/ \E x \in Task : DeleteOther(t, x)
    BY <2>1, FreeingPriorities
  <2>2. CASE TakeTcb(t)
    BY <2>2, TakePriorities
  <2>3. CASE \/ TaskCreate(t) \/ NothingToRecycle(t) \/ NoTcb(t) \/ EnqueueNewTask(t) \/ Schedule(t)
             \/ TaskYield(t) \/ TaskLock(t) \/ TaskUnlock(t)
    <3>1. \A n : SamePriority(kernel, [kernel EXCEPT !.lock = n])
      BY DEF SamePriority
    <3>2. \/ kernel' = kernel \/ kernel' = OsSchedTaskEnQueue(kernel, arg[t])
          \/ kernel' = LOS_Schedule(kernel) \/ kernel' = OsSchedYield(kernel)
          \/ kernel' = [kernel EXCEPT !.lock = @ + 1] \/ kernel' = [kernel EXCEPT !.lock = @ - 1]
      BY <2>3 DEF TaskCreate, NothingToRecycle, NoTcb, EnqueueNewTask, Schedule, TaskYield, TaskLock,
                  TaskUnlock, Call, Continue
    <3>3. SamePriority(kernel, kernel')
      BY <1>0, <3>1, <3>2, QueuesKeepPriority, ListsKeepPriority
    <3> QED BY <1>0, <3>3, KeptPriorities
  <2>4. CASE DeleteSelf(t)
    <3>1. SamePriority(kernel, Exited(t))
      BY <1>0, ExitKeepsPriority
    <3>2. SamePriority(Exited(t), OsRunningTaskDelete(Exited(t), t))
      BY DEF SamePriority, OsRunningTaskDelete
    <3>3. SamePriority(kernel, kernel')
      BY <2>4, <3>1, <3>2, PriorityTrans DEF DeleteSelf, Call
    <3> QED BY <1>0, <3>3, KeptPriorities
  <2>5. CASE \E d \in Delay : TaskDelay(t, d)
    <3>1. SamePriority(kernel, kernel')
      BY <2>5, ListsKeepPriority DEF TaskDelay, Call
    <3> QED BY <1>0, <3>1, KeptPriorities
  <2>6. ASSUME NEW x \in Task,
               TaskResume(t, x) \/ TaskSuspend(t, x) \/ TaskJoin(t, x) \/ TaskDetach(t, x)
        PROVE  SamePriorities
    <3>1. \/ kernel' = kernel \/ kernel' = OsSchedResume(kernel, x) \/ kernel' = OsSchedSuspend(kernel, x)
          \/ kernel' = OsSchedTaskWait(kernel, x, NoTime)
          \/ kernel' = [kernel EXCEPT !.status[x] = @ \ {"JOINABLE"}]
      BY <2>6 DEF TaskResume, TaskSuspend, TaskJoin, JoinPend, TaskDetach, Call
    <3>2. /\ SamePriority(kernel, OsSchedResume(kernel, x)) /\ SamePriority(kernel, OsSchedSuspend(kernel, x))
          /\ SamePriority(kernel, OsSchedTaskWait(kernel, x, NoTime))
      BY WakesKeepPriority, ListsKeepPriority
    <3>3. SamePriority(kernel, [kernel EXCEPT !.status[x] = @ \ {"JOINABLE"}])
      BY FlagsKeepPriority
    <3>4. SamePriority(kernel, kernel')
      BY <1>0, <3>1, <3>2, <3>3
    <3> QED BY <1>0, <3>4, KeptPriorities
  <2>7. ASSUME NEW x \in Task, NEW p \in CreatePrio, TaskPriSet(t, x, p) PROVE FALSE
    BY <2>7 DEF TaskPriSet, App
  <2> QED BY <1>4, <2>1, <2>2, <2>3, <2>4, <2>5, <2>6, <2>7 DEF TaskStep
<1> QED BY <1>1, <1>2, <1>3, <1>4 DEF TaskNext

-----------------------------------------------------------------------------
(* What the priorities that the mutexes have saved are, from the first that *)
(* a task owns to the last.                                                 *)

Holds(t, m) == muxCB[m].owner = t

\* held is what the control blocks say, and an owner lives.
HeldInv ==
    /\ \A t \in Task : IsInjective(held[t])
    /\ \A t \in Task, m \in Mux : Contains(held[t], m) <=> Holds(t, m)
    /\ \A m \in Mux : Owned(m) =>
          Used(m) /\ kernel.status[muxCB[m].owner] \cap {"EXIT", "UNUSED"} = {}

Saved(t, i) == muxCB[held[t][i]].priority

\* The first mutex has saved the priority that t was given, each further one what t
\* had by then inherited, and t may have inherited more since.
Ladder(t) ==
    IF held[t] = <<>> THEN kernel.priority[t] = given[t]
    ELSE /\ Saved(t, 1) = given[t]
         /\ \A i, j \in 1 .. Len(held[t]) : i < j => Saved(t, j) <= Saved(t, i)
         /\ kernel.priority[t] <= Saved(t, Len(held[t]))

LadderInv == \A t \in Task : Created(t) => Ladder(t)

OwnInv == MuxInv /\ ObjInv /\ HeldInv

PriorityInv == OwnInv /\ LadderInv

\* The flags tell the same of a task's life as before.
SameLives == \A x \in Task : /\ "EXIT" \in kernel'.status[x] <=> "EXIT" \in kernel.status[x]
                             /\ "UNUSED" \in kernel'.status[x] <=> "UNUSED" \in kernel.status[x]

\* A task keeps what it owns, what that has saved, and its priority.
LEMMA LadderStays ==
    ASSUME Record, NEW t \in Task, Created(t), Ladder(t), held'[t] = held[t],
           \A i \in 1 .. Len(held[t]) : muxCB'[held[t][i]].priority = muxCB[held[t][i]].priority,
           held[t] \in Seq(Mux), kernel'.priority[t] = kernel.priority[t]
    PROVE  Ladder(t)'
<1>1. given'[t] = given[t]
  BY DEF Record
<1>2. CASE held[t] = <<>>
  BY <1>1, <1>2 DEF Ladder
<1>3. CASE held[t] # <<>>
  <2>1. Len(held[t]) \in Nat \ {0}
    BY <1>3
  <2>2. \A i \in 1 .. Len(held[t]) : Saved(t, i)' = Saved(t, i)
    BY DEF Saved
  <2>3. 1 \in 1 .. Len(held[t]) /\ Len(held[t]) \in 1 .. Len(held[t])
    BY <2>1
  <2> QED BY <1>1, <1>3, <2>2, <2>3 DEF Ladder
<1> QED BY <1>2, <1>3

\* It gets another one, whose control block saves its priority.
LEMMA LadderGrows ==
    ASSUME MuxInv, Record, NEW t \in Task, Created(t), Ladder(t), NEW m \in Mux,
           held'[t] = Append(held[t], m), held[t] \in Seq(Mux),
           \A i \in 1 .. Len(held[t]) : muxCB'[held[t][i]].priority = muxCB[held[t][i]].priority,
           muxCB'[m].priority = kernel.priority[t],
           kernel'.priority[t] = kernel.priority[t]
    PROVE  Ladder(t)'
<1>0. PICK n \in Nat : n = Len(held[t])
  OBVIOUS
<1>1. given'[t] = given[t]
  BY DEF Record
<1>2. /\ Len(held'[t]) = n + 1 /\ held'[t] # <<>> /\ held'[t][n + 1] = m
      /\ \A i \in 1 .. n : held'[t][i] = held[t][i]
  BY <1>0
<1>3. \A i \in 1 .. n : Saved(t, i)' = Saved(t, i)
  BY <1>0, <1>2 DEF Saved
<1>4. Saved(t, n + 1)' = kernel.priority[t]
  BY <1>2 DEF Saved
<1>5. kernel.priority[t] \in Int /\ \A i \in 1 .. n : Saved(t, i) \in Int
  <2>1. kernel.priority[t] \in Prio
    BY DEF MuxInv, TaskInv, TaskTypeOK, SpecialTasks
  <2>2. ASSUME NEW i \in 1 .. n PROVE Saved(t, i) \in Int
    <3>1. held[t][i] \in Mux
      BY <1>0, <2>2
    <3> QED BY <3>1, MuxType DEF Saved, Prio
  <2> QED BY <2>1, <2>2 DEF Prio
<1>6. CASE n = 0
  <2>1. held[t] = <<>>
    BY <1>0, <1>6, EmptySeq
  <2> QED BY <1>1, <1>2, <1>4, <1>5, <1>6, <2>1 DEF Ladder
<1>7. CASE n > 0
  <2>1. /\ Saved(t, 1) = given[t] /\ kernel.priority[t] <= Saved(t, n)
        /\ \A i, j \in 1 .. n : i < j => Saved(t, j) <= Saved(t, i)
    BY <1>0, <1>7 DEF Ladder
  <2>2. \A i \in 1 .. n : kernel.priority[t] <= Saved(t, i)
    <3>1. ASSUME NEW i \in 1 .. n PROVE kernel.priority[t] <= Saved(t, i)
      <4>1. n \in 1 .. n /\ Saved(t, n) <= Saved(t, i)
        BY <1>1, <1>5, <1>7, <2>1, <3>1
      <4>2. Saved(t, n) \in Int /\ Saved(t, i) \in Int /\ kernel.priority[t] \in Int
        BY <1>5, <4>1
      <4>3. kernel.priority[t] <= Saved(t, n)
        BY <2>1
      <4> QED BY <4>1, <4>2, <4>3
    <3> QED BY <3>1
  <2>3. Saved(t, 1)' = given'[t]
    BY <1>1, <1>3, <1>7, <2>1
  <2>4. ASSUME NEW i \in 1 .. n + 1, NEW j \in 1 .. n + 1, i < j
        PROVE  Saved(t, j)' <= Saved(t, i)'
    <3>1. i \in 1 .. n
      BY <1>1, <2>4
    <3>2. CASE j = n + 1
      BY <1>3, <1>4, <2>2, <3>1, <3>2
    <3>3. CASE j # n + 1
      <4>1. j \in 1 .. n
        BY <1>1, <2>4, <3>3
      <4> QED BY <1>3, <2>1, <2>4, <3>1, <4>1
    <3> QED BY <3>2, <3>3
  <2>5. kernel'.priority[t] <= Saved(t, n + 1)'
    BY <1>4, <1>5
  <2> QED BY <1>2, <2>3, <2>4, <2>5 DEF Ladder
<1> QED BY <1>1, <1>6, <1>7

\* A list loses its last node, which is on it once.
LEMMA RemoveLast ==
    ASSUME NEW S, NEW s \in Seq(S), s # <<>>, IsInjective(s), NEW m, m = Last(s)
    PROVE  /\ RemoveFirst(s, m) \in Seq(S) /\ Len(RemoveFirst(s, m)) = Len(s) - 1
           /\ \A i \in 1 .. Len(s) - 1 : RemoveFirst(s, m)[i] = s[i]
           /\ s[Len(s)] = m
<1>1. Len(s) \in Nat \ {0} /\ s[Len(s)] = m
  BY DEF Last
<1>2. Contains(s, m)
  BY <1>1 DEF Contains
<1>3. PICK j \in 1 .. Len(s) : /\ s[j] = m
                               /\ \A i \in 1 .. Len(s) - 1 :
                                     RemoveFirst(s, m)[i] = IF i < j THEN s[i] ELSE s[i + 1]
  BY <1>2, UnlinkPresent
<1>4. j = Len(s)
  <2>1. Len(s) \in 1 .. Len(s) /\ DOMAIN s = 1 .. Len(s)
    BY <1>1
  <2> QED BY <1>1, <1>3, <2>1 DEF IsInjective
<1>5. \A i \in 1 .. Len(s) - 1 : i < j
  BY <1>1, <1>4
<1> QED BY <1>1, <1>2, <1>3, <1>5, UnlinkPresent

\* It gives the last one back, and has the priority that one has saved.
LEMMA LadderShrinks ==
    ASSUME MuxInv, Record, NEW t \in Task, Created(t), Ladder(t), held[t] # <<>>,
           NEW m, m = Last(held[t]), IsInjective(held[t]), held[t] \in Seq(Mux),
           held'[t] = RemoveFirst(held[t], m),
           \A i \in 1 .. Len(held[t]) - 1 : muxCB'[held[t][i]].priority = muxCB[held[t][i]].priority,
           kernel'.priority[t] = muxCB[m].priority
    PROVE  Ladder(t)'
<1>0. PICK n \in Nat \ {0} : n = Len(held[t])
  OBVIOUS
<1>1. given'[t] = given[t]
  BY DEF Record
<1>2. /\ held'[t] \in Seq(Mux) /\ Len(held'[t]) = n - 1 /\ held[t][n] = m
      /\ \A i \in 1 .. n - 1 : held'[t][i] = held[t][i]
  BY <1>0, RemoveLast
<1>3. \A i \in 1 .. n - 1 : Saved(t, i)' = Saved(t, i)
  BY <1>0, <1>2 DEF Saved
<1>4. /\ Saved(t, 1) = given[t]
      /\ \A i, j \in 1 .. n : i < j => Saved(t, j) <= Saved(t, i)
  BY <1>0 DEF Ladder
<1>5. kernel'.priority[t] = Saved(t, n)
  BY <1>2 DEF Saved
<1>6. CASE n = 1
  <2>1. held'[t] = <<>>
    BY <1>2, <1>6
  <2> QED BY <1>1, <1>4, <1>5, <1>6, <2>1 DEF Ladder
<1>7. CASE n > 1
  <2>1. held'[t] # <<>> /\ 1 \in 1 .. n - 1 /\ n - 1 \in 1 .. n - 1 /\ n \in 1 .. n
    BY <1>0, <1>2, <1>7
  <2>2. Saved(t, 1)' = given'[t]
    BY <1>1, <1>3, <1>4, <2>1
  <2>3. \A i, j \in 1 .. n - 1 : i < j => Saved(t, j)' <= Saved(t, i)'
    BY <1>1, <1>3, <1>4
  <2>4. kernel'.priority[t] <= Saved(t, n - 1)'
    <3>1. Saved(t, n) <= Saved(t, n - 1)
      BY <1>1, <1>4, <1>7
    <3> QED BY <1>3, <1>5, <2>1, <3>1
  <2> QED BY <1>2, <2>1, <2>2, <2>3, <2>4 DEF Ladder
<1> QED BY <1>1, <1>6, <1>7

\* It inherits, or not.
LEMMA LadderInherits ==
    ASSUME MuxInv, Record, NEW t \in Task, Created(t), Ladder(t), held[t] # <<>>, held'[t] = held[t],
           muxCB' = muxCB, held[t] \in Seq(Mux), kernel'.priority[t] \in Prio,
           kernel'.priority[t] <= kernel.priority[t]
    PROVE  Ladder(t)'
<1> DEFINE n == Len(held[t])
<1>1. given'[t] = given[t] /\ n \in Nat \ {0}
  BY DEF Record
<1>2. \A i : Saved(t, i)' = Saved(t, i)
  BY DEF Saved
<1>3. kernel.priority[t] \in Int /\ Saved(t, n) \in Int /\ kernel'.priority[t] \in Int
  <2>1. kernel.priority[t] \in Prio
    BY DEF MuxInv, TaskInv, TaskTypeOK, SpecialTasks
  <2>2. held[t][n] \in Mux
    BY <1>1
  <2> QED BY <2>1, <2>2, MuxType DEF Saved, Prio
<1>4. kernel.priority[t] <= Saved(t, n)
  BY DEF Ladder
<1>5. kernel'.priority[t] <= Saved(t, n)
  BY <1>3, <1>4
<1> QED BY <1>1, <1>2, <1>5 DEF Ladder

-----------------------------------------------------------------------------
(* Changing an owner's priority moves no task and tells no outcome.         *)

LEMMA ModifyAsBefore ==
    ASSUME TaskInv, SafeInv, NEW o \in Task, NEW p \in Prio,
           NEW k, k = OsSchedModifyTaskSchedParam(kernel, o, p)
    PROVE  /\ AsBefore(k) /\ k.pend = kernel.pend
           /\ \A x \in Task : k.priority[x] = IF x = o THEN p ELSE kernel.priority[x]
<1>1. WellFormed(kernel) /\ Sound(kernel) /\ Tidy(kernel) /\ Placed(kernel, o)
  BY SafeKernel
<1>2. /\ Only(kernel, k, o) /\ Placed(k, o) /\ SameWaits(kernel, k, o)
      /\ k.status[o] = kernel.status[o]
  BY <1>1, ModifyRow
<1>3. Sound(k)
  <2>1. o = kernel.run => /\ {"RUNNING", "STACK_FREE"} \subseteq k.status[o]
                          /\ k.status[o] \cap {"UNUSED", "READY"} = {}
    BY <1>1, <1>2, SchedAssumption DEF Sound, Runs
  <2> QED BY <1>1, <1>2, <2>1, SoundStep
<1>4. AsBefore(k)
  BY <1>2, <1>3 DEF AsBefore, Only, SameRow, SameFlags
<1>5. k.pend = kernel.pend
  BY <1>1, ModifySteady DEF Steady
<1>6. k.priority = [kernel.priority EXCEPT ![o] = p]
  <2> DEFINE d == OsSchedTaskDeQueue(kernel, o)
             n == [d EXCEPT !.priority[o] = p]
             v == [kernel EXCEPT !.priority[o] = p]
  <2>1. k = IF "READY" \in kernel.status[o] THEN OsSchedTaskEnQueue(n, o) ELSE v
    BY DEF OsSchedModifyTaskSchedParam
  <2>2. "priority" \in DOMAIN kernel /\ v.priority = [kernel.priority EXCEPT ![o] = p]
    BY <1>1 DEF WellFormed, SchedState
  <2>3. WellFormed(d) /\ SamePriority(kernel, d)
    BY <1>1, DeQueueKeeps, KeepsWellFormed, QueuesKeepPriority
  <2> HIDE DEF d, v
  <2>4. "priority" \in DOMAIN n /\ n.priority = [kernel.priority EXCEPT ![o] = p]
    BY <2>2, <2>3 DEF SamePriority, WellFormed, SchedState
  <2> HIDE DEF n
  <2>5. SamePriority(n, OsSchedTaskEnQueue(n, o))
    BY QueuesKeepPriority
  <2> QED BY <2>1, <2>2, <2>4, <2>5 DEF SamePriority
<1> QED BY <1>1, <1>4, <1>5, <1>6 DEF WellFormed, SchedState, TCB

\* The owner inherits.
LEMMA InheritedIs ==
    ASSUME MuxInv, SafeInv, NEW t \in Task, NEW m \in Mux, NEW o \in Task, o = muxCB[m].owner,
           NEW k, k = Inherited(t, m)
    PROVE  /\ AsBefore(k) /\ k.pend = kernel.pend
           /\ \A x \in Task : x # o => k.priority[x] = kernel.priority[x]
           /\ k.priority[o] \in Prio /\ k.priority[o] <= kernel.priority[o]
<1> DEFINE p == kernel.priority[t]
<1>1. TaskInv /\ p \in Prio /\ kernel.priority[o] \in Prio
  BY DEF MuxInv, TaskInv, TaskTypeOK, SpecialTasks
<1>2. CASE kernel.priority[o] > p
  <2>1. k = OsSchedModifyTaskSchedParam(kernel, o, p)
    BY <1>2 DEF Inherited
  <2> HIDE DEF p
  <2>2. /\ AsBefore(k) /\ k.pend = kernel.pend
        /\ \A x \in Task : k.priority[x] = IF x = o THEN p ELSE kernel.priority[x]
    BY <1>1, <2>1, ModifyAsBefore
  <2> QED BY <1>1, <1>2, <2>2 DEF Prio
<1>3. CASE ~(kernel.priority[o] > p)
  <2>1. k = kernel
    BY <1>3 DEF Inherited
  <2> QED BY <1>1, <2>1, SelfAsBefore DEF Prio
<1> QED BY <1>2, <1>3

\* It gets back what the mutex has saved.
LEMMA RestoredIs ==
    ASSUME MuxInv, SafeInv, NEW m \in Mux, NEW o \in Task, o = muxCB[m].owner,
           NEW k, k = Restored(m)
    PROVE  /\ AsBefore(k) /\ k.pend = kernel.pend
           /\ \A x \in Task : x # o => k.priority[x] = kernel.priority[x]
           /\ k.priority[o] = muxCB[m].priority
<1> DEFINE p == muxCB[m].priority
<1>1. TaskInv /\ p \in Prio
  BY MuxType DEF MuxInv
<1>2. CASE kernel.priority[o] # p
  <2>1. k = OsSchedModifyTaskSchedParam(kernel, o, p)
    BY <1>2 DEF Restored
  <2> HIDE DEF p
  <2>2. /\ AsBefore(k) /\ k.pend = kernel.pend
        /\ \A x \in Task : k.priority[x] = IF x = o THEN p ELSE kernel.priority[x]
    BY <1>1, <2>1, ModifyAsBefore
  <2> QED BY <1>1, <1>2, <2>2 DEF p
<1>3. CASE kernel.priority[o] = p
  <2>1. k = kernel
    BY <1>3 DEF Restored
  <2> QED BY <1>1, <1>3, <2>1, SelfAsBefore
<1> QED BY <1>2, <1>3

\* A call that leaves the lists and flags as before.
LEMMA MovedGoes ==
    ASSUME TaskInv, ObjInv, NEW t \in TCB, Thread(t), todo[t] = <<>>,
           NEW k, AsBefore(k), NEW s \in Plain, NEW a, Call(t, k, s, a)
    PROVE  ObjInv'
<1>1. SameCalls /\ kernel' = k /\ todo'[t] = s
  BY WorkCalls DEF ObjInv
<1>2. /\ t = kernel.run
      /\ t \in Task => kernel.status[t] \cap Blocking = {} /\ "TIMEOUT" \notin kernel.status[t]
  <2>1. ~AtResult(t)
    BY DEF AtResult
  <2> QED BY <2>1, WorkFlags DEF ObjInv
<1>3. SafeInv'
  <2>0. SafeInv
    BY DEF ObjInv
  <2>1. kernel'.run = t /\ \A x \in Task : kernel'.status[x] = kernel.status[x]
    BY <1>1, <1>2 DEF AsBefore, SameControl
  <2>2. SwitchComes'
    BY <1>2, <2>1, NothingToCome
  <2>3. Sound(kernel') /\ \A x \in Task : SameWaits(kernel, kernel', x)
    BY <1>1 DEF AsBefore
  <2> QED BY <1>1, <2>0, <2>1, <2>2, <2>3, MildStep
<1>4. OutcomeInv'
  <2>1. /\ ~AtResult(t)' /\ \A x \in Task : ~Creating(t, x)'
        /\ \A u \in TCB : u \notin {t} => todo'[u] = todo[u] /\ arg'[u] = arg[u]
    BY ObjCall DEF ObjInv
  <2>2. \A x \in Task : kernel'.status[x] = kernel.status[x]
    BY <1>1 DEF AsBefore
  <2>3. t \in Task => "TIMEOUT" \notin kernel'.status[t]
    BY <1>2, <2>2
  <2>4. \A u \in {t} : /\ ~AtResult(u)' /\ \A x \in Task : ~Creating(u, x)'
                       /\ u \in Task => "TIMEOUT" \notin kernel'.status[u]
    BY <2>1, <2>3
  <2>5. /\ \A x \in Task : \A f \in Outcome : f \in kernel'.status[x] <=> f \in kernel.status[x]
        /\ \A x \in Task : "PEND" \in kernel'.status[x] <=> "PEND" \in kernel.status[x]
    BY <2>2
  <2> DEFINE T == {t}
  <2>6. T \in SUBSET TCB
    OBVIOUS
  <2>7. OutcomeInv /\ {} \in SUBSET Task
    BY DEF ObjInv
  <2> QED BY <2>1, <2>4, <2>5, <2>6, <2>7, ObjOutcome
<1>5. ControlInv'
  BY <1>1, SameControlStep DEF ObjInv, AsBefore
<1> QED BY <1>3, <1>4, <1>5 DEF ObjInv

-----------------------------------------------------------------------------
(* The steps: what is held, and by whom.                                    *)

LEMMA TaskOwns ==
    ASSUME MuxInv, HeldInv, NEW t \in Task
    PROVE  /\ held[t] \in Seq(Mux) /\ IsInjective(held[t]) /\ t # NoOwner
           /\ \A m \in Mux : Contains(held[t], m) <=> muxCB[m].owner = t
           /\ held[t] # <<>> => Created(t)
<1>1. held[t] \in Seq(Mux) /\ IsInjective(held[t]) /\ t # NoOwner
  BY MuxAssumption DEF MuxInv, MuxCBType, HeldInv, TCB
<1>2. \A m \in Mux : Contains(held[t], m) <=> muxCB[m].owner = t
  BY DEF HeldInv, Holds
<1>3. ASSUME held[t] # <<>> PROVE Created(t)
  <2>1. PICK m \in Mux : Contains(held[t], m)
    BY <1>1, <1>3, EmptyList
  <2>2. Owned(m) /\ muxCB[m].owner = t
    BY <1>1, <1>2, <2>1 DEF Owned
  <2> QED BY <2>2 DEF HeldInv, Created
<1> QED BY <1>1, <1>2, <1>3

\* Who owns a mutex, and which mutexes are used, stays; the owners live on.
LEMMA HeldStays ==
    ASSUME HeldInv, held' = held,
           \A m \in Mux : muxCB'[m].owner = muxCB[m].owner /\ (Owned(m) => Used(m)'),
           \A m \in Mux : Owned(m) => kernel'.status[muxCB[m].owner] \cap {"EXIT", "UNUSED"} = {}
    PROVE  HeldInv'
<1>1. \A m \in Mux : Owned(m)' <=> Owned(m)
  BY DEF Owned
<1>2. \A t \in Task, m \in Mux : Holds(t, m)' <=> Holds(t, m)
  BY DEF Holds
<1> QED BY <1>1, <1>2 DEF HeldInv

\* When every task lives on, so do the owners.
LEMMA LivesStay ==
    ASSUME MuxInv, SameLives
    PROVE  /\ \A m \in Mux : Owned(m) /\ kernel.status[muxCB[m].owner] \cap {"EXIT", "UNUSED"} = {} =>
                 kernel'.status[muxCB[m].owner] \cap {"EXIT", "UNUSED"} = {}
           /\ \A x \in Task : Created(x)' <=> Created(x)
<1>1. \A x \in Task : Created(x)' <=> Created(x)
  BY DEF SameLives, Created
<1>2. ASSUME NEW m \in Mux, Owned(m), kernel.status[muxCB[m].owner] \cap {"EXIT", "UNUSED"} = {}
      PROVE  kernel'.status[muxCB[m].owner] \cap {"EXIT", "UNUSED"} = {}
  <2>1. PICK o \in Task : o = muxCB[m].owner
    BY <1>2, MuxType DEF Owned
  <2> QED BY <1>2, <2>1 DEF SameLives
<1> QED BY <1>1, <1>2

\* The tasks of T climb or descend; the others keep what they own and their priority.
LEMMA LaddersStay ==
    ASSUME MuxInv, HeldInv, LadderInv, Record, SameLives, NEW T \in SUBSET Task,
           \A x \in Task : x \notin T => held'[x] = held[x] /\ kernel'.priority[x] = kernel.priority[x],
           \A x \in Task, z \in Mux : x \notin T /\ muxCB[z].owner = x =>
              muxCB'[z].priority = muxCB[z].priority,
           \A x \in T : Created(x) => Ladder(x)'
    PROVE  LadderInv'
<1>1. SUFFICES ASSUME NEW x \in Task, Created(x)' PROVE Ladder(x)'
  BY DEF LadderInv
<1>2. Created(x) /\ Ladder(x)
  BY <1>1, LivesStay DEF LadderInv
<1>3. CASE x \in T
  BY <1>2, <1>3
<1>4. CASE x \notin T
  <2>1. held'[x] = held[x] /\ kernel'.priority[x] = kernel.priority[x] /\ held[x] \in Seq(Mux)
    BY <1>4, TaskOwns
  <2>2. ASSUME NEW i \in 1 .. Len(held[x])
        PROVE  muxCB'[held[x][i]].priority = muxCB[held[x][i]].priority
    <3>1. PICK z \in Mux : z = held[x][i]
      BY <2>1, <2>2
    <3>2. Contains(held[x], z)
      BY <2>2, <3>1 DEF Contains
    <3>3. muxCB[z].owner = x
      BY <3>2, TaskOwns
    <3> QED BY <1>4, <3>1, <3>3
  <2> QED BY <1>2, <2>1, <2>2, LadderStays
<1> QED BY <1>3, <1>4

\* The tasks as they are, and every owner with what it owns.
LEMMA CalmMux ==
    ASSUME Unprotected = {}, OwnInv, Record, UNCHANGED <<taskVars, held>>,
           \A m \in Mux : muxCB'[m].owner = muxCB[m].owner /\ (Owned(m) => Used(m)'),
           \A m \in Mux : Owned(m) => muxCB'[m].priority = muxCB[m].priority
    PROVE  ObjInv' /\ HeldInv' /\ (LadderInv => LadderInv')
<1>1. MuxInv /\ TaskInv /\ ObjInv /\ HeldInv
  BY DEF OwnInv, MuxInv
<1>2. kernel' = kernel /\ held' = held
  BY DEF taskVars
<1>3. ObjInv'
  BY <1>1, TaskGoes
<1>4. HeldInv'
  BY <1>1, <1>2, HeldStays DEF HeldInv
<1>5. SameLives
  BY <1>2 DEF SameLives
<1>6. \A x \in Task, z \in Mux : muxCB[z].owner = x => muxCB'[z].priority = muxCB[z].priority
  BY <1>1, TaskOwns DEF Owned
<1>7. ASSUME LadderInv PROVE LadderInv'
  <2> DEFINE T == {}
  <2>1. T \in SUBSET Task
    OBVIOUS
  <2> QED BY <1>1, <1>2, <1>5, <1>6, <1>7, <2>1, LaddersStay
<1> QED BY <1>3, <1>4, <1>7

LEMMA CreateHeld ==
    ASSUME Unprotected = {}, OwnInv, Record, NEW t \in TCB, MuxCreate(t)
    PROVE  ObjInv' /\ HeldInv' /\ (LadderInv => LadderInv')
<1>1. PICK q : q = Head(unusedMux)
  OBVIOUS
<1>2. /\ MuxInv /\ HeldInv /\ UNCHANGED <<taskVars, held>> /\ unusedMux # <<>>
      /\ muxCB' = [muxCB EXCEPT ![q] =
            [stat |-> "USED", count |-> 0, owner |-> NoOwner, priority |-> 0]]
  BY <1>1 DEF MuxCreate, OwnInv
<1>3. q \in Mux /\ ~Owned(q)
  <2>1. unusedMux \in Seq(Mux) /\ IsInjective(unusedMux)
    BY <1>2 DEF MuxInv, MuxCBType, WaitersHaveOwner
  <2>2. q \in Mux /\ Contains(unusedMux, q)
    BY <1>1, <1>2, <2>1, TakeFirst
  <2> QED BY <1>2, <2>2 DEF MuxInv, WaitersHaveOwner, HeldInv
<1>4. \A m \in Mux : m # q => muxCB'[m] = muxCB[m]
  BY <1>2 DEF MuxInv, MuxCBType
<1>5. muxCB'[q].owner = NoOwner
  BY <1>2, <1>3 DEF MuxInv, MuxCBType
<1>6. \A m \in Mux : muxCB'[m].owner = muxCB[m].owner /\ (Owned(m) => Used(m)')
  BY <1>2, <1>3, <1>4, <1>5 DEF Owned, Used, HeldInv
<1>7. \A m \in Mux : Owned(m) => muxCB'[m].priority = muxCB[m].priority
  BY <1>3, <1>4
<1> QED BY <1>2, <1>6, <1>7, CalmMux

\* A mutex is deleted, or its owner counts.
LEMMA CountHeld ==
    ASSUME Unprotected = {}, OwnInv, Record, NEW t \in TCB, NEW m \in Mux,
           MuxDelete(t, m) \/ MuxRepeat(t, m) \/ MuxPostNested(t, m)
    PROVE  ObjInv' /\ HeldInv' /\ (LadderInv => LadderInv')
<1>1. /\ MuxInv /\ HeldInv /\ UNCHANGED <<taskVars, held>> /\ muxCB \in [Mux -> MuxCB]
      /\ \A z \in Mux : Owned(z) <=> muxCB[z].count > 0
  BY DEF MuxDelete, MuxRepeat, MuxPostNested, OwnInv, MuxInv, MuxCBType
<1>2. \A z \in Mux : /\ muxCB'[z].owner = muxCB[z].owner /\ muxCB'[z].priority = muxCB[z].priority
                     /\ Owned(z) => muxCB'[z].stat = muxCB[z].stat
  <2>1. CASE MuxDelete(t, m)
    <3>1. muxCB' = [muxCB EXCEPT ![m].stat = "UNUSED"] /\ ~Owned(m)
      BY <1>1, <2>1 DEF MuxDelete, MuxDeleteValid
    <3> QED BY <1>1, <3>1 DEF MuxCB
  <2>2. CASE MuxRepeat(t, m) \/ MuxPostNested(t, m)
    <3>1. PICK n : muxCB' = [muxCB EXCEPT ![m].count = n]
      BY <2>2 DEF MuxRepeat, MuxPostNested
    <3> QED BY <1>1, <3>1 DEF MuxCB
  <2> QED BY <2>1, <2>2
<1>3. \A z \in Mux : Owned(z) => Used(z)'
  BY <1>1, <1>2 DEF Used, HeldInv
<1> QED BY <1>1, <1>2, <1>3, CalmMux

\* The mutex m goes from its owner u, if it has one, to o, if o is a task.
Goes(m, u, o) ==
    /\ u = muxCB[m].owner /\ o # u /\ o \in Task \cup {NoOwner}
    /\ muxCB'[m].owner = o /\ Used(m)'
    /\ \A z \in Mux : z # m => muxCB'[z] = muxCB[z]
    /\ \A x \in Task : x # u /\ x # o => held'[x] = held[x]
    /\ u \in Task => held'[u] = RemoveFirst(held[u], m)
    /\ o \in Task => /\ held'[o] = Append(held[o], m)
                     /\ kernel'.status[o] \cap {"EXIT", "UNUSED"} = {}
    /\ \A z \in Mux : Owned(z) => kernel'.status[muxCB[z].owner] \cap {"EXIT", "UNUSED"} = {}

LEMMA HeldChanges ==
    ASSUME MuxInv, HeldInv, NEW m \in Mux, NEW u, NEW o, Goes(m, u, o)
    PROVE  HeldInv'
<1>0. /\ u = muxCB[m].owner /\ o # u /\ o \in Task \cup {NoOwner}
      /\ muxCB'[m].owner = o /\ Used(m)'
      /\ \A z \in Mux : z # m => muxCB'[z] = muxCB[z]
      /\ \A x \in Task : x # u /\ x # o => held'[x] = held[x]
      /\ u \in Task => held'[u] = RemoveFirst(held[u], m)
      /\ o \in Task => /\ held'[o] = Append(held[o], m)
                       /\ kernel'.status[o] \cap {"EXIT", "UNUSED"} = {}
      /\ \A z \in Mux : Owned(z) => kernel'.status[muxCB[z].owner] \cap {"EXIT", "UNUSED"} = {}
  BY DEF Goes
<1>1. ASSUME NEW x \in Task
      PROVE  IsInjective(held'[x]) /\ \A z \in Mux : Contains(held'[x], z) <=> muxCB'[z].owner = x
  <2>1. /\ held[x] \in Seq(Mux) /\ IsInjective(held[x]) /\ x # NoOwner
        /\ \A z \in Mux : Contains(held[x], z) <=> muxCB[z].owner = x
    BY TaskOwns
  <2>2. CASE x = u
    <3>1. /\ IsInjective(held'[x]) /\ ~Contains(held'[x], m)
          /\ \A z : z # m => (Contains(held'[x], z) <=> Contains(held[x], z))
      BY <1>0, <2>1, <2>2, UnlinkOnce
    <3> QED BY <1>0, <2>1, <2>2, <3>1
  <2>3. CASE x = o
    <3>1. ~Contains(held[x], m)
      BY <1>0, <2>1, <2>3
    <3>2. held'[x] = Append(held[x], m)
      BY <1>0, <2>3
    <3>3. /\ IsInjective(Append(held[x], m)) /\ Contains(Append(held[x], m), m)
          /\ \A z : z # m => (Contains(Append(held[x], m), z) <=> Contains(held[x], z))
      BY <2>1, <3>1, AppendOnce
    <3> QED BY <1>0, <2>1, <2>3, <3>2, <3>3
  <2>4. CASE x # u /\ x # o
    BY <1>0, <2>1, <2>4
  <2> QED BY <2>2, <2>3, <2>4
<1>2. ASSUME NEW z \in Mux, Owned(z)'
      PROVE  Used(z)' /\ kernel'.status[muxCB'[z].owner] \cap {"EXIT", "UNUSED"} = {}
  <2>1. CASE z = m
    BY <1>0, <1>2, <2>1 DEF Owned
  <2>2. CASE z # m
    <3>1. muxCB'[z] = muxCB[z]
      BY <1>0, <2>2
    <3>2. Owned(z)
      BY <1>2, <3>1 DEF Owned
    <3> QED BY <1>0, <3>1, <3>2 DEF HeldInv, Used
  <2> QED BY <2>1, <2>2
<1> QED BY <1>1, <1>2 DEF HeldInv, Holds

\* The first step of a lock or a release is taken by a task that runs.
LEMMA CallerWorks ==
    ASSUME TaskInv, ObjInv, NEW t \in TCB, NEW call, App(t, call)
    PROVE  /\ t \in Task /\ Thread(t) /\ todo[t] = <<>> /\ t = kernel.run
           /\ kernel.status[t] \cap Blocking = {} /\ Waits(kernel, t) = {}
           /\ kernel.status[t] \cap {"EXIT", "UNUSED"} = {} /\ Created(t)
<1>1. t \in Task /\ Thread(t) /\ todo[t] = <<>>
  BY DEF App
<1>2. t = kernel.run /\ kernel.status[t] \cap Blocking = {} /\ Waits(kernel, t) = {}
  BY <1>1, WorkFree DEF ObjInv
<1> QED BY <1>1, <1>2 DEF Blocking, Created

LEMMA TakeHeld ==
    ASSUME Unprotected = {}, OwnInv, Record, NEW t \in TCB, NEW m \in Mux, MuxTake(t, m)
    PROVE  ObjInv' /\ HeldInv' /\ (LadderInv => LadderInv')
<1>1. MuxInv /\ TaskInv /\ ObjInv /\ HeldInv
  BY DEF OwnInv, MuxInv
<1>2. /\ App(t, "muxPend") /\ Used(m) /\ muxCB[m].count = 0 /\ UNCHANGED taskVars
      /\ held' = [held EXCEPT ![t] = Append(@, m)]
      /\ muxCB' = [muxCB EXCEPT ![m].count = 1, ![m].owner = t, ![m].priority = kernel.priority[t]]
  BY DEF MuxTake, MuxPendValid
<1>3. /\ t \in Task /\ kernel.status[t] \cap {"EXIT", "UNUSED"} = {} /\ Created(t)
      /\ kernel' = kernel /\ t # NoOwner
  BY <1>1, <1>2, CallerWorks, TaskOwns DEF taskVars
<1>4. muxCB[m].owner = NoOwner
  BY <1>1, <1>2 DEF MuxInv, MuxCBType, Owned
<1>5. /\ muxCB'[m].owner = t /\ muxCB'[m].stat = muxCB[m].stat /\ muxCB'[m].priority = kernel.priority[t]
      /\ \A z \in Mux : z # m => muxCB'[z] = muxCB[z]
      /\ held'[t] = Append(held[t], m) /\ \A x \in Task : x # t => held'[x] = held[x]
  BY <1>1, <1>2, <1>3 DEF MuxInv, MuxCBType, MuxCB
<1>6. ObjInv'
  BY <1>1, <1>2, TaskGoes
<1>7. HeldInv'
  <2>1. /\ Used(m)' /\ NoOwner \notin Task
        /\ \A z \in Mux : Owned(z) => kernel'.status[muxCB[z].owner] \cap {"EXIT", "UNUSED"} = {}
    BY <1>1, <1>2, <1>3, <1>5, MuxAssumption DEF Used, HeldInv, TCB
  <2>2. kernel'.status[t] \cap {"EXIT", "UNUSED"} = {}
    BY <1>3
  <2>3. Goes(m, NoOwner, t)
    BY <1>3, <1>4, <1>5, <2>1, <2>2 DEF Goes
  <2> QED BY <1>1, <2>3, HeldChanges
<1>8. ASSUME LadderInv PROVE Ladder(t)'
  <2>1. held[t] \in Seq(Mux) /\ ~Contains(held[t], m)
    BY <1>1, <1>3, <1>4, TaskOwns
  <2>2. \A i \in 1 .. Len(held[t]) : held[t][i] # m
    BY <2>1 DEF Contains
  <2>3. \A i \in 1 .. Len(held[t]) : muxCB'[held[t][i]].priority = muxCB[held[t][i]].priority
    BY <1>5, <2>1, <2>2
  <2>4. Ladder(t)
    BY <1>3, <1>8 DEF LadderInv
  <2> QED BY <1>1, <1>3, <1>5, <2>1, <2>3, <2>4, LadderGrows
<1>9. ASSUME LadderInv PROVE LadderInv'
  <2> DEFINE T == {t}
  <2>1. T \in SUBSET Task /\ SameLives
    BY <1>3 DEF SameLives
  <2>2. \A x \in Task, z \in Mux : x \notin T /\ muxCB[z].owner = x => muxCB'[z].priority = muxCB[z].priority
    BY <1>4, <1>5, MuxAssumption DEF TCB
  <2>3. \A x \in Task : x \notin T => held'[x] = held[x] /\ kernel'.priority[x] = kernel.priority[x]
    BY <1>3, <1>5
  <2>4. \A x \in T : Created(x) => Ladder(x)'
    BY <1>8, <1>9
  <2> HIDE DEF T
  <2> QED BY <1>1, <1>9, <2>1, <2>2, <2>3, <2>4, LaddersStay
<1> QED BY <1>6, <1>7, <1>9

LEMMA ResultHeld ==
    ASSUME Unprotected = {}, OwnInv, Record, NEW t \in TCB, MuxResult(t)
    PROVE  ObjInv' /\ HeldInv' /\ (LadderInv => LadderInv')
<1>1. MuxInv /\ TaskInv /\ ObjInv /\ SafeInv /\ HeldInv
  BY DEF OwnInv, MuxInv, ObjInv
<1>2. /\ Doing(t, "result") /\ UNCHANGED muxVars
      /\ Call(t, [kernel EXCEPT !.status[t] = @ \ {"TIMEOUT"}], Tail(todo[t]), arg[t])
  BY DEF MuxResult, Continue
<1>3. Tail(todo[t]) \in Plain
  <2>1. todo[t] = <<"result">>
    <3>1. todo[t] \in Rest /\ Head(todo[t]) = "result" /\ todo[t] # <<>>
      BY <1>1, <1>2 DEF SafeInv, Doing
    <3> QED BY <3>1 DEF Rest
  <2> QED BY <2>1 DEF Plain
<1>4. ObjInv'
  BY <1>1, <1>2, <1>3, TimeoutGoes
<1>5. /\ kernel' = [kernel EXCEPT !.status[t] = @ \ {"TIMEOUT"}]
      /\ held' = held /\ muxCB' = muxCB
  BY <1>2 DEF Call, muxVars
<1>6. WellFormed(kernel)
  BY <1>1, InvWellFormed
<1>7. SameLives /\ kernel'.priority = kernel.priority
  BY <1>5, <1>6 DEF SameLives, WellFormed, SchedState, TCB
<1>8. HeldInv'
  <2>1. \A m \in Mux : Owned(m) => Used(m)' /\ kernel'.status[muxCB[m].owner] \cap {"EXIT", "UNUSED"} = {}
    BY <1>1, <1>5, <1>7, LivesStay DEF HeldInv, Used
  <2> QED BY <1>1, <1>5, <2>1, HeldStays
<1>9. ASSUME LadderInv PROVE LadderInv'
  <2> DEFINE T == {}
  <2>1. T \in SUBSET Task
    OBVIOUS
  <2> QED BY <1>1, <1>5, <1>7, <1>9, <2>1, LaddersStay
<1> QED BY <1>4, <1>8, <1>9

LEMMA WaitHeld ==
    ASSUME Unprotected = {}, OwnInv, Record, NEW t \in TCB, NEW m \in Mux,
           NEW timeout \in Timeout, MuxWait(t, m, timeout)
    PROVE  ObjInv' /\ HeldInv' /\ (LadderInv => LadderInv')
<1>1. MuxInv /\ TaskInv /\ ObjInv /\ SafeInv /\ HeldInv
  BY DEF OwnInv, MuxInv, ObjInv
<1>2. PICK k : k = Inherited(t, m)
  OBVIOUS
<1>3. /\ App(t, "muxPend") /\ Used(m) /\ kernel.lock = 0 /\ UNCHANGED muxVars
      /\ muxCB[m].count > 0 /\ muxCB[m].owner # t
      /\ Call(t, OsSchedTaskWait(k, m, timeout), <<"schedule", "result">>, m)
  BY <1>2 DEF MuxWait, MuxPendValid
<1>4. /\ t \in Task /\ Thread(t) /\ todo[t] = <<>> /\ t = kernel.run
      /\ kernel.status[t] \cap Blocking = {} /\ Waits(kernel, t) = {}
  BY <1>1, <1>3, CallerWorks
<1>5. PICK o \in Task : o = muxCB[m].owner
  BY <1>1, <1>3, MuxType
<1>6. /\ AsBefore(k)
      /\ \A x \in Task : x # o => k.priority[x] = kernel.priority[x]
      /\ k.priority[o] \in Prio /\ k.priority[o] <= kernel.priority[o]
  BY <1>1, <1>2, <1>4, <1>5, InheritedIs
<1>7. m \in WaitObj /\ timeout \in (0 .. MaxDelay) \cup {NoTime} /\ m \in WaitList
  BY MuxAssumption DEF WaitList
<1>8. ObjInv'
  BY <1>1, <1>3, <1>4, <1>6, <1>7, WaitGoes
<1>9. PICK r : r = OsSchedTaskWait(k, m, timeout)
  OBVIOUS
<1>10. kernel' = r /\ held' = held /\ muxCB' = muxCB
  BY <1>3, <1>9 DEF Call, muxVars
<1>11. SameLives /\ r.priority = k.priority
  <2>1. WellFormed(k) /\ Tidy(k) /\ k.run = t /\ Waits(k, t) = {} /\ SamePriority(k, r)
    BY <1>4, <1>6, <1>9, ListsKeepPriority DEF AsBefore, Sound, SameControl, SameWaits
  <2>2. /\ Only(k, r, t)
        /\ r.status[t] = k.status[t] \cup (IF timeout = NoTime THEN {"PEND"} ELSE {"PEND", "PEND_TIME"})
    BY <1>4, <1>7, <1>9, <2>1, WaitTimedRow
  <2>3. \A x \in Task : x # t => r.status[x] = k.status[x]
    BY <2>2 DEF Only, SameRow, SameFlags
  <2>4. \A x \in Task : k.status[x] = kernel.status[x]
    BY <1>6 DEF AsBefore
  <2>5. SameLives
    BY <1>4, <1>10, <2>2, <2>3, <2>4 DEF SameLives
  <2> QED BY <2>1, <2>5 DEF SamePriority, WellFormed, SchedState
<1>12. HeldInv'
  <2>1. \A z \in Mux : Owned(z) => Used(z)' /\ kernel'.status[muxCB[z].owner] \cap {"EXIT", "UNUSED"} = {}
    BY <1>1, <1>10, <1>11, LivesStay DEF HeldInv, Used
  <2> QED BY <1>1, <1>10, <2>1, HeldStays
<1>13. held[o] # <<>> /\ held[o] \in Seq(Mux) /\ Created(o)
  <2>1. held[o] \in Seq(Mux) /\ Contains(held[o], m)
    BY <1>1, <1>5, TaskOwns
  <2>2. held[o] # <<>>
    BY <2>1, EmptyList
  <2> QED BY <1>1, <2>1, <2>2, TaskOwns
<1>14. ASSUME LadderInv PROVE Ladder(o)'
  <2>1. Ladder(o)
    BY <1>13, <1>14 DEF LadderInv
  <2> QED BY <1>1, <1>6, <1>10, <1>11, <1>13, <2>1, LadderInherits
<1>15. ASSUME LadderInv PROVE LadderInv'
  <2> DEFINE T == {o}
  <2>1. T \in SUBSET Task
    OBVIOUS
  <2>2. \A x \in Task : x \notin T => held'[x] = held[x] /\ kernel'.priority[x] = kernel.priority[x]
    BY <1>6, <1>10, <1>11
  <2>3. \A x \in T : Created(x) => Ladder(x)'
    BY <1>14, <1>15
  <2> HIDE DEF T
  <2> QED BY <1>1, <1>10, <1>11, <1>15, <2>1, <2>2, <2>3, LaddersStay
<1> QED BY <1>8, <1>12, <1>15

\* A task that releases a mutex is its owner, and got it last.
LEMMA Releases ==
    ASSUME Unprotected = {}, MuxInv, HeldInv, NEW t \in Task, NEW m \in Mux,
           muxCB[m].owner = t, InOrder(m)
    PROVE  /\ held[t] \in Seq(Mux) /\ IsInjective(held[t]) /\ held[t] # <<>>
           /\ m = Last(held[t]) /\ Created(t)
           /\ \A i \in 1 .. Len(held[t]) - 1 : held[t][i] # m
<1>1. held[t] \in Seq(Mux) /\ IsInjective(held[t]) /\ Contains(held[t], m)
  BY TaskOwns
<1>2. held[t] # <<>> /\ m = Last(held[t])
  BY <1>1, EmptyList DEF InOrder
<1>3. Created(t)
  BY <1>2, TaskOwns
<1>4. Len(held[t]) \in Nat \ {0} /\ held[t][Len(held[t])] = m /\ DOMAIN held[t] = 1 .. Len(held[t])
  BY <1>1, <1>2 DEF Last
<1>5. ASSUME NEW i \in 1 .. Len(held[t]) - 1 PROVE held[t][i] # m
  <2>1. i \in DOMAIN held[t] /\ Len(held[t]) \in DOMAIN held[t] /\ i # Len(held[t])
    BY <1>4
  <2> QED BY <1>1, <1>4, <2>1 DEF IsInjective
<1> QED BY <1>1, <1>2, <1>3, <1>5

LEMMA FreeHeld ==
    ASSUME Unprotected = {}, OwnInv, Record, NEW t \in TCB, NEW m \in Mux, MuxPostFree(t, m)
    PROVE  ObjInv' /\ HeldInv' /\ (LadderInv => LadderInv')
<1>1. MuxInv /\ TaskInv /\ ObjInv /\ SafeInv /\ HeldInv
  BY DEF OwnInv, MuxInv, ObjInv
<1>2. PICK k : k = Restored(m)
  OBVIOUS
<1>3. /\ App(t, "muxPost") /\ Used(m) /\ muxCB[m].owner = t /\ InOrder(m)
      /\ muxCB' = [muxCB EXCEPT ![m].count = 0, ![m].owner = NoOwner]
      /\ held' = [held EXCEPT ![t] = RemoveFirst(@, m)]
      /\ Call(t, k, <<>>, NoArg)
  BY <1>2 DEF MuxPostFree, MuxPostValid
<1>4. t \in Task /\ Thread(t) /\ todo[t] = <<>>
  BY <1>1, <1>3, CallerWorks
<1>5. /\ AsBefore(k)
      /\ \A x \in Task : x # t => k.priority[x] = kernel.priority[x]
      /\ k.priority[t] = muxCB[m].priority
  BY <1>1, <1>2, <1>3, <1>4, RestoredIs
<1>6. ObjInv' /\ kernel' = k
  <2>1. <<>> \in Plain
    BY DEF Plain
  <2> QED BY <1>1, <1>3, <1>4, <1>5, <2>1, MovedGoes DEF Call
<1>7. /\ muxCB'[m].owner = NoOwner /\ muxCB'[m].stat = muxCB[m].stat
      /\ \A z \in Mux : z # m => muxCB'[z] = muxCB[z]
      /\ held'[t] = RemoveFirst(held[t], m) /\ \A x \in Task : x # t => held'[x] = held[x]
  BY <1>1, <1>3, <1>4 DEF MuxInv, MuxCBType, MuxCB
<1>8. SameLives /\ NoOwner \notin Task
  BY <1>5, <1>6, MuxAssumption DEF SameLives, AsBefore, TCB
<1>9. HeldInv'
  <2>1. \A z \in Mux : Owned(z) => kernel'.status[muxCB[z].owner] \cap {"EXIT", "UNUSED"} = {}
    BY <1>1, <1>8, LivesStay DEF HeldInv
  <2>2. Used(m)' /\ NoOwner # muxCB[m].owner
    BY <1>3, <1>4, <1>7, <1>8 DEF Used
  <2>3. Goes(m, t, NoOwner)
    BY <1>3, <1>7, <1>8, <2>1, <2>2 DEF Goes
  <2> QED BY <1>1, <2>3, HeldChanges
<1>10. /\ held[t] \in Seq(Mux) /\ IsInjective(held[t]) /\ held[t] # <<>>
       /\ m = Last(held[t]) /\ Created(t)
       /\ \A i \in 1 .. Len(held[t]) - 1 : held[t][i] # m
  BY <1>1, <1>3, <1>4, Releases
<1>11. ASSUME LadderInv PROVE Ladder(t)'
  <2>1. Ladder(t)
    BY <1>4, <1>10, <1>11 DEF LadderInv
  <2>2. \A i \in 1 .. Len(held[t]) - 1 : muxCB'[held[t][i]].priority = muxCB[held[t][i]].priority
    BY <1>7, <1>10
  <2> QED BY <1>1, <1>4, <1>5, <1>6, <1>7, <1>10, <2>1, <2>2, LadderShrinks
<1>12. ASSUME LadderInv PROVE LadderInv'
  <2> DEFINE T == {t}
  <2>1. T \in SUBSET Task
    BY <1>4
  <2>2. \A x \in Task, z \in Mux : x \notin T /\ muxCB[z].owner = x => muxCB'[z].priority = muxCB[z].priority
    BY <1>3, <1>7
  <2>3. \A x \in Task : x \notin T => held'[x] = held[x] /\ kernel'.priority[x] = kernel.priority[x]
    BY <1>5, <1>6, <1>7
  <2>4. \A x \in T : Created(x) => Ladder(x)'
    BY <1>11, <1>12
  <2> HIDE DEF T
  <2> QED BY <1>1, <1>8, <1>12, <2>1, <2>2, <2>3, <2>4, LaddersStay
<1> QED BY <1>6, <1>9, <1>12

LEMMA HandHeld ==
    ASSUME Unprotected = {}, OwnInv, Record, NEW t \in TCB, NEW m \in Mux, MuxPostHand(t, m)
    PROVE  ObjInv' /\ HeldInv' /\ (LadderInv => LadderInv')
<1>1. MuxInv /\ TaskInv /\ ObjInv /\ SafeInv /\ HeldInv
  BY DEF OwnInv, MuxInv, ObjInv
<1>2. PICK k : k = Restored(m)
  OBVIOUS
<1>3. PICK w : w = Head(kernel.pend[m])
  OBVIOUS
<1>4. /\ App(t, "muxPost") /\ Used(m) /\ muxCB[m].owner = t /\ InOrder(m) /\ kernel.pend[m] # <<>>
      /\ muxCB' = [muxCB EXCEPT ![m].owner = w, ![m].priority = kernel.priority[w]]
      /\ held' = [held EXCEPT ![t] = RemoveFirst(@, m), ![w] = Append(@, m)]
      /\ Call(t, OsSchedTaskWake(k, w), <<"schedule">>, NoArg)
  BY <1>2, <1>3 DEF MuxPostHand, MuxPostValid
<1>5. t \in Task /\ Thread(t) /\ todo[t] = <<>>
  BY <1>1, <1>4, CallerWorks
<1>6. /\ AsBefore(k) /\ k.pend = kernel.pend
      /\ \A x \in Task : x # t => k.priority[x] = kernel.priority[x]
      /\ k.priority[t] = muxCB[m].priority
  BY <1>1, <1>2, <1>4, <1>5, RestoredIs
<1>7. m \in WaitObj /\ k.pend[m] # <<>> /\ w = Head(k.pend[m])
  BY <1>3, <1>4, <1>6, MuxAssumption
<1>8. ObjInv' /\ w \in Task /\ w # t
  <2>1. Call(t, OsSchedTaskWake(k, w), <<"schedule">>, NoArg) /\ AsBefore(k)
    BY <1>4, <1>6
  <2> QED BY <1>1, <1>5, <1>7, <2>1, WakeGoes
<1>9. PICK r : r = OsSchedTaskWake(k, w)
  OBVIOUS
<1>10. kernel' = r
  BY <1>4, <1>9 DEF Call
<1>11. /\ SameLives /\ r.priority = k.priority /\ Created(w)
       /\ kernel'.status[w] \cap {"EXIT", "UNUSED"} = {}
  <2>1. /\ "PEND" \in kernel.status[w] /\ Only(k, r, w) /\ SameLife(k, r, w) /\ WellFormed(k)
    BY <1>1, <1>6, <1>7, <1>9, FirstWaiter DEF AsBefore
  <2>2. \A x \in Task : x # w => r.status[x] = k.status[x]
    BY <2>1 DEF Only, SameRow, SameFlags
  <2>3. \A x \in Task : k.status[x] = kernel.status[x]
    BY <1>6 DEF AsBefore
  <2>4. SameLives
    BY <1>10, <2>1, <2>2, <2>3 DEF SameLives, SameLife
  <2>5. kernel.status[w] \cap {"EXIT", "UNUSED"} = {}
    BY <1>1, <1>8, <2>1, SafeKernel DEF Placed
  <2>6. SamePriority(k, r)
    BY <1>9, WakesKeepPriority
  <2> QED BY <1>8, <2>1, <2>4, <2>5, <2>6 DEF SamePriority, WellFormed, SchedState, SameLives, Created
<1>12. /\ muxCB'[m].owner = w /\ muxCB'[m].stat = muxCB[m].stat
       /\ muxCB'[m].priority = kernel.priority[w]
       /\ \A z \in Mux : z # m => muxCB'[z] = muxCB[z]
  <2>1. muxCB \in [Mux -> MuxCB] /\ muxCB[m] \in MuxCB
    BY <1>1 DEF MuxInv, MuxCBType
  <2> QED BY <1>4, <2>1 DEF MuxCB
<1>13. /\ held'[t] = RemoveFirst(held[t], m) /\ held'[w] = Append(held[w], m)
       /\ \A x \in Task : x # t /\ x # w => held'[x] = held[x]
  BY <1>1, <1>4, <1>5, <1>8 DEF MuxInv, MuxCBType
<1>14. HeldInv'
  <2>1. \A z \in Mux : Owned(z) => kernel'.status[muxCB[z].owner] \cap {"EXIT", "UNUSED"} = {}
    BY <1>1, <1>11, LivesStay DEF HeldInv
  <2>2. Used(m)' /\ t = muxCB[m].owner /\ w \in Task \cup {NoOwner} /\ w # t
    BY <1>4, <1>8, <1>12 DEF Used
  <2>3. kernel'.status[w] \cap {"EXIT", "UNUSED"} = {}
    BY <1>11
  <2>4. Goes(m, t, w)
    BY <1>12, <1>13, <2>1, <2>2, <2>3 DEF Goes
  <2> QED BY <1>1, <2>4, HeldChanges
<1>15. /\ held[t] \in Seq(Mux) /\ IsInjective(held[t]) /\ held[t] # <<>>
       /\ m = Last(held[t]) /\ Created(t)
       /\ \A i \in 1 .. Len(held[t]) - 1 : held[t][i] # m
  BY <1>1, <1>4, <1>5, Releases
<1>16. LadderInv => Ladder(t) /\ Ladder(w)
  BY <1>1, <1>5, <1>8, <1>11, <1>15 DEF LadderInv
<1>17. ASSUME LadderInv PROVE Ladder(t)'
  <2>1. kernel'.priority[t] = muxCB[m].priority
    BY <1>6, <1>10, <1>11
  <2>2. \A i \in 1 .. Len(held[t]) - 1 : muxCB'[held[t][i]].priority = muxCB[held[t][i]].priority
    BY <1>12, <1>15
  <2> QED BY <1>1, <1>5, <1>13, <1>15, <1>16, <1>17, <2>1, <2>2, LadderShrinks
<1>18. ASSUME LadderInv PROVE Ladder(w)'
  <2>1. held[w] \in Seq(Mux) /\ ~Contains(held[w], m)
    BY <1>1, <1>4, <1>8, TaskOwns
  <2>2. \A i \in 1 .. Len(held[w]) : held[w][i] # m
    BY <2>1 DEF Contains
  <2>3. \A i \in 1 .. Len(held[w]) : muxCB'[held[w][i]].priority = muxCB[held[w][i]].priority
    BY <1>12, <2>1, <2>2
  <2>4. kernel'.priority[w] = kernel.priority[w]
    BY <1>6, <1>8, <1>10, <1>11
  <2> QED BY <1>1, <1>8, <1>11, <1>12, <1>13, <1>16, <1>18, <2>1, <2>3, <2>4, LadderGrows
<1>19. ASSUME LadderInv PROVE LadderInv'
  <2> DEFINE T == {t, w}
  <2>1. T \in SUBSET Task
    BY <1>5, <1>8
  <2>2. \A x \in Task, z \in Mux : x \notin T /\ muxCB[z].owner = x => muxCB'[z].priority = muxCB[z].priority
    BY <1>4, <1>12
  <2>3. \A x \in Task : x \notin T => held'[x] = held[x] /\ kernel'.priority[x] = kernel.priority[x]
    BY <1>6, <1>10, <1>11, <1>13
  <2>4. \A x \in T : Created(x) => Ladder(x)'
    BY <1>17, <1>18, <1>19
  <2> HIDE DEF T
  <2> QED BY <1>1, <1>11, <1>19, <2>1, <2>2, <2>3, <2>4, LaddersStay
<1> QED BY <1>8, <1>14, <1>19

\* A step of the tasks changes no priority; a task that is created owns nothing, and
\* its priority is the one it is given.
LEMMA TaskHeld ==
    ASSUME Unprotected = {}, OwnInv,
           TaskNext, OwnersLive, UNCHANGED muxVars, Record
    PROVE  ObjInv' /\ HeldInv' /\ ("priset" \notin Calls /\ LadderInv => LadderInv')
<1>1. MuxInv /\ TaskInv /\ ObjInv /\ SafeInv /\ HeldInv
  BY DEF OwnInv, MuxInv, ObjInv
<1>2. held' = held /\ muxCB' = muxCB
  BY DEF muxVars
<1>3. ObjInv'
  BY <1>1, TaskGoes
<1>4. HeldInv'
  <2>1. \A m \in Mux : Owned(m) => Used(m)' /\ kernel'.status[muxCB[m].owner] \cap {"EXIT", "UNUSED"} = {}
    BY <1>1, <1>2 DEF OwnersLive, HeldInv, Used
  <2> QED BY <1>1, <1>2, <2>1, HeldStays
<1>5. "priset" \notin Calls => SamePriorities
  BY <1>1, PrioritiesStay
<1>6. ASSUME "priset" \notin Calls, LadderInv, NEW x \in Task, Created(x)' PROVE Ladder(x)'
  <2>1. CASE Created(x)
    <3>1. Ladder(x) /\ kernel'.priority[x] = kernel.priority[x] /\ held[x] \in Seq(Mux)
      BY <1>1, <1>5, <1>6, <2>1, TaskOwns DEF LadderInv, SamePriorities
    <3> QED BY <1>2, <2>1, <3>1, LadderStays
  <2>2. CASE ~Created(x)
    <3>1. held'[x] = <<>>
      BY <1>1, <1>2, <2>2, TaskOwns
    <3>2. given'[x] = kernel'.priority[x]
      BY <2>2 DEF Record
    <3> QED BY <3>1, <3>2 DEF Ladder
  <2> QED BY <2>1, <2>2
<1> QED BY <1>3, <1>4, <1>6 DEF LadderInv

-----------------------------------------------------------------------------

LEMMA PriorityInit == MuxInit => PriorityInv
<1> SUFFICES ASSUME MuxInit PROVE PriorityInv
  OBVIOUS
<1>1. MuxInv /\ Init
  BY MuxInitInv DEF MuxInit
<1>2. ObjInv
  BY <1>1, InitSafe, InitControl, InitOutcome DEF ObjInv
<1>3. /\ \A t \in Task : held[t] = <<>> /\ ~Created(t)
      /\ \A m \in Mux : muxCB[m].owner = NoOwner
  <2>1. \A t \in Task : kernel.status[t] = {"UNUSED"}
    BY <1>1, SchedAssumption DEF Init, TCB
  <2>2. \A t \in Task : held[t] = <<>>
    BY DEF MuxInit
  <2>3. \A m \in Mux : muxCB[m].owner = NoOwner
    BY DEF MuxInit
  <2> QED BY <2>1, <2>2, <2>3 DEF Created
<1>4. HeldInv
  <2>1. \A t \in Task : t # NoOwner /\ IsInjective(<<>>) /\ \A m : ~Contains(<<>>, m)
    BY MuxAssumption DEF TCB, IsInjective, Contains
  <2> QED BY <1>3, <2>1 DEF HeldInv, Holds, Owned
<1>5. LadderInv
  BY <1>3 DEF LadderInv
<1> QED BY <1>1, <1>2, <1>4, <1>5 DEF PriorityInv, OwnInv

\* Who owns what is known whatever priorities are set.
LEMMA OwnNext ==
    ASSUME Unprotected = {}, OwnInv, [MuxNext]_allMuxVars
    PROVE  OwnInv' /\ ("priset" \notin Calls /\ LadderInv => LadderInv')
<1>1. MuxInv'
  BY MuxNextInv DEF OwnInv
<1>2. ASSUME TaskNext, OwnersLive, UNCHANGED muxVars, Record
      PROVE  ObjInv' /\ HeldInv' /\ ("priset" \notin Calls /\ LadderInv => LadderInv')
  BY <1>2, TaskHeld
<1>3. ASSUME NEW t \in TCB, MuxStep(t), Record
      PROVE  ObjInv' /\ HeldInv' /\ (LadderInv => LadderInv')
  BY <1>3, CreateHeld, ResultHeld, CountHeld, TakeHeld, FreeHeld, HandHeld, WaitHeld DEF MuxStep
<1>4. ASSUME UNCHANGED allMuxVars PROVE ObjInv' /\ HeldInv' /\ (LadderInv => LadderInv')
  <2>1. UNCHANGED taskVars /\ held' = held /\ muxCB' = muxCB /\ given' = given /\ kernel' = kernel
    BY <1>4 DEF allMuxVars, taskVars
  <2>2. ObjInv'
    BY <2>1, TaskGoes DEF OwnInv, MuxInv
  <2>3. HeldInv'
    BY <2>1 DEF OwnInv, HeldInv, Holds, Owned, Used
  <2>4. \A t \in Task : (Created(t)' <=> Created(t)) /\ (Ladder(t)' <=> Ladder(t))
    BY <2>1 DEF Created, Ladder, Saved
  <2> QED BY <2>2, <2>3, <2>4 DEF LadderInv
<1> QED BY <1>1, <1>2, <1>3, <1>4 DEF MuxNext, OwnInv

LEMMA PriorityNext ==
    ASSUME Unprotected = {}, "priset" \notin Calls
    PROVE  PriorityInv /\ [MuxNext]_allMuxVars => PriorityInv'
  BY OwnNext DEF PriorityInv

\* As long as LOS_TaskPriSet is not called, mutexes are released last in, first out and
\* no owner is deleted (both of them the empty set Unprotected), no waiter that comes,
\* runs out of time or is deleted leaves a trace: a task that owns no mutex has the
\* priority that LOS_TaskCreate gave it, and none ever has a lower one.
THEOREM PriorityComesBack ==
    ASSUME Unprotected = {}, "priset" \notin Calls
    PROVE  MuxSpec => []PriorityRestored
<1>1. PriorityInv => PriorityRestored
  <2> SUFFICES ASSUME PriorityInv, NEW t \in Task, Created(t)
               PROVE  /\ kernel.priority[t] <= given[t]
                      /\ held[t] = <<>> => kernel.priority[t] = given[t]
    BY DEF PriorityRestored
  <2>1. MuxInv /\ HeldInv /\ Ladder(t)
    BY DEF PriorityInv, OwnInv, LadderInv
  <2>2. kernel.priority[t] \in Int
    BY <2>1 DEF MuxInv, TaskInv, TaskTypeOK, SpecialTasks, Prio
  <2>3. CASE held[t] = <<>>
    BY <2>1, <2>2, <2>3 DEF Ladder
  <2>4. CASE held[t] # <<>>
    <3>1. PICK n \in Nat \ {0} : n = Len(held[t])
      BY <2>1, <2>4, TaskOwns
    <3>2. /\ Saved(t, 1) = given[t] /\ kernel.priority[t] <= Saved(t, n)
          /\ \A i, j \in 1 .. n : i < j => Saved(t, j) <= Saved(t, i)
      BY <2>1, <2>4, <3>1 DEF Ladder
    <3>3. Saved(t, 1) \in Int /\ Saved(t, n) \in Int
      <4>1. held[t][1] \in Mux /\ held[t][n] \in Mux
        BY <2>1, <3>1, TaskOwns
      <4> QED BY <2>1, <4>1, MuxType DEF Saved, Prio
    <3>4. Saved(t, n) <= Saved(t, 1)
      BY <3>1, <3>2, <3>3
    <3> QED BY <2>2, <2>4, <3>2, <3>3, <3>4
  <2> QED BY <2>3, <2>4
<1> QED BY <1>1, PriorityInit, PriorityNext, PTL DEF MuxSpec

-----------------------------------------------------------------------------
(* Each mutex implements the abstract one: as for the semaphores, and a     *)
(* task that has been handed the mutex is its owner, which lives.           *)

GrantInv == \A m \in Mux : GrantedOn(m) \subseteq {muxCB[m].owner}

MuxRefInv == OwnInv /\ GrantInv

Fates(m) == Handed(m) = GrantedOn(m) /\ TimedOut(m) = LateOn(m)

LEMMA OwnParts == OwnInv => MuxInv /\ TaskInv /\ ObjInv /\ SafeInv /\ HeldInv /\ MuxCBType
  BY DEF OwnInv, MuxInv, ObjInv

LEMMA FatesAre == OwnInv => \A m \in Mux : Fates(m) /\ Split(m)
<1> SUFFICES ASSUME OwnInv, NEW m \in Mux PROVE Fates(m) /\ Split(m)
  OBVIOUS
<1>1. InPend(m) = CallersOn(m)
  BY OwnParts, ResultToCome DEF InPend, CallersOn, TCB
<1>2. Handed(m) = GrantedOn(m)
  BY <1>1 DEF Handed, GrantedOn, Granted, CallersOn, Has
<1>3. TimedOut(m) = LateOn(m)
  BY <1>1 DEF TimedOut, LateOn, Has
<1>4. Split(m)
  BY OwnParts, CallersSplit, MuxAssumption
<1> QED BY <1>2, <1>3, <1>4 DEF Fates

LEMMA FatesAreNext == OwnInv' => (\A m \in Mux : Fates(m) /\ Split(m))'
  BY FatesAre, PTL

\* The mutex m is used, owned and counted as it was.
SameBlock(m) == /\ Used(m)' = Used(m)
                /\ muxCB'[m].owner = muxCB[m].owner /\ muxCB'[m].count = muxCB[m].count

MuxStepOn(m) ==
    /\ UNCHANGED Abstract(m)!lock \/ Abstract(m)!Next
    /\ GrantedOn(m)' \subseteq {muxCB'[m].owner}

LEMMA MuxStutters ==
    ASSUME MuxRefInv, NEW m \in Mux, Fates(m), Fates(m)', SameBlock(m), SameOn(m)
    PROVE  MuxStepOn(m)
<1>1. UNCHANGED Abstract(m)!lock
  BY DEF Abstract!lock, Fates, SameBlock, SameOn
<1> QED BY <1>1 DEF MuxStepOn, MuxRefInv, GrantInv, SameBlock, SameOn

\* A task that waits leaves the wait list.
LEMMA MuxUnqueues ==
    ASSUME NEW m, Split(m), NEW x, Contains(kernel.pend[m], x), CutOut(m, x)
    PROVE  Abstract(m)!Unqueue(x)
<1>1. PICK q \in Seq(Task) : q = kernel.pend[m]
  BY DEF Split
<1>2. PICK r : r = RemoveFirst(q, x)
  OBVIOUS
<1>3. PICK i \in DOMAIN q : q[i] = x /\ r = SubSeq(q, 1, i - 1) \o SubSeq(q, i + 1, Len(q))
  BY <1>1, <1>2, UnlinkCut
<1>4. kernel'.pend[m] = r
  BY <1>1, <1>2 DEF CutOut, Unlink
<1> QED BY <1>1, <1>3, <1>4 DEF Abstract!Unqueue

\* A step of the tasks: nothing, a timeout, or the end of a task in its call, which
\* is not the owner.
LEMMA MuxTaskStep ==
    ASSUME NEW m \in Mux, MuxRefInv, OwnInv', ResultsGoOn, SameBlock(m)
    PROVE  MuxStepOn(m)
<1>1. Fates(m) /\ Fates(m)' /\ Split(m)
  BY FatesAre, FatesAreNext DEF MuxRefInv
<1>2. SameOn(m) \/ \E x \in Task : LateAt(m, x) \/ CutOff(m, x)
  BY OwnParts, TasksOn, MuxAssumption DEF MuxRefInv, OwnInv, MuxInv
<1>3. CASE SameOn(m)
  BY <1>1, <1>3, MuxStutters
<1>4. ASSUME NEW x \in Task, LateAt(m, x) PROVE MuxStepOn(m)
  <2>1. Abstract(m)!Unqueue(x)
    BY <1>1, <1>4, MuxUnqueues DEF LateAt
  <2>2. Abstract(m)!Expire(x)
    BY <1>1, <1>4, <2>1 DEF Abstract!Expire, LateAt, Fates, SameBlock
  <2>3. GrantedOn(m)' \subseteq {muxCB'[m].owner}
    BY <1>4 DEF LateAt, MuxRefInv, GrantInv, SameBlock
  <2> QED BY <2>2, <2>3 DEF Abstract!Next, MuxStepOn
<1>5. ASSUME NEW x \in Task, CutOff(m, x) PROVE MuxStepOn(m)
  <2>1. x \in Abstract(m)!Range(kernel.pend[m]) <=> Contains(kernel.pend[m], x)
    BY <1>1 DEF Abstract!Range, Contains, Split
  <2>2. x \notin GrantedOn(m)
    <3>1. ASSUME x = muxCB[m].owner PROVE FALSE
      <4>1. x = muxCB'[m].owner /\ x # NoOwner
        BY <3>1, MuxAssumption DEF SameBlock, TCB
      <4>2. kernel'.status[x] \cap {"EXIT", "UNUSED"} = {}
        BY <4>1 DEF OwnInv, HeldInv, Owned
      <4> QED BY <1>5, <4>2 DEF CutOff
    <3> QED BY <3>1 DEF MuxRefInv, GrantInv
  <2>3. GrantedOn(m)' = GrantedOn(m) /\ GrantedOn(m)' \subseteq {muxCB'[m].owner}
    BY <1>5, <2>2 DEF CutOff, MuxRefInv, GrantInv, SameBlock
  <2>4. LateOn(m)' = LateOn(m) \ {x} /\ x \in CallersOn(m)
    BY <1>5 DEF CutOff
  <2>5. CASE Contains(kernel.pend[m], x)
    <3>1. Abstract(m)!Unqueue(x)
      BY <1>1, <1>5, <2>5, MuxUnqueues DEF CutOff
    <3>2. x \in Abstract(m)!calling
      BY <2>1, <2>5 DEF Abstract!calling
    <3>3. Abstract(m)!Leave(x)
      BY <1>1, <2>1, <2>2, <2>3, <2>4, <2>5, <3>1, <3>2 DEF Abstract!Leave, Fates, SameBlock
    <3> QED BY <2>3, <3>3 DEF Abstract!Next, MuxStepOn
  <2>6. CASE ~Contains(kernel.pend[m], x)
    <3>1. kernel'.pend[m] = kernel.pend[m]
      BY <1>1, <1>5, <2>6, UnlinkAbsent DEF CutOff, CutOut, Unlink, Split
    <3>2. x \in LateOn(m)
      BY <1>1, <2>2, <2>4, <2>6 DEF Split, GrantedOn
    <3>3. x \in Abstract(m)!calling
      BY <1>1, <3>2 DEF Abstract!calling, Fates
    <3>4. Abstract(m)!Leave(x)
      BY <1>1, <2>1, <2>2, <2>3, <2>4, <2>6, <3>1, <3>3 DEF Abstract!Leave, Fates, SameBlock
    <3> QED BY <2>3, <3>4 DEF Abstract!Next, MuxStepOn
  <2> QED BY <2>5, <2>6
<1> QED BY <1>2, <1>3, <1>4, <1>5

\* What the actions do to the calls on the objects.
LEMMA MuxWaitGoes ==
    ASSUME OwnInv, NEW t \in TCB, NEW m \in Mux, NEW timeout \in Timeout, MuxWait(t, m, timeout)
    PROVE  /\ Grants({t}, {}) /\ t \in Task /\ ~AtResult(t) /\ AtResult(t)' /\ arg'[t] = m
           /\ kernel'.pend = [kernel.pend EXCEPT ![m] = Append(@, t)]
<1>1. MuxInv /\ TaskInv /\ ObjInv /\ SafeInv
  BY OwnParts
<1>2. PICK k : k = Inherited(t, m)
  OBVIOUS
<1>3. /\ App(t, "muxPend") /\ kernel.lock = 0 /\ muxCB[m].count > 0
      /\ Call(t, OsSchedTaskWait(k, m, timeout), <<"schedule", "result">>, m)
  BY <1>2 DEF MuxWait, MuxPendValid
<1>4. t \in Task /\ Thread(t) /\ todo[t] = <<>> /\ t = kernel.run
  BY <1>1, <1>3, CallerWorks
<1>5. PICK o \in Task : o = muxCB[m].owner
  BY <1>1, <1>3, MuxType
<1>6. AsBefore(k) /\ k.pend = kernel.pend
  BY <1>1, <1>2, <1>4, <1>5, InheritedIs
<1>7. m \in WaitObj /\ timeout \in (0 .. MaxDelay) \cup {NoTime} /\ m \in WaitList
  BY MuxAssumption DEF WaitList
<1>8. Grants({t}, {}) /\ todo'[t] = <<"schedule", "result">> /\ arg'[t] = m
  BY <1>1, <1>3, <1>4, <1>6, <1>7, WaitGoes
<1>9. kernel' = OsSchedTaskWait(k, m, timeout) /\ WellFormed(k) /\ k.run = t
  BY <1>3, <1>4, <1>6 DEF Call, AsBefore, SameControl
<1>10. kernel'.pend = [kernel.pend EXCEPT ![m] = Append(@, t)]
  <2>1. OsSchedTaskWait(k, m, timeout).pend = [k.pend EXCEPT ![m] = Append(k.pend[m], k.run)]
    BY <1>7, <1>9, WaitAppends
  <2> QED BY <1>6, <1>9, <2>1
<1> QED BY <1>4, <1>8, <1>10 DEF AtResult

LEMMA MuxResultGoes ==
    ASSUME OwnInv, NEW t \in TCB, MuxResult(t)
    PROVE  /\ Grants({t}, {}) /\ ~AtResult(t)' /\ kernel'.pend = kernel.pend
           /\ t \in Task /\ "PEND" \notin kernel.status[t]
<1>1. /\ Doing(t, "result") /\ Thread(t) /\ todo[t] # <<>> /\ Head(todo[t]) = "result"
      /\ Call(t, [kernel EXCEPT !.status[t] = @ \ {"TIMEOUT"}], Tail(todo[t]), arg[t])
  BY DEF MuxResult, Continue, Doing
<1>2. TaskInv /\ SafeInv /\ ObjInv /\ OutcomeInv
  BY OwnParts DEF ObjInv
<1>3. todo[t] = <<"result">>
  <2>1. todo[t] \in Rest
    BY <1>2 DEF SafeInv
  <2> QED BY <1>1, <2>1 DEF Rest
<1>4. Tail(todo[t]) = <<>> /\ Tail(todo[t]) \in Plain /\ AtResult(t)
  BY <1>3 DEF Plain, AtResult
<1>5. Grants({t}, {}) /\ todo'[t] = <<>>
  BY <1>1, <1>2, <1>4, TimeoutGoes
<1>6. t \in Task /\ "PEND" \notin kernel.status[t]
  <2>1. t \in Task
    BY <1>2, <1>4 DEF OutcomeInv
  <2> QED BY <1>1, <1>2, <2>1, WorkFlags DEF Blocking
<1>7. kernel'.pend = kernel.pend
  <2>1. kernel' = [kernel EXCEPT !.status[t] = @ \ {"TIMEOUT"}] /\ WellFormed(kernel)
    BY <1>1, <1>2, InvWellFormed DEF Call
  <2> QED BY <2>1 DEF WellFormed, SchedState
<1> QED BY <1>5, <1>6, <1>7 DEF AtResult

\* The priority of the owner is restored.
LEMMA MuxFreeGoes ==
    ASSUME OwnInv, NEW t \in TCB, NEW m \in Mux, MuxPostFree(t, m)
    PROVE  /\ Grants({t}, {}) /\ ~AtResult(t) /\ ~AtResult(t)'
           /\ kernel'.pend = kernel.pend
<1>1. MuxInv /\ TaskInv /\ ObjInv /\ SafeInv /\ OutcomeInv
  BY OwnParts DEF ObjInv
<1>2. PICK k : k = Restored(m)
  OBVIOUS
<1>3. App(t, "muxPost") /\ muxCB[m].owner = t /\ Call(t, k, <<>>, NoArg)
  BY <1>2 DEF MuxPostFree, MuxPostValid
<1>4. t \in Task /\ todo[t] = <<>>
  BY <1>1, <1>3, CallerWorks
<1>5. AsBefore(k) /\ k.pend = kernel.pend
  BY <1>1, <1>2, <1>3, <1>4, RestoredIs
<1>6. /\ kernel' = k /\ todo'[t] = <<>>
      /\ \A u \in TCB : u # t => todo'[u] = todo[u] /\ arg'[u] = arg[u]
  BY <1>1, <1>3 DEF Call, TaskInv, TaskTypeOK
<1>7. ~AtResult(t) /\ ~AtResult(t)'
  BY <1>4, <1>6 DEF AtResult
<1>8. \A u \in TCB : u # t => (Granted(u)' <=> Granted(u))
  BY <1>1, <1>5, <1>6 DEF Granted, AtResult, AsBefore, OutcomeInv
<1> QED BY <1>5, <1>6, <1>7, <1>8 DEF Grants, Granted

\* and the first waiter is woken.
LEMMA MuxHandGoes ==
    ASSUME OwnInv, NEW t \in TCB, NEW m \in Mux, MuxPostHand(t, m), NEW w, w = Head(kernel.pend[m])
    PROVE  /\ Grants({t}, {w}) /\ t \in Task /\ ~AtResult(t) /\ ~AtResult(t)'
           /\ \E k : "pend" \in DOMAIN k /\ k.pend = kernel.pend /\ kernel'.pend = OsSchedTaskWake(k, w).pend
<1>1. MuxInv /\ TaskInv /\ ObjInv /\ SafeInv
  BY OwnParts
<1>2. PICK k : k = Restored(m)
  OBVIOUS
<1>3. /\ App(t, "muxPost") /\ muxCB[m].owner = t /\ kernel.pend[m] # <<>>
      /\ Call(t, OsSchedTaskWake(k, w), <<"schedule">>, NoArg)
  BY <1>2 DEF MuxPostHand, MuxPostValid
<1>4. t \in Task /\ Thread(t) /\ todo[t] = <<>>
  BY <1>1, <1>3, CallerWorks
<1>5. AsBefore(k) /\ k.pend = kernel.pend
  BY <1>1, <1>2, <1>3, <1>4, RestoredIs
<1>6. m \in WaitObj /\ k.pend[m] # <<>> /\ w = Head(k.pend[m])
  BY <1>3, <1>5, MuxAssumption
<1>7. Grants({t}, {w}) /\ todo'[t] = <<"schedule">>
  BY <1>1, <1>3, <1>4, <1>5, <1>6, WakeGoes
<1>8. "pend" \in DOMAIN k /\ kernel'.pend = OsSchedTaskWake(k, w).pend
  BY <1>3, <1>5 DEF Call, AsBefore, WellFormed, SchedState
<1> QED BY <1>4, <1>5, <1>7, <1>8 DEF AtResult

-----------------------------------------------------------------------------
(* The steps of one mutex. *)

\* A mutex that nobody owns is not locked, one that is not in use nobody owns.
Block(m) ==
    /\ muxCB[m].count \in Nat /\ muxCB[m].stat \in {"USED", "UNUSED"}
    /\ muxCB[m].count = 0 <=> muxCB[m].owner = NoOwner
    /\ ~Used(m) => muxCB[m].owner = NoOwner

LEMMA BlocksAre == OwnInv => \A m \in Mux : Block(m) /\ muxCB \in [Mux -> MuxCB]
  BY OwnParts, MuxAssumption DEF MuxCBType, MuxCB, HeldInv, Block, Owned

\* The mutex z is created, deleted, taken, or locked or released once more: nobody
\* is in another part of a call.
LEMMA MuxCounts ==
    ASSUME MuxRefInv, OwnInv', NEW m \in Mux, NEW t \in TCB, NEW z \in Mux, UNCHANGED taskVars,
           \/ MuxCreate(t) /\ z = Head(unusedMux)
           \/ MuxDelete(t, z) \/ MuxTake(t, z) \/ MuxRepeat(t, z) \/ MuxPostNested(t, z)
    PROVE  MuxStepOn(m)
<1>1. Fates(m) /\ Fates(m)' /\ SameOn(m) /\ Split(m)
  BY FatesAre, FatesAreNext, CallersStay DEF MuxRefInv
<1>2. Block(m) /\ muxCB \in [Mux -> MuxCB] /\ OwnInv
  BY BlocksAre DEF MuxRefInv
<1>3. CASE m # z
  <2>1. SameBlock(m)
    BY <1>2, <1>3
    DEF SameBlock, Used, MuxCreate, MuxDelete, MuxTake, MuxRepeat, MuxPostNested, MuxCB
  <2> QED BY <1>1, <2>1, MuxStutters
<1>4. CASE m = z /\ MuxCreate(t) /\ z = Head(unusedMux)
  <2>1. ~Used(m)
    <3>1. unusedMux \in Seq(Mux) /\ unusedMux # <<>>
      BY <1>2, <1>4, OwnParts DEF MuxCreate, MuxCBType
    <3>2. Contains(unusedMux, m)
      BY <1>4, <3>1, EmptyList
    <3> QED BY <1>2, <3>2, OwnParts DEF MuxInv, WaitersHaveOwner
  <2>2. muxCB'[m] = [stat |-> "USED", count |-> 0, owner |-> NoOwner, priority |-> 0]
    BY <1>2, <1>4 DEF MuxCreate
  <2>3. Abstract(m)!Create /\ muxCB'[m].owner = muxCB[m].owner
    BY <1>1, <1>2, <2>1, <2>2 DEF Abstract!Create, Fates, SameOn, Used, Block
  <2>4. GrantedOn(m)' \subseteq {muxCB'[m].owner}
    BY <1>1, <2>3 DEF MuxRefInv, GrantInv, SameOn
  <2> QED BY <2>3, <2>4 DEF MuxStepOn, Abstract!Next
<1>5. CASE m = z /\ MuxDelete(t, z)
  <2>1. muxCB'[m] = [muxCB[m] EXCEPT !.stat = "UNUSED"] /\ Used(m) /\ muxCB[m].count = 0
    BY <1>2, <1>5 DEF MuxDelete, MuxDeleteValid
  <2>2. Abstract(m)!Delete /\ muxCB'[m].owner = muxCB[m].owner
    BY <1>1, <1>2, <2>1 DEF Abstract!Delete, Fates, SameOn, Used, Block, MuxCB
  <2>3. GrantedOn(m)' \subseteq {muxCB'[m].owner}
    BY <1>1, <2>2 DEF MuxRefInv, GrantInv, SameOn
  <2> QED BY <2>2, <2>3 DEF MuxStepOn, Abstract!Next
<1>6. ASSUME NEW call, App(t, call)
      PROVE  t \in Task /\ t \notin Abstract(m)!calling /\ ~AtResult(t)
  <2>1. t \in Task /\ ~AtResult(t)
    BY <1>2, <1>6, OwnParts, CallerWorks DEF AtResult
  <2>2. t \notin CallersOn(m)
    BY <2>1 DEF CallersOn
  <2>3. t \notin Abstract(m)!Range(kernel.pend[m])
    BY <1>1, <2>2 DEF Abstract!Range, Split, Contains
  <2> QED BY <1>1, <2>1, <2>2, <2>3 DEF Abstract!calling, Fates, GrantedOn, LateOn
<1>7. CASE m = z /\ (MuxTake(t, z) \/ MuxRepeat(t, z))
  <2>1. t \in Task /\ t \notin Abstract(m)!calling /\ Used(m)
    BY <1>6, <1>7 DEF MuxTake, MuxRepeat, MuxPendValid
  <2>2. /\ muxCB[m].owner = NoOwner \/ muxCB[m].owner = t
        /\ muxCB'[m].owner = t /\ muxCB'[m].count = muxCB[m].count + 1
        /\ muxCB'[m].stat = muxCB[m].stat
    BY <1>2, <1>7 DEF MuxTake, MuxRepeat, Block, MuxCB
  <2>3. Abstract(m)!Acquire(t)
    BY <1>1, <2>1, <2>2 DEF Abstract!Acquire, Fates, SameOn, Used
  <2>4. NoOwner \notin GrantedOn(m)
    BY MuxAssumption DEF GrantedOn, CallersOn, TCB
  <2>5. GrantedOn(m)' \subseteq {muxCB'[m].owner}
    BY <1>1, <2>2, <2>4 DEF MuxRefInv, GrantInv, SameOn
  <2> QED BY <2>1, <2>3, <2>5 DEF MuxStepOn, Abstract!Next
<1>8. CASE m = z /\ MuxPostNested(t, z)
  <2>1. t \in Task /\ t \notin Abstract(m)!calling /\ Used(m) /\ muxCB[m].owner = t /\ muxCB[m].count > 1
    BY <1>6, <1>8 DEF MuxPostNested, MuxPostValid
  <2>2. /\ muxCB'[m].owner = t /\ muxCB'[m].count = muxCB[m].count - 1
        /\ muxCB'[m].stat = muxCB[m].stat
    BY <1>2, <1>8, <2>1 DEF MuxPostNested, MuxCB
  <2>3. Abstract(m)!Release(t)
    BY <1>1, <2>1, <2>2 DEF Abstract!Release, Fates, SameOn, Used
  <2>4. GrantedOn(m)' \subseteq {muxCB'[m].owner}
    BY <1>1, <2>1, <2>2 DEF MuxRefInv, GrantInv, SameOn
  <2> QED BY <2>1, <2>3, <2>4 DEF MuxStepOn, Abstract!Next
<1> QED BY <1>3, <1>4, <1>5, <1>7, <1>8

\* A task that runs is in no other call on a mutex.
LEMMA NotCalling ==
    ASSUME OwnInv, NEW m \in Mux, Fates(m), Split(m), NEW t, t \notin CallersOn(m)
    PROVE  t \notin Abstract(m)!calling
<1>1. t \notin Abstract(m)!Range(kernel.pend[m])
  BY DEF Abstract!Range, Split, Contains
<1> QED BY <1>1 DEF Abstract!calling, Fates, GrantedOn, LateOn

\* A call waits at the end of the list.
LEMMA MuxWaits ==
    ASSUME MuxRefInv, OwnInv', NEW m \in Mux, NEW t \in TCB, NEW z \in Mux, NEW timeout \in Timeout,
           MuxWait(t, z, timeout)
    PROVE  MuxStepOn(m)
<1>1. Fates(m) /\ Fates(m)' /\ Split(m) /\ z \in WaitObj /\ m \in WaitObj
  BY FatesAre, FatesAreNext, MuxAssumption DEF MuxRefInv
<1>2. Grants({t}, {}) /\ t \in Task /\ ~AtResult(t) /\ AtResult(t)' /\ arg'[t] = z
      /\ kernel'.pend = [kernel.pend EXCEPT ![z] = Append(@, t)]
  BY MuxWaitGoes DEF MuxRefInv
<1>3. TaskInv /\ ObjInv /\ TaskInv' /\ ObjInv'
  BY OwnParts DEF MuxRefInv, OwnInv, MuxInv
<1>4. /\ t \notin CallersOn(z) /\ kernel'.pend[z] = Append(kernel.pend[z], t)
      /\ GrantedOn(z)' = GrantedOn(z) /\ LateOn(z)' = LateOn(z)
      /\ \A q \in WaitObj \ {z} : SameOn(q)
  BY <1>1, <1>2, <1>3, WaitsOn
<1>5. /\ SameBlock(m) /\ Used(z) /\ Block(z)
      /\ muxCB[z].owner # t /\ muxCB[z].count > 0
  BY BlocksAre DEF MuxWait, MuxPendValid, muxVars, SameBlock, Used, MuxRefInv
<1>6. CASE m = z
  <2>1. t \notin Abstract(m)!calling
    BY <1>1, <1>4, <1>6, NotCalling DEF MuxRefInv
  <2>2. muxCB[m].owner \notin {NoOwner, t}
    BY <1>5, <1>6 DEF Block
  <2>3. Abstract(m)!Wait(t)
    BY <1>1, <1>4, <1>5, <1>6, <2>1, <2>2 DEF Abstract!Wait, Fates, SameBlock
  <2>4. GrantedOn(m)' \subseteq {muxCB'[m].owner}
    BY <1>4, <1>5, <1>6 DEF MuxRefInv, GrantInv, SameBlock
  <2> QED BY <1>2, <2>3, <2>4 DEF MuxStepOn, Abstract!Next
<1>7. CASE m # z
  BY <1>1, <1>4, <1>5, <1>7, MuxStutters
<1> QED BY <1>6, <1>7

\* A call returns: with success only to the owner.
LEMMA MuxReturns ==
    ASSUME MuxRefInv, OwnInv', NEW m \in Mux, NEW t \in TCB, MuxResult(t)
    PROVE  MuxStepOn(m)
<1>1. Fates(m) /\ Fates(m)' /\ m \in WaitObj /\ TaskInv /\ ObjInv /\ TaskInv' /\ ObjInv'
  BY FatesAre, FatesAreNext, MuxAssumption, OwnParts DEF MuxRefInv, OwnInv, MuxInv
<1>2. /\ Grants({t}, {}) /\ ~AtResult(t)' /\ kernel'.pend = kernel.pend
      /\ t \in Task /\ "PEND" \notin kernel.status[t]
  BY MuxResultGoes DEF MuxRefInv
<1>3. SameBlock(m)
  BY DEF MuxResult, muxVars, SameBlock, Used
<1>4. CASE t \notin CallersOn(m)
  <2>1. SameOn(m)
    BY <1>1, <1>2, <1>4, ReturnsOn
  <2> QED BY <1>1, <1>3, <2>1, MuxStutters
<1>5. CASE t \in CallersOn(m)
  <2>1. /\ kernel'.pend[m] = kernel.pend[m] /\ t \in GrantedOn(m) \cup LateOn(m)
        /\ GrantedOn(m)' = GrantedOn(m) \ {t} /\ LateOn(m)' = LateOn(m) \ {t}
    BY <1>1, <1>2, <1>5, ReturnsOn
  <2>2. GrantedOn(m) \subseteq {muxCB[m].owner}
    BY DEF MuxRefInv, GrantInv
  <2>3. Abstract(m)!Return(t)
    BY <1>1, <1>3, <2>1, <2>2 DEF Abstract!Return, Fates, SameBlock
  <2>4. GrantedOn(m)' \subseteq {muxCB'[m].owner}
    BY <1>3, <2>1, <2>2 DEF SameBlock
  <2> QED BY <1>2, <2>3, <2>4 DEF MuxStepOn, Abstract!Next
<1> QED BY <1>4, <1>5

\* The owner releases a mutex that nobody waits for.
LEMMA MuxFrees ==
    ASSUME MuxRefInv, OwnInv', NEW m \in Mux, NEW t \in TCB, NEW z \in Mux, MuxPostFree(t, z)
    PROVE  MuxStepOn(m)
<1>1. Fates(m) /\ Fates(m)' /\ Split(m) /\ m \in WaitObj /\ TaskInv /\ ObjInv /\ TaskInv' /\ ObjInv'
  BY FatesAre, FatesAreNext, MuxAssumption, OwnParts DEF MuxRefInv, OwnInv, MuxInv
<1>2. Block(m) /\ muxCB \in [Mux -> MuxCB] /\ OwnInv
  BY BlocksAre DEF MuxRefInv
<1>3. Grants({t}, {}) /\ ~AtResult(t) /\ ~AtResult(t)' /\ kernel'.pend = kernel.pend
  BY <1>2, MuxFreeGoes
<1>4. SameOn(m)
  <2>1. {t} \in SUBSET TCB /\ \A u \in {t} : ~AtResult(u) /\ ~AtResult(u)'
    BY <1>3
  <2> QED BY <1>1, <1>3, <2>1, NobodyOn
<1>5. CASE m # z
  <2>1. SameBlock(m)
    BY <1>2, <1>5 DEF SameBlock, Used, MuxPostFree, MuxCB
  <2> QED BY <1>1, <1>4, <2>1, MuxStutters
<1>6. CASE m = z
  <2>1. App(t, "muxPost") /\ Used(m) /\ muxCB[m].owner = t /\ muxCB[m].count = 1 /\ kernel.pend[m] = <<>>
    BY <1>6 DEF MuxPostFree, MuxPostValid
  <2>2. muxCB'[m].owner = NoOwner /\ muxCB'[m].count = 0 /\ muxCB'[m].stat = muxCB[m].stat
    BY <1>2, <1>6 DEF MuxPostFree, MuxCB
  <2>3. t \in Task /\ t \notin CallersOn(m)
    BY <1>2, <1>3, <2>1, OwnParts, CallerWorks DEF CallersOn
  <2>4. t \notin Abstract(m)!calling
    BY <1>1, <1>2, <2>3, NotCalling
  <2>5. Abstract(m)!Release(t)
    BY <1>1, <1>4, <2>1, <2>2, <2>4 DEF Abstract!Release, Fates, SameOn, Used
  <2>6. GrantedOn(m)' \subseteq {muxCB'[m].owner}
    BY <1>4, <2>1, <2>3 DEF MuxRefInv, GrantInv, SameOn, GrantedOn
  <2> QED BY <2>3, <2>5, <2>6 DEF MuxStepOn, Abstract!Next
<1> QED BY <1>5, <1>6

\* The owner hands it to the first waiter.
LEMMA MuxHands ==
    ASSUME MuxRefInv, OwnInv', NEW m \in Mux, NEW t \in TCB, NEW z \in Mux, MuxPostHand(t, z)
    PROVE  MuxStepOn(m)
<1>1. Fates(m) /\ Fates(m)' /\ Split(m) /\ m \in WaitObj /\ z \in WaitObj
      /\ TaskInv /\ ObjInv /\ TaskInv' /\ ObjInv'
  BY FatesAre, FatesAreNext, MuxAssumption, OwnParts DEF MuxRefInv, OwnInv, MuxInv
<1>2. Block(m) /\ muxCB \in [Mux -> MuxCB] /\ OwnInv
  BY BlocksAre DEF MuxRefInv
<1>3. PICK w : w = Head(kernel.pend[z])
  OBVIOUS
<1>4. Grants({t}, {w}) /\ t \in Task /\ ~AtResult(t) /\ ~AtResult(t)'
  BY <1>2, <1>3, MuxHandGoes
<1>5. PICK k : "pend" \in DOMAIN k /\ k.pend = kernel.pend /\ kernel'.pend = OsSchedTaskWake(k, w).pend
  BY <1>2, <1>3, MuxHandGoes
<1>6. /\ App(t, "muxPost") /\ Used(z) /\ muxCB[z].owner = t /\ muxCB[z].count = 1 /\ kernel.pend[z] # <<>>
      /\ muxCB' = [muxCB EXCEPT ![z].owner = w, ![z].priority = kernel.priority[w]]
  BY <1>3 DEF MuxPostHand, MuxPostValid
<1>7. /\ w \in Task /\ kernel'.pend[z] = Tail(kernel.pend[z])
      /\ GrantedOn(z)' = GrantedOn(z) \cup {w} /\ LateOn(z)' = LateOn(z)
      /\ \A q \in WaitObj \ {z} : SameOn(q)
  <2>1. {t} \in SUBSET TCB /\ \A u \in {t} : ~AtResult(u) /\ ~AtResult(u)'
    BY <1>4
  <2> QED BY <1>1, <1>3, <1>4, <1>5, <1>6, <2>1, WakesOn
<1>8. CASE m # z
  <2>1. SameBlock(m)
    BY <1>2, <1>6, <1>8 DEF SameBlock, Used, MuxCB
  <2> QED BY <1>1, <1>7, <1>8, <2>1, MuxStutters
<1>9. CASE m = z
  <2>1. muxCB'[m].owner = w /\ muxCB'[m].count = 1 /\ muxCB'[m].stat = muxCB[m].stat
    BY <1>2, <1>6, <1>9 DEF MuxCB
  <2>2. t \notin CallersOn(m) /\ t \notin Abstract(m)!calling
    BY <1>1, <1>2, <1>4, NotCalling DEF CallersOn
  <2>3. Abstract(m)!Release(t)
    BY <1>1, <1>3, <1>6, <1>7, <1>9, <2>1, <2>2 DEF Abstract!Release, Fates, Used
  <2>4. GrantedOn(m) = {}
    BY <1>6, <1>9, <2>2 DEF MuxRefInv, GrantInv, GrantedOn
  <2>5. GrantedOn(m)' \subseteq {muxCB'[m].owner}
    BY <1>7, <1>9, <2>1, <2>4
  <2> QED BY <1>4, <2>3, <2>5 DEF MuxStepOn, Abstract!Next
<1> QED BY <1>8, <1>9

LEMMA MuxStarts == MuxInit => MuxRefInv /\ \A m \in Mux : Abstract(m)!Init
<1> SUFFICES ASSUME MuxInit PROVE MuxRefInv /\ \A m \in Mux : Abstract(m)!Init
  OBVIOUS
<1>1. OwnInv /\ Init
  BY PriorityInit DEF PriorityInv, MuxInit
<1>2. ASSUME NEW m \in Mux PROVE GrantedOn(m) = {} /\ Abstract(m)!Init
  <2>1. Fates(m)
    BY <1>1, FatesAre
  <2>2. CallersOn(m) = {}
    BY <1>1 DEF CallersOn, AtResult, Init, TCB
  <2>3. GrantedOn(m) = {} /\ LateOn(m) = {}
    BY <2>2 DEF GrantedOn, LateOn
  <2>4. kernel.pend[m] = <<>> /\ ~Used(m) /\ muxCB[m].count = 0 /\ muxCB[m].owner = NoOwner
    BY MuxAssumption DEF MuxInit, Init, WaitList, Used
  <2>5. Used(m) = FALSE
    BY <2>4 DEF Used
  <2> QED BY <2>1, <2>3, <2>4, <2>5 DEF Abstract!Init, Fates
<1> QED BY <1>1, <1>2 DEF MuxRefInv, GrantInv

\* Every step of the system is for each mutex one of the abstract one, or none.
LEMMA MuxSimulates ==
    ASSUME Unprotected = {}, MuxRefInv, [MuxNext]_allMuxVars, NEW m \in Mux
    PROVE  MuxStepOn(m)
<1>1. OwnInv' /\ TaskInv /\ ObjInv /\ OwnInv
  BY OwnNext, OwnParts DEF MuxRefInv
<1>2. CASE UNCHANGED muxVars /\ [TaskNext]_taskVars
  <2>1. ResultsGoOn
    BY <1>1, <1>2, TaskGoes
  <2>2. SameBlock(m)
    BY <1>2 DEF muxVars, SameBlock, Used
  <2> QED BY <1>1, <2>1, <2>2, MuxTaskStep
<1>3. ASSUME NEW t \in TCB, MuxStep(t) PROVE MuxStepOn(m)
  <2>1. ASSUME MuxCreate(t) PROVE MuxStepOn(m)
    <3>1. PICK z \in Mux : z = Head(unusedMux)
      BY <1>1, <2>1, OwnParts, EmptyList DEF MuxCreate, MuxCBType
    <3>2. UNCHANGED taskVars
      BY <2>1 DEF MuxCreate
    <3> QED BY <1>1, <2>1, <3>1, <3>2, MuxCounts
  <2>2. ASSUME NEW z \in Mux,
               MuxDelete(t, z) \/ MuxTake(t, z) \/ MuxRepeat(t, z) \/ MuxPostNested(t, z)
        PROVE  MuxStepOn(m)
    <3>1. UNCHANGED taskVars
      BY <2>2 DEF MuxDelete, MuxTake, MuxRepeat, MuxPostNested, taskVars
    <3> QED BY <1>1, <2>2, <3>1, MuxCounts
  <2> QED BY <1>1, <1>3, <2>1, <2>2, MuxWaits, MuxReturns, MuxFrees, MuxHands DEF MuxStep
<1>4. ASSUME UNCHANGED allMuxVars PROVE MuxStepOn(m)
  <2>1. UNCHANGED muxVars /\ UNCHANGED taskVars
    BY <1>4 DEF allMuxVars, muxVars, taskVars
  <2> QED BY <1>2, <2>1
<1> QED BY <1>2, <1>3, <1>4 DEF MuxNext

LEMMA MuxRefNext ==
    ASSUME Unprotected = {}, MuxRefInv, [MuxNext]_allMuxVars
    PROVE  MuxRefInv'
  BY OwnNext, MuxSimulates DEF MuxRefInv, GrantInv, MuxStepOn

\* Each mutex is the lock that LOS_MuxPend and LOS_MuxPost promise: whatever
\* timeouts, suspensions, priority changes and deletions come between the critical
\* sections of the calls, it has one owner at a time, only its owner passes it on, to
\* the task that has waited longest, and a call that returns success returns to the
\* owner.
THEOREM EveryMutexIsALock ==
    ASSUME Unprotected = {}
    PROVE  MuxSpec => EachIsALock
<1>1. MuxInit => MuxRefInv /\ \A m \in Mux : Abstract(m)!Init
  BY MuxStarts
<1>2. MuxRefInv /\ [MuxNext]_allMuxVars => MuxRefInv'
  BY MuxRefNext
<1>3. MuxRefInv /\ [MuxNext]_allMuxVars =>
         [\A m \in Mux : UNCHANGED Abstract(m)!lock \/ Abstract(m)!Next]_allMuxVars
  BY MuxSimulates DEF MuxStepOn
<1> QED BY <1>1, <1>2, <1>3, PTL DEF MuxSpec, EachIsALock

=============================================================================
