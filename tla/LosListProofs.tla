---------------------------- MODULE LosListProofs ----------------------------
(***************************************************************************)
(* For any number of tasks and priorities: every list of the scheduler     *)
(* agrees with the status of the tasks, no assertion of the context switch *)
(* fails, one task runs, and a task that is joined or deleted is really    *)
(* over.                                                                   *)
(*                                                                         *)
(* A TCB has one node for the ready queues, the wait lists, the free list  *)
(* and the recycle list, and the code never asks where the node is: it     *)
(* looks at the status.  So the invariant (ListInv) says of each task at   *)
(* once what its flags are and which lists it is on (Placed), and of the   *)
(* lists that none has a task twice (Tidy).  It is inductive only together *)
(* with what is on its way: that a task which has blocked itself is        *)
(* switched out before it does anything else (SwitchComes), that a task    *)
(* half created is known to its creator alone (CreateInv), and that a task *)
(* which is joined keeps its TCB until the joiner has it (JoinInv).        *)
(*                                                                         *)
(* The last two hold only while the application keeps to the protocol that *)
(* the code leaves to it: no handle used before the creation returns, no   *)
(* task that has exited resumed, no running task resumed by an interrupt,  *)
(* no task joined twice (Unprotected = {}).                                *)
(*                                                                         *)
(* Then, for an application that joins no task: none that is ready has a   *)
(* higher priority than the one that runs (RankInv).                       *)
(*                                                                         *)
(* The invariant also allows waits on IPC objects, with and without a      *)
(* timeout.  The last sections are for the modules of those objects: what  *)
(* a call on one does to the invariant, and to who has been given what it  *)
(* waited for (Granted) and who has run out of time (OutcomeInv).          *)
(***************************************************************************)
EXTENDS LosTask, LosTaskProofs

-----------------------------------------------------------------------------
(* The invariant. *)

\* The lists that the one node of x is on, and its place on the sort link.
Queues(k, x) == {p \in Prio : Contains(k.ready[p], x)}
Waits(k, x)  == {o \in WaitList : Contains(k.pend[o], x)}

\* No node is on a list twice, and the sort link is in order.
Tidy(k) ==
    /\ \A p \in Prio : IsInjective(k.ready[p])
    /\ \A o \in WaitList : IsInjective(k.pend[o])
    /\ IsInjective(k.free) /\ IsInjective(k.recycle) /\ IsInjective(k.sortLink)
    /\ \A i, j \in 1 .. Len(k.sortLink) :
          i < j => k.due[k.sortLink[i]] <= k.due[k.sortLink[j]]

Blocking == {"PEND", "SUSPEND", "EXIT", "DELAY", "UNUSED"}

\* x is on the lists that its status names, and the flags fit each other.
Placed(k, x) ==
    LET S == k.status[x] IN
    /\ Queues(k, x) = IF "READY" \in S THEN {k.priority[x]} ELSE {}
    /\ Waits(k, x) # {} <=> "PEND" \in S
    /\ \A o, q \in Waits(k, x) : o = q
    /\ "UNUSED" \in S <=> Contains(k.free, x) \/ Contains(k.recycle, x)
    /\ ~(Contains(k.free, x) /\ Contains(k.recycle, x))
    /\ Contains(k.recycle, x) => "JOINABLE" \notin S
    /\ Contains(k.sortLink, x) <=> S \cap {"DELAY", "PEND_TIME"} # {} /\ "RUNNING" \notin S
    /\ Contains(k.sortLink, x) => k.due[x] # NoTime
    /\ "READY" \in S => S \cap (Blocking \cup {"RUNNING"}) = {}
    /\ "UNUSED" \in S \/ "EXIT" \in S => S \cap {"PEND", "DELAY"} = {}
    /\ "PEND" \in S => "DELAY" \notin S
    /\ "PEND_TIME" \in S => "PEND" \in S
    /\ "RUNNING" \in S => x = k.run \/ Contains(k.recycle, x)
    /\ \/ "STACK_FREE" \in S
       \/ S \cap {"UNUSED", "EXIT"} # {}
       \/ S \subseteq {"SUSPEND", "JOINABLE"}

\* What runs: a task that has its TCB and is not ready, Idle, or Boot.
Runs(k) ==
    /\ k.run \in Task => /\ {"RUNNING", "STACK_FREE"} \subseteq k.status[k.run]
                        /\ "UNUSED" \notin k.status[k.run]
    /\ k.run # Boot => "READY" \notin k.status[k.run]
    /\ "RUNNING" \in k.status[Idle] <=> k.run = Idle
    /\ k.started /\ k.run = Boot => k.lock = 0
    /\ ~k.panic

\* A running task that has blocked or ended itself is about to be switched out.
SwitchComes ==
    kernel.run \in Task /\ kernel.status[kernel.run] \cap Blocking # {} =>
        /\ kernel.lock = 0
        /\ kernel.pendSV \/ (todo[kernel.run] # <<>> /\ Head(todo[kernel.run]) = "schedule")

\* What is left of a call of the tasks, or of one on an IPC object.
Rest == {<<>>, <<"recycle", "take">>, <<"take">>, <<"enqueue">>, <<"noStack">>, <<"schedule">>,
         <<"schedule", "joinReclaim">>, <<"joinReclaim">>, <<"join">>,
         <<"schedule", "result">>, <<"result">>, <<"eventRead">>, <<"eventWrite">>}

Creating(t, x) == arg[t] = x /\ todo[t] \in {<<"enqueue">>, <<"noStack">>}
Reclaims(t, x) == arg[t] = x /\ todo[t] \in {<<"schedule", "joinReclaim">>, <<"joinReclaim">>}
Joins(t, x)    == Reclaims(t, x) \/ (arg[t] = x /\ todo[t] = <<"join">>)
Results(t, o)  == arg[t] = o /\ todo[t] \in {<<"schedule", "result">>, <<"result">>}

\* A task in the middle of its creation is known to nobody but its creator.
CreateInv ==
    \A t \in TCB, x \in Task : Creating(t, x) =>
       /\ kernel.status[x] \subseteq {"SUSPEND", "JOINABLE", "STACK_FREE"}
       /\ todo[t] = <<"enqueue">> => "STACK_FREE" \in kernel.status[x]
       /\ x \notin handles
       /\ \A u \in TCB : Creating(u, x) => u = t

\* A task that is joined keeps its TCB for the one that joins it, who waits for ever.
JoinInv ==
    /\ \A x, t \in Task : x \in Waits(kernel, t) =>
          /\ Reclaims(t, x) /\ "JOINABLE" \in kernel.status[x] /\ "EXIT" \notin kernel.status[x]
          /\ "PEND_TIME" \notin kernel.status[t]
    /\ \A x \in Task, t \in TCB : Joins(t, x) =>
          /\ t \in Task /\ t # x /\ x \in handles /\ "UNUSED" \notin kernel.status[x]
          /\ "EXIT" \in kernel.status[x] \/ x \in Waits(kernel, t)
          /\ \A u \in TCB : Joins(u, x) => u = t

\* A task on the wait list of an object has not come back from its call on it.
ResultInv == \A t \in Task, o \in WaitObj : o \in Waits(kernel, t) => Results(t, o)

HandleInv == \A x \in handles : ~(kernel.status[x] \subseteq {"SUSPEND", "JOINABLE"})

Sound(k) == Tidy(k) /\ Runs(k) /\ \A x \in Task : Placed(k, x)

SafeInv ==
    /\ Sound(kernel) /\ SwitchComes /\ CreateInv /\ JoinInv /\ ResultInv /\ HandleInv
    /\ \A t \in TCB : todo[t] \in Rest
-----------------------------------------------------------------------------
(* What a function of the scheduler does to the place of a task. *)

SameQueues(k, r, x) == Queues(r, x) = Queues(k, x)
SameWaits(k, r, x)  == Waits(r, x) = Waits(k, x)
SamePool(k, r, x)   == /\ Contains(r.free, x) <=> Contains(k.free, x)
                       /\ Contains(r.recycle, x) <=> Contains(k.recycle, x)
SameTime(k, r, x)   == /\ Contains(r.sortLink, x) <=> Contains(k.sortLink, x)
                       /\ r.due[x] = NoTime <=> k.due[x] = NoTime
SameFlags(k, r, x)  == r.status[x] = k.status[x] /\ r.priority[x] = k.priority[x]

SameRow(k, r, x) ==
    /\ SameQueues(k, r, x) /\ SameWaits(k, r, x) /\ SamePool(k, r, x)
    /\ SameTime(k, r, x) /\ SameFlags(k, r, x)

\* No other task moves or changes its status, and what runs stays.
Only(k, r, t) ==
    /\ WellFormed(r) /\ Tidy(r)
    /\ SameControl(k, r) /\ r.panic = k.panic
    /\ \A x \in Task : x # t => SameRow(k, r, x)
    /\ t # Idle => r.status[Idle] = k.status[Idle]

\* Two functions in a row that move only t move only t.
LEMMA OnlyTrans ==
    ASSUME NEW k, NEW m, NEW r, NEW t, Only(k, m, t), Only(m, r, t)
    PROVE  Only(k, r, t)
  BY DEF Only, SameControl, SameRow, SameQueues, SameWaits, SamePool, SameTime, SameFlags

\* What is moved stays well formed and tidy.
LEMMA OnlyType == ASSUME NEW k, NEW r, NEW t, Only(k, r, t) PROVE WellFormed(r) /\ Tidy(r)
  BY DEF Only

\* A function that does nothing moves nobody.
LEMMA OnlySelf ==
    ASSUME NEW k, WellFormed(k), Tidy(k), NEW t
    PROVE  /\ Only(k, k, t) /\ SameRow(k, k, t)
  BY DEF Only, SameControl, SameRow, SameQueues, SameWaits, SamePool, SameTime, SameFlags

\* A task whose row is as before is placed as before.
LEMMA SamePlaced ==
    ASSUME NEW k, NEW r, NEW x, Placed(k, x), SameRow(k, r, x), r.run = k.run
    PROVE  Placed(r, x)
  BY DEF Placed, SameRow, SameQueues, SameWaits, SamePool, SameTime, SameFlags

\* Every list but the one in question, and the response times, are as before.
SameLists(k, r) ==
    /\ r.ready = k.ready /\ r.pend = k.pend /\ r.free = k.free /\ r.recycle = k.recycle
    /\ r.sortLink = k.sortLink /\ r.due = k.due

\* A change outside the lists moves nobody.
LEMMA FlagsRow ==
    ASSUME NEW k, Tidy(k), NEW r, SameLists(k, r)
    PROVE  /\ Tidy(r)
           /\ \A x : /\ SameQueues(k, r, x) /\ SameWaits(k, r, x)
                     /\ SamePool(k, r, x) /\ SameTime(k, r, x)
  BY DEF SameLists, Tidy, SameQueues, SameWaits, SamePool, SameTime, Queues, Waits

\* A change of one ready queue that concerns t only.
LEMMA ReadyRow ==
    ASSUME NEW k, WellFormed(k), Tidy(k), NEW t, NEW p \in Prio, NEW s, IsInjective(s),
           \A z \in Task : z # t => (Contains(s, z) <=> Contains(k.ready[p], z)),
           NEW r, r.ready = [k.ready EXCEPT ![p] = s], SameLists(k, [r EXCEPT !.ready = k.ready]),
           r \in SchedState
    PROVE  /\ Tidy(r)
           /\ \A x : SameWaits(k, r, x) /\ SamePool(k, r, x) /\ SameTime(k, r, x)
           /\ \A x \in Task : x # t => SameQueues(k, r, x)
           /\ Queues(r, t) = IF Contains(s, t) THEN Queues(k, t) \cup {p}
                             ELSE Queues(k, t) \ {p}
<1>1. /\ r.pend = k.pend /\ r.free = k.free /\ r.recycle = k.recycle
      /\ r.sortLink = k.sortLink /\ r.due = k.due
  BY DEF SameLists, SchedState
<1>2. \A q \in Prio : r.ready[q] = IF q = p THEN s ELSE k.ready[q]
  BY DEF WellFormed, SchedState
<1>3. Tidy(r)
  BY <1>1, <1>2 DEF Tidy
<1>4. \A x : SameWaits(k, r, x) /\ SamePool(k, r, x) /\ SameTime(k, r, x)
  BY <1>1 DEF SameWaits, SamePool, SameTime, Waits
<1>5. \A x \in Task : x # t => SameQueues(k, r, x)
  BY <1>2 DEF SameQueues, Queues
<1>6. Queues(r, t) = IF Contains(s, t) THEN Queues(k, t) \cup {p} ELSE Queues(k, t) \ {p}
  BY <1>2 DEF Queues
<1> QED BY <1>3, <1>4, <1>5, <1>6

\* A change of the wait lists that concerns t only.
LEMMA PendRow ==
    ASSUME NEW k, WellFormed(k), Tidy(k), NEW t, NEW r \in SchedState,
           \A o \in WaitList : IsInjective(r.pend[o]),
           \A o \in WaitList, z \in Task :
              z # t => (Contains(r.pend[o], z) <=> Contains(k.pend[o], z)),
           SameLists(k, [r EXCEPT !.pend = k.pend])
    PROVE  /\ Tidy(r)
           /\ \A x : SameQueues(k, r, x) /\ SamePool(k, r, x) /\ SameTime(k, r, x)
           /\ \A x \in Task : x # t => SameWaits(k, r, x)
<1>1. /\ r.ready = k.ready /\ r.free = k.free /\ r.recycle = k.recycle
      /\ r.sortLink = k.sortLink /\ r.due = k.due
  BY DEF SameLists, SchedState
<1>2. Tidy(r)
  BY <1>1 DEF Tidy
<1>3. \A x : SameQueues(k, r, x) /\ SamePool(k, r, x) /\ SameTime(k, r, x)
  BY <1>1 DEF SameQueues, SamePool, SameTime, Queues
<1>4. \A x \in Task : x # t => SameWaits(k, r, x)
  BY DEF SameWaits, Waits
<1> QED BY <1>2, <1>3, <1>4

\* A change of the sort link and the response times that concerns t only.
LEMMA TimeRow ==
    ASSUME NEW k, WellFormed(k), Tidy(k), NEW t, NEW r \in SchedState,
           IsInjective(r.sortLink),
           \A i, j \in 1 .. Len(r.sortLink) :
              i < j => r.due[r.sortLink[i]] <= r.due[r.sortLink[j]],
           \A z \in Task : z # t => (Contains(r.sortLink, z) <=> Contains(k.sortLink, z)),
           \A z \in Task : z # t => r.due[z] = k.due[z],
           SameLists(k, [r EXCEPT !.sortLink = k.sortLink, !.due = k.due])
    PROVE  /\ Tidy(r)
           /\ \A x : SameQueues(k, r, x) /\ SamePool(k, r, x) /\ SameWaits(k, r, x)
           /\ \A x \in Task : x # t => SameTime(k, r, x)
<1>1. r.ready = k.ready /\ r.free = k.free /\ r.recycle = k.recycle /\ r.pend = k.pend
  BY DEF SameLists, SchedState
<1>2. Tidy(r)
  BY <1>1 DEF Tidy
<1>3. \A x : SameQueues(k, r, x) /\ SamePool(k, r, x) /\ SameWaits(k, r, x)
  BY <1>1 DEF SameQueues, SamePool, SameWaits, Queues, Waits
<1>4. \A x \in Task : x # t => SameTime(k, r, x)
  BY DEF SameTime
<1> QED BY <1>2, <1>3, <1>4

-----------------------------------------------------------------------------
(* The functions of the scheduler: a flag, the priority, the ready queues. *)

SamePlace(k, r, x) ==
    SameQueues(k, r, x) /\ SameWaits(k, r, x) /\ SamePool(k, r, x) /\ SameTime(k, r, x)

\* taskCB->taskStatus is written, no list is touched.
LEMMA StatusRow ==
    ASSUME NEW k, WellFormed(k), Tidy(k), NEW t \in Task \cup {Idle}, NEW S, Fits(t, S)
    PROVE  LET r == [k EXCEPT !.status[t] = S] IN
           /\ Only(k, r, t) /\ SamePlace(k, r, t)
           /\ r.status[t] = S /\ r.priority = k.priority /\ r.waitTimes = k.waitTimes
<1> DEFINE r == [k EXCEPT !.status[t] = S]
<1>1. WellFormed(r) /\ r.status[t] = S
  <2>1. t \in TCB
    BY DEF TCB
  <2> QED BY <2>1, StatusKeeps, KeepsWellFormed
<1>2. /\ SameLists(k, r) /\ SameControl(k, r) /\ r.panic = k.panic
      /\ r.priority = k.priority /\ r.waitTimes = k.waitTimes
      /\ \A x \in Task \cup {Idle} : x # t => r.status[x] = k.status[x]
  BY DEF WellFormed, SchedState, SameLists, SameControl, TCB
<1> HIDE DEF r
<1>3. /\ Tidy(r)
      /\ \A x : SameQueues(k, r, x) /\ SameWaits(k, r, x) /\ SamePool(k, r, x) /\ SameTime(k, r, x)
  BY <1>2, FlagsRow
<1> QED BY <1>1, <1>2, <1>3 DEF Only, SameRow, SameFlags, SamePlace, r

\* taskCB->priority is written, no list is touched.
LEMMA PriorityRow ==
    ASSUME NEW k, WellFormed(k), Tidy(k), NEW t \in Task, NEW p \in Prio
    PROVE  LET r == [k EXCEPT !.priority[t] = p] IN
           /\ Only(k, r, t) /\ SamePlace(k, r, t)
           /\ r.status = k.status /\ r.priority[t] = p
<1> DEFINE r == [k EXCEPT !.priority[t] = p]
<1>1. WellFormed(r)
  BY PriorityKeeps, KeepsWellFormed
<1>2. /\ SameLists(k, r) /\ SameControl(k, r) /\ r.panic = k.panic /\ r.status = k.status
      /\ r.priority[t] = p /\ \A x \in Task : x # t => r.priority[x] = k.priority[x]
  BY DEF WellFormed, SchedState, SameLists, SameControl, TCB
<1> HIDE DEF r
<1>3. /\ Tidy(r)
      /\ \A x : SameQueues(k, r, x) /\ SameWaits(k, r, x) /\ SamePool(k, r, x) /\ SameTime(k, r, x)
  BY <1>2, FlagsRow
<1> QED BY <1>1, <1>2, <1>3 DEF Only, SameRow, SameFlags, SamePlace, r

\* A change of the ready queue p moves t only, onto it or off it.
LEMMA QueueRow ==
    ASSUME NEW k, WellFormed(k), Tidy(k), NEW t \in Task, NEW p \in Prio, NEW s, IsInjective(s),
           \A z \in Task : z # t => (Contains(s, z) <=> Contains(k.ready[p], z)),
           NEW r, WellFormed(r), r.ready = [k.ready EXCEPT ![p] = s],
           SameLists(k, [r EXCEPT !.ready = k.ready]),
           SameControl(k, r), r.panic = k.panic, r.status = k.status, r.priority = k.priority
    PROVE  /\ Only(k, r, t)
           /\ SameWaits(k, r, t) /\ SamePool(k, r, t) /\ SameTime(k, r, t) /\ SameFlags(k, r, t)
           /\ Queues(r, t) = IF Contains(s, t) THEN Queues(k, t) \cup {p}
                             ELSE Queues(k, t) \ {p}
<1>1. r \in SchedState
  BY DEF WellFormed
<1>2. /\ Tidy(r)
      /\ \A x : SameWaits(k, r, x) /\ SamePool(k, r, x) /\ SameTime(k, r, x)
      /\ \A x \in Task : x # t => SameQueues(k, r, x)
      /\ Queues(r, t) = IF Contains(s, t) THEN Queues(k, t) \cup {p} ELSE Queues(k, t) \ {p}
  BY <1>1, ReadyRow
<1> QED BY <1>2 DEF Only, SameRow, SameFlags

\* OsSchedPriQueueEnHead, OsSchedPriQueueEnTail: t is on the queue of its
\* priority and on no other.
LEMMA ReadyQueueInRow ==
    ASSUME NEW k, WellFormed(k), Tidy(k), NEW t \in Task, Queues(k, t) = {}
    PROVE  LET r == ReadyQueueIn(k, t) IN
           /\ Only(k, r, t) /\ SameWaits(k, r, t) /\ SamePool(k, r, t) /\ SameTime(k, r, t)
           /\ SameFlags(k, r, t) /\ Queues(r, t) = {k.priority[t]}
<1> DEFINE r == ReadyQueueIn(k, t)
           p == k.priority[t]
           h == <<t>> \o k.ready[p]
           a == Append(k.ready[p], t)
<1>1. /\ p \in Prio /\ k.ready[p] \in Seq(Task) /\ IsInjective(k.ready[p]) /\ t # Idle
  BY SchedAssumption DEF WellFormed, SchedState, SpecialTasks, Tidy
<1>2. ~Contains(k.ready[p], t)
  BY <1>1 DEF Queues
<1>3. WellFormed(r)
  BY ReadyQueueInKeeps, KeepsWellFormed
<1>4. PICK s \in {h, a} : r.ready = [k.ready EXCEPT ![p] = s]
  BY <1>1 DEF ReadyQueueIn, OsSchedPriQueueEnHead, OsSchedPriQueueEnTail, WellFormed, SchedState
<1>5. /\ SameLists(k, [r EXCEPT !.ready = k.ready])
      /\ SameControl(k, r) /\ r.panic = k.panic /\ r.status = k.status /\ r.priority = k.priority
  BY <1>1 DEF ReadyQueueIn, OsSchedPriQueueEnHead, OsSchedPriQueueEnTail, WellFormed, SchedState,
              SameLists, SameControl
<1>6. /\ IsInjective(s) /\ Contains(s, t)
      /\ \A z \in Task : z # t => (Contains(s, z) <=> Contains(k.ready[p], z))
  <2>1. CASE s = h
    BY <1>1, <1>2, <2>1, PutFirstOnce
  <2>2. CASE s = a
    BY <1>1, <1>2, <2>2, AppendOnce
  <2> QED BY <2>1, <2>2
<1> HIDE DEF r, p, h, a
<1>7. /\ Only(k, r, t)
      /\ SameWaits(k, r, t) /\ SamePool(k, r, t) /\ SameTime(k, r, t) /\ SameFlags(k, r, t)
      /\ Queues(r, t) = Queues(k, t) \cup {p}
  BY <1>1, <1>3, <1>4, <1>5, <1>6, QueueRow
<1> QED BY <1>7 DEF r, p

EnQueued(S) == (S \ {"PEND", "SUSPEND", "DELAY", "PEND_TIME"}) \cup {"READY"}

\* OsSchedTaskEnQueue: t is READY and on the queue of its priority.
LEMMA EnQueueRow ==
    ASSUME NEW k, WellFormed(k), Tidy(k), NEW t \in Task,
           "READY" \notin k.status[t], Queues(k, t) = {}
    PROVE  LET r == OsSchedTaskEnQueue(k, t) IN
           /\ Only(k, r, t) /\ SameWaits(k, r, t) /\ SamePool(k, r, t) /\ SameTime(k, r, t)
           /\ r.status[t] = EnQueued(k.status[t]) /\ r.priority[t] = k.priority[t]
           /\ Queues(r, t) = {k.priority[t]}
<1> DEFINE m == ReadyQueueIn(k, t)
           S == EnQueued(m.status[t])
           r == [m EXCEPT !.status[t] = S]
<1>1. OsSchedTaskEnQueue(k, t) = r
  BY DEF OsSchedTaskEnQueue, EnQueued
<1>2. /\ Only(k, m, t) /\ SameWaits(k, m, t) /\ SamePool(k, m, t) /\ SameTime(k, m, t)
      /\ SameFlags(k, m, t) /\ Queues(m, t) = {k.priority[t]}
  BY ReadyQueueInRow
<1> HIDE DEF m
<1>3. Fits(t, S)
  <2>1. m.status[t] \in SUBSET Flag
    BY <1>2 DEF Only, WellFormed, SchedState, TCB
  <2>2. t # Idle /\ t # Boot
    BY SchedAssumption
  <2>3. S \in SUBSET Flag
    BY <2>1 DEF EnQueued, Flag
  <2> QED BY <2>2, <2>3 DEF Fits
<1> HIDE DEF S
<1>4. /\ Only(m, r, t) /\ SamePlace(m, r, t) /\ r.status[t] = S /\ r.priority = m.priority
  <2>1. WellFormed(m) /\ Tidy(m)
    BY <1>2, OnlyType
  <2> QED BY <1>3, <2>1, StatusRow
<1> HIDE DEF r
<1>5. Only(k, r, t)
  BY <1>2, <1>4, OnlyTrans
<1> QED BY <1>1, <1>2, <1>4, <1>5
        DEF S, SamePlace, SameQueues, SameWaits, SamePool, SameTime, SameFlags

\* The idle task is in no queue.
LEMMA EnQueueIdle ==
    ASSUME NEW k, WellFormed(k), Tidy(k), "READY" \notin k.status[Idle]
    PROVE  /\ Only(k, OsSchedTaskEnQueue(k, Idle), Idle)
           /\ OsSchedTaskEnQueue(k, Idle).status[Idle] = EnQueued(k.status[Idle])
<1> DEFINE S == EnQueued(k.status[Idle])
<1>1. OsSchedTaskEnQueue(k, Idle) = [k EXCEPT !.status[Idle] = S]
  BY DEF OsSchedTaskEnQueue, ReadyQueueIn, EnQueued
<1>2. Fits(Idle, S)
  BY SchedAssumption DEF WellFormed, SchedState, SpecialTasks, Fits, EnQueued, Flag, TCB
<1> HIDE DEF S
<1> QED BY <1>1, <1>2, StatusRow DEF S

\* OsSchedTaskDeQueue: t is on no ready queue, and not READY.
LEMMA DeQueueRow ==
    ASSUME NEW k, WellFormed(k), Tidy(k), NEW t \in Task,
           Queues(k, t) = IF "READY" \in k.status[t] THEN {k.priority[t]} ELSE {}
    PROVE  LET r == OsSchedTaskDeQueue(k, t) IN
           /\ Only(k, r, t) /\ SameWaits(k, r, t) /\ SamePool(k, r, t) /\ SameTime(k, r, t)
           /\ r.status[t] = k.status[t] \ {"READY"} /\ r.priority[t] = k.priority[t]
           /\ Queues(r, t) = {}
<1>1. CASE "READY" \notin k.status[t]
  <2>1. OsSchedTaskDeQueue(k, t) = k /\ k.status[t] = k.status[t] \ {"READY"}
    BY <1>1 DEF OsSchedTaskDeQueue
  <2> QED BY <1>1, <2>1, OnlySelf DEF SameRow
<1>2. CASE "READY" \in k.status[t]
  <2> DEFINE m == OsSchedPriQueueDelete(k, t)
             p == k.priority[t]
             s == Unlink(k.ready[p], t)
             S == m.status[t] \ {"READY"}
             r == [m EXCEPT !.status[t] = S]
  <2>1. OsSchedTaskDeQueue(k, t) = r
    BY <1>2, SchedAssumption DEF OsSchedTaskDeQueue
  <2>2. p \in Prio /\ k.ready[p] \in Seq(Task) /\ IsInjective(k.ready[p])
    BY DEF WellFormed, SchedState, SpecialTasks, Tidy
  <2>3. /\ m.ready = [k.ready EXCEPT ![p] = s] /\ SameLists(k, [m EXCEPT !.ready = k.ready])
        /\ SameControl(k, m) /\ m.panic = k.panic /\ m.status = k.status
        /\ m.priority = k.priority
    BY DEF OsSchedPriQueueDelete, WellFormed, SchedState, SameLists, SameControl
  <2>4. WellFormed(m)
    BY PriQueueDeleteKeeps, KeepsWellFormed
  <2>5. /\ IsInjective(s) /\ ~Contains(s, t)
        /\ \A z \in Task : z # t => (Contains(s, z) <=> Contains(k.ready[p], z))
    BY <2>2, UnlinkOnce DEF Unlink
  <2> HIDE DEF m, s
  <2>6. /\ Only(k, m, t)
        /\ SameWaits(k, m, t) /\ SamePool(k, m, t) /\ SameTime(k, m, t) /\ SameFlags(k, m, t)
        /\ Queues(m, t) = Queues(k, t) \ {p}
    BY <2>2, <2>3, <2>4, <2>5, QueueRow
  <2>7. Fits(t, S)
    BY <2>4, SchedAssumption DEF WellFormed, SchedState, Fits, TCB
  <2> HIDE DEF S
  <2>8. /\ Only(m, r, t) /\ SamePlace(m, r, t) /\ r.status[t] = S /\ r.priority = m.priority
    BY <2>6, <2>7, StatusRow, OnlyType
  <2> HIDE DEF r
  <2>9. Only(k, r, t)
    BY <2>6, <2>8, OnlyTrans
  <2> QED BY <1>2, <2>1, <2>6, <2>8, <2>9
          DEF S, SamePlace, SameQueues, SameWaits, SamePool, SameTime, SameFlags
<1> QED BY <1>1, <1>2

\* OsSchedTaskDeQueue on the idle task, which is on no ready queue, moves no
\* other.
LEMMA DeQueueIdle ==
    ASSUME NEW k, WellFormed(k), Tidy(k)
    PROVE  /\ Only(k, OsSchedTaskDeQueue(k, Idle), Idle)
           /\ OsSchedTaskDeQueue(k, Idle).status[Idle] = k.status[Idle] \ {"READY"}
<1>1. CASE "READY" \notin k.status[Idle]
  <2>1. OsSchedTaskDeQueue(k, Idle) = k /\ k.status[Idle] = k.status[Idle] \ {"READY"}
    BY <1>1 DEF OsSchedTaskDeQueue
  <2> QED BY <2>1, OnlySelf
<1>2. CASE "READY" \in k.status[Idle]
  <2> DEFINE S == k.status[Idle] \ {"READY"}
  <2>1. OsSchedTaskDeQueue(k, Idle) = [k EXCEPT !.status[Idle] = S]
    BY <1>2 DEF OsSchedTaskDeQueue
  <2>2. Fits(Idle, S)
    BY SchedAssumption DEF WellFormed, SchedState, SpecialTasks, Fits, TCB
  <2> HIDE DEF S
  <2> QED BY <2>1, <2>2, StatusRow DEF S
<1> QED BY <1>1, <1>2

-----------------------------------------------------------------------------
(* The wait lists, the sort link, and the lists of free and finished TCBs. *)

\* LOS_ListDelete on pendList: t is on no wait list.
LEMMA LeaveWaitRow ==
    ASSUME NEW k, WellFormed(k), Tidy(k), NEW t \in Task
    PROVE  LET r == LeaveWaitList(k, t) IN
           /\ Only(k, r, t) /\ SameQueues(k, r, t) /\ SamePool(k, r, t) /\ SameTime(k, r, t)
           /\ SameFlags(k, r, t) /\ Waits(r, t) = {}
<1> DEFINE r == LeaveWaitList(k, t)
<1>1. WellFormed(r) /\ r \in SchedState
  BY LeaveWaitListKeeps, KeepsWellFormed DEF WellFormed
<1>2. /\ SameLists(k, [r EXCEPT !.pend = k.pend]) /\ SameControl(k, r) /\ r.panic = k.panic
      /\ r.status = k.status /\ r.priority = k.priority
      /\ \A o \in WaitList : r.pend[o] = RemoveFirst(k.pend[o], t)
  BY DEF LeaveWaitList, WellFormed, SchedState, SameLists, SameControl, Unlink
<1> HIDE DEF r
<1>3. ASSUME NEW o \in WaitList
      PROVE  /\ IsInjective(r.pend[o]) /\ ~Contains(r.pend[o], t)
             /\ \A z : z # t => (Contains(r.pend[o], z) <=> Contains(k.pend[o], z))
  <2>1. k.pend[o] \in Seq(Task) /\ IsInjective(k.pend[o])
    BY DEF WellFormed, SchedState, Tidy
  <2> QED BY <1>2, <2>1, UnlinkOnce
<1>4. Waits(r, t) = {}
  BY <1>3 DEF Waits
<1>5. /\ Tidy(r)
      /\ \A x : SameQueues(k, r, x) /\ SamePool(k, r, x) /\ SameTime(k, r, x)
      /\ \A x \in Task : x # t => SameWaits(k, r, x)
  BY <1>1, <1>2, <1>3, PendRow
<1> QED BY <1>1, <1>2, <1>4, <1>5 DEF Only, SameRow, SameFlags, r

\* The running task waits without a limit.
LEMMA WaitRow ==
    ASSUME NEW k, WellFormed(k), Tidy(k), k.run \in Task, Waits(k, k.run) = {},
           NEW list \in WaitList
    PROVE  LET r == OsSchedTaskWait(k, list, NoTime) IN
           /\ Only(k, r, k.run) /\ SameQueues(k, r, k.run) /\ SamePool(k, r, k.run)
           /\ SameTime(k, r, k.run) /\ r.priority = k.priority
           /\ r.status[k.run] = k.status[k.run] \cup {"PEND"} /\ Waits(r, k.run) = {list}
<1> DEFINE t == k.run
           r == OsSchedTaskWait(k, list, NoTime)
<1>1. WellFormed(r) /\ r \in SchedState
  BY TaskWaitKeeps DEF WellFormed
<1>2. /\ SameLists(k, [r EXCEPT !.pend = k.pend]) /\ SameControl(k, r) /\ r.panic = k.panic
      /\ r.status = [k.status EXCEPT ![t] = @ \cup {"PEND"}] /\ r.priority = k.priority
      /\ r.pend = [k.pend EXCEPT ![list] = Append(@, t)]
  BY DEF OsSchedTaskWait, WellFormed, SchedState, SameLists, SameControl
<1>3. /\ r.status[t] = k.status[t] \cup {"PEND"}
      /\ \A x \in Task \cup {Idle} : x # t => r.status[x] = k.status[x]
  BY <1>2 DEF WellFormed, SchedState, TCB
<1>4. \A o \in WaitList : k.pend[o] \in Seq(Task) /\ IsInjective(k.pend[o]) /\ ~Contains(k.pend[o], t)
  BY DEF WellFormed, SchedState, Tidy, Waits
<1>5. \A o \in WaitList : r.pend[o] = IF o = list THEN Append(k.pend[list], t) ELSE k.pend[o]
  BY <1>2 DEF WellFormed, SchedState
<1> HIDE DEF r
<1>6. /\ IsInjective(r.pend[list]) /\ Contains(r.pend[list], t)
      /\ \A z : z # t => (Contains(r.pend[list], z) <=> Contains(k.pend[list], z))
  BY <1>4, <1>5, AppendOnce
<1>7. ASSUME NEW o \in WaitList
      PROVE  /\ IsInjective(r.pend[o]) /\ (Contains(r.pend[o], t) <=> o = list)
             /\ \A z \in Task : z # t => (Contains(r.pend[o], z) <=> Contains(k.pend[o], z))
  BY <1>4, <1>5, <1>6
<1>8. Waits(r, t) = {list}
  BY <1>7 DEF Waits
<1>9. /\ Tidy(r)
      /\ \A x : SameQueues(k, r, x) /\ SamePool(k, r, x) /\ SameTime(k, r, x)
      /\ \A x \in Task : x # t => SameWaits(k, r, x)
  <2>1. SameLists(k, [r EXCEPT !.pend = k.pend])
    BY <1>2
  <2>2. \A o \in WaitList : IsInjective(r.pend[o])
    BY <1>7
  <2>3. \A o \in WaitList, z \in Task : z # t => (Contains(r.pend[o], z) <=> Contains(k.pend[o], z))
    BY <1>7
  <2> HIDE DEF t
  <2> QED BY <1>1, <2>1, <2>2, <2>3, PendRow
<1>10. Only(k, r, t)
  <2>1. \A x \in Task : x # t => SameFlags(k, r, x)
    BY <1>2, <1>3 DEF SameFlags
  <2>2. SameControl(k, r) /\ r.panic = k.panic /\ (t # Idle => r.status[Idle] = k.status[Idle])
    BY <1>2, <1>3
  <2> QED BY <1>1, <1>9, <2>1, <2>2 DEF Only, SameRow
<1> QED BY <1>2, <1>3, <1>8, <1>9, <1>10 DEF r

\* OsDeleteNodeSortLink: t is not on the sort link.
LEMMA DeleteNodeRow ==
    ASSUME NEW k, WellFormed(k), Tidy(k), NEW t \in Task
    PROVE  LET r == OsDeleteNodeSortLink(k, t) IN
           /\ Only(k, r, t) /\ SameQueues(k, r, t) /\ SamePool(k, r, t) /\ SameWaits(k, r, t)
           /\ SameFlags(k, r, t) /\ ~Contains(r.sortLink, t)
<1> DEFINE r == OsDeleteNodeSortLink(k, t)
<1>1. WellFormed(r) /\ r \in SchedState
  BY DeleteNodeSortLinkKeeps, KeepsWellFormed DEF WellFormed, TCB
<1>2. /\ SameLists(k, [r EXCEPT !.sortLink = k.sortLink, !.due = k.due])
      /\ SameControl(k, r) /\ r.panic = k.panic
      /\ r.status = k.status /\ r.priority = k.priority
      /\ r.sortLink = RemoveFirst(k.sortLink, t) /\ r.due = [k.due EXCEPT ![t] = NoTime]
  BY DEF OsDeleteNodeSortLink, WellFormed, SchedState, SameLists, SameControl, Unlink
<1>3. /\ k.sortLink \in Seq(Task) /\ IsInjective(k.sortLink) /\ k.due \in [TCB -> -1 .. MaxDelay]
      /\ \A i, j \in 1 .. Len(k.sortLink) : i < j => k.due[k.sortLink[i]] <= k.due[k.sortLink[j]]
  BY DEF WellFormed, SchedState, Tidy
<1>4. \A z \in Task : z # t => r.due[z] = k.due[z]
  BY <1>2, <1>3 DEF TCB
<1> HIDE DEF r
<1>5. /\ IsInjective(r.sortLink) /\ ~Contains(r.sortLink, t) /\ r.sortLink \in Seq(Task)
      /\ \A z : z # t => (Contains(r.sortLink, z) <=> Contains(k.sortLink, z))
  BY <1>2, <1>3, UnlinkOnce
<1>6. \A i, j \in 1 .. Len(r.sortLink) : i < j => r.due[r.sortLink[i]] <= r.due[r.sortLink[j]]
  <2> DEFINE d == [z \in Task |-> k.due[z]]
  <2>1. d \in [Task -> Int]
    BY <1>3 DEF TCB
  <2>2. \A i, j \in 1 .. Len(k.sortLink) : i < j => d[k.sortLink[i]] <= d[k.sortLink[j]]
    BY <1>3
  <2> HIDE DEF d
  <2>3. \A i, j \in 1 .. Len(r.sortLink) : i < j => d[r.sortLink[i]] <= d[r.sortLink[j]]
    <3> DEFINE q == k.sortLink
    <3>1. q \in Seq(Task) /\ \A i, j \in 1 .. Len(q) : i < j => d[q[i]] <= d[q[j]]
      BY <1>3, <2>2
    <3> HIDE DEF q
    <3>2. \A i, j \in 1 .. Len(RemoveFirst(q, t)) :
             i < j => d[RemoveFirst(q, t)[i]] <= d[RemoveFirst(q, t)[j]]
      BY <2>1, <3>1, UnlinkOrder
    <3> QED BY <1>2, <3>2 DEF q
  <2>4. \A i \in 1 .. Len(r.sortLink) : r.sortLink[i] \in Task /\ r.sortLink[i] # t
    BY <1>5 DEF Contains
  <2>5. \A i \in 1 .. Len(r.sortLink) : r.due[r.sortLink[i]] = d[r.sortLink[i]]
    BY <1>4, <2>4 DEF d
  <2> QED BY <2>3, <2>5
<1>7. /\ Tidy(r)
      /\ \A x : SameQueues(k, r, x) /\ SamePool(k, r, x) /\ SameWaits(k, r, x)
      /\ \A x \in Task : x # t => SameTime(k, r, x)
  BY <1>1, <1>2, <1>4, <1>5, <1>6, TimeRow, ZenonT(30)
<1> QED BY <1>1, <1>2, <1>5, <1>7 DEF Only, SameRow, SameFlags, r

\* OsDeleteSortLink looks at the response time to see whether t is on the sort
\* link.
LEMMA DeleteSortLinkRow ==
    ASSUME NEW k, WellFormed(k), Tidy(k), NEW t \in Task,
           Contains(k.sortLink, t) => k.due[t] # NoTime
    PROVE  LET r == OsDeleteSortLink(k, t) IN
           /\ Only(k, r, t) /\ SameQueues(k, r, t) /\ SamePool(k, r, t) /\ SameWaits(k, r, t)
           /\ SameFlags(k, r, t) /\ ~Contains(r.sortLink, t)
  BY DeleteNodeRow, OnlySelf DEF OsDeleteSortLink, SameRow

\* The position that OsAdd2SortLink chooses keeps the order.
LEMMA SortLinkPosOrder ==
    ASSUME NEW k, WellFormed(k), Tidy(k), NEW d \in Int
    PROVE  \A i \in 1 .. Len(k.sortLink) :
              /\ i < SortLinkPos(k, d) => k.due[k.sortLink[i]] <= d
              /\ i >= SortLinkPos(k, d) => d <= k.due[k.sortLink[i]]
<1> DEFINE s == k.sortLink
           n == Len(s)
           v(i) == k.due[s[i]]
           I == {i \in 1 .. n : k.due[s[i]] <= d}
<1>1. /\ s \in Seq(Task) /\ n \in Nat
      /\ \A i \in 1 .. n : v(i) \in Int
      /\ \A i, j \in 1 .. n : i < j => v(i) <= v(j)
  <2>1. s \in Seq(Task) /\ n \in Nat /\ \A t \in Task : k.due[t] \in Int
    BY DEF WellFormed, SchedState, TCB
  <2> QED BY <2>1 DEF Tidy
<1>2. CASE s = <<>>
  BY <1>2
<1>3. CASE s # <<>>
  <2>1. n >= 1 /\ Head(s) = s[1] /\ 1 \in 1 .. n
    BY <1>1, <1>3
  <2>2. CASE k.due[s[1]] > d
    <3>1. SortLinkPos(k, d) = 1
      BY <1>3, <2>1, <2>2 DEF SortLinkPos
    <3>2. \A i \in 1 .. n : d <= v(i)
      BY <1>1, <2>1, <2>2
    <3> QED BY <3>1, <3>2
  <2>3. CASE k.due[s[1]] = d
    <3>1. SortLinkPos(k, d) = 2
      BY <1>3, <2>1, <2>3 DEF SortLinkPos
    <3>2. \A i \in 1 .. n : d <= v(i)
      BY <1>1, <2>1, <2>3
    <3>3. \A i \in 1 .. n : i < 2 => v(i) = d
      BY <2>3
    <3> QED BY <3>1, <3>2, <3>3
  <2>4. CASE k.due[s[1]] < d
    <3> DEFINE j == CHOOSE x \in I : \A y \in I : x >= y
    <3>1. I # {} /\ I \in SUBSET (1 .. n)
      <4>1. k.due[s[1]] <= d
        BY <1>1, <2>1, <2>4
      <4> QED BY <2>1, <4>1
    <3>2. SortLinkPos(k, d) = 1 + j
      BY <1>1, <1>3, <2>1, <2>4, <3>1 DEF SortLinkPos, SelectLastInSeq, Max
    <3>3. j \in I /\ \A y \in I : j >= y
      <4>1. \E x \in I : \A y \in I : x >= y
        BY <1>1, <3>1, MaxOfInterval
      <4> QED BY <4>1
    <3> HIDE DEF j
    <3>4. j \in 1 .. n /\ v(j) <= d /\ \A y \in 1 .. n : v(y) <= d => j >= y
      BY <3>3
    <3> HIDE DEF I
    <3>5. ASSUME NEW i \in 1 .. n, i < 1 + j PROVE v(i) <= d
      <4>1. i = j \/ (i < j /\ v(i) <= v(j))
        BY <1>1, <3>4, <3>5
      <4> QED BY <1>1, <3>4, <4>1
    <3>6. ASSUME NEW i \in 1 .. n, i >= 1 + j PROVE d <= v(i)
      BY <1>1, <3>4, <3>6
    <3> QED BY <3>2, <3>5, <3>6
  <2> QED BY <1>1, <2>1, <2>2, <2>3, <2>4
<1> QED BY <1>2, <1>3

\* OsAdd2SortLink: t is on the sort link, at the place of its response time.
LEMMA Add2SortLinkRow ==
    ASSUME NEW k, WellFormed(k), Tidy(k), NEW t \in Task, ~Contains(k.sortLink, t)
    PROVE  LET r == OsAdd2SortLink(k, t) IN
           /\ Only(k, r, t) /\ SameQueues(k, r, t) /\ SamePool(k, r, t) /\ SameWaits(k, r, t)
           /\ SameFlags(k, r, t) /\ Contains(r.sortLink, t) /\ r.due[t] # NoTime
<1> DEFINE e == k.waitTimes[t]
           m == SortLinkPos(k, e)
           r == OsAdd2SortLink(k, t)
<1>1. WellFormed(r) /\ r \in SchedState
  BY Add2SortLinkKeeps, KeepsWellFormed DEF WellFormed
<1>2. /\ SameLists(k, [r EXCEPT !.sortLink = k.sortLink, !.due = k.due])
      /\ SameControl(k, r) /\ r.panic = k.panic
      /\ r.status = k.status /\ r.priority = k.priority
      /\ r.sortLink = InsertAt(k.sortLink, m, t) /\ r.due = [k.due EXCEPT ![t] = e]
  BY DEF OsAdd2SortLink, WellFormed, SchedState, SameLists, SameControl
<1>3. /\ k.sortLink \in Seq(Task) /\ IsInjective(k.sortLink) /\ k.due \in [TCB -> -1 .. MaxDelay]
      /\ \A i, j \in 1 .. Len(k.sortLink) : i < j => k.due[k.sortLink[i]] <= k.due[k.sortLink[j]]
      /\ e \in 0 .. MaxDelay /\ t \in TCB
  BY DEF WellFormed, SchedState, Tidy, TCB
<1>4. /\ \A z \in Task : z # t => r.due[z] = k.due[z]
      /\ r.due[t] = e /\ e # NoTime /\ e \in Int
  BY <1>2, <1>3, SchedAssumption DEF TCB, NoTime
<1>5. m \in 1 .. Len(k.sortLink) + 1
  BY <1>3, SortLinkPosType
<1>6. \A i \in 1 .. Len(k.sortLink) : /\ i < m => k.due[k.sortLink[i]] <= e
                                      /\ i >= m => e <= k.due[k.sortLink[i]]
  BY <1>4, SortLinkPosOrder
<1> HIDE DEF r, e, m
<1>7. /\ IsInjective(r.sortLink) /\ Contains(r.sortLink, t) /\ r.sortLink \in Seq(Task)
      /\ \A z : z # t => (Contains(r.sortLink, z) <=> Contains(k.sortLink, z))
  BY <1>2, <1>3, <1>5, InsertAtOnce
<1>8. \A i, j \in 1 .. Len(r.sortLink) : i < j => r.due[r.sortLink[i]] <= r.due[r.sortLink[j]]
  <2> DEFINE d == [z \in Task |-> r.due[z]]
  <2>1. d \in [Task -> Int] /\ d[t] = e
    BY <1>2, <1>3, <1>4 DEF TCB
  <2>2. \A i \in 1 .. Len(k.sortLink) : k.sortLink[i] \in Task /\ k.sortLink[i] # t
    BY <1>3 DEF Contains
  <2>3. \A i \in 1 .. Len(k.sortLink) : d[k.sortLink[i]] = k.due[k.sortLink[i]]
    BY <1>4, <2>2
  <2> HIDE DEF d
  <2>4. /\ \A i, j \in 1 .. Len(k.sortLink) : i < j => d[k.sortLink[i]] <= d[k.sortLink[j]]
        /\ \A i \in 1 .. Len(k.sortLink) : i < m => d[k.sortLink[i]] <= d[t]
        /\ \A i \in 1 .. Len(k.sortLink) : i >= m => d[t] <= d[k.sortLink[i]]
    BY <1>3, <1>6, <2>1, <2>3
  <2>5. \A i, j \in 1 .. Len(r.sortLink) : i < j => d[r.sortLink[i]] <= d[r.sortLink[j]]
    <3> DEFINE q == k.sortLink
    <3>1. q \in Seq(Task) /\ m \in 1 .. Len(q) + 1
      BY <1>3, <1>5
    <3>2. /\ \A i, j \in 1 .. Len(q) : i < j => d[q[i]] <= d[q[j]]
          /\ \A i \in 1 .. Len(q) : i < m => d[q[i]] <= d[t]
          /\ \A i \in 1 .. Len(q) : i >= m => d[t] <= d[q[i]]
      BY <2>4
    <3> HIDE DEF q
    <3>3. \A i, j \in 1 .. Len(InsertAt(q, m, t)) :
             i < j => d[InsertAt(q, m, t)[i]] <= d[InsertAt(q, m, t)[j]]
      BY <2>1, <3>1, <3>2, InsertAtOrder
    <3> QED BY <1>2, <3>3 DEF q
  <2>6. \A i \in 1 .. Len(r.sortLink) : r.due[r.sortLink[i]] = d[r.sortLink[i]]
    BY <1>7 DEF d
  <2> QED BY <2>5, <2>6
<1>9. /\ Tidy(r)
      /\ \A x : SameQueues(k, r, x) /\ SamePool(k, r, x) /\ SameWaits(k, r, x)
      /\ \A x \in Task : x # t => SameTime(k, r, x)
  <2>1. SameLists(k, [r EXCEPT !.sortLink = k.sortLink, !.due = k.due])
    BY <1>2
  <2>2. \A z \in Task : z # t => r.due[z] = k.due[z] /\ (Contains(r.sortLink, z) <=> Contains(k.sortLink, z))
    BY <1>4, <1>7
  <2>3. IsInjective(r.sortLink)
    BY <1>7
  <2> QED BY <1>1, <1>8, <2>1, <2>2, <2>3, TimeRow, ZenonT(40)
<1>10. Only(k, r, t)
  <2>1. \A x : SameFlags(k, r, x)
    BY <1>2 DEF SameFlags
  <2>2. SameControl(k, r) /\ r.panic = k.panic /\ r.status = k.status
    BY <1>2
  <2> QED BY <1>1, <1>9, <2>1, <2>2 DEF Only, SameRow
<1>11. SameFlags(k, r, t)
  BY <1>2 DEF SameFlags
<1> QED BY <1>4, <1>7, <1>9, <1>10, <1>11 DEF r

-----------------------------------------------------------------------------
(* The functions that wake, suspend, resume and end a task: it is on the   *)
(* lists that its new status names.                                        *)

\* These flags come and go with the TCB, not with what the task waits for; and no
\* timeout begins.
SameLife(k, r, t) ==
    /\ \A f \in {"JOINABLE", "EXIT", "UNUSED", "STACK_FREE", "RUNNING"} :
          f \in r.status[t] <=> f \in k.status[t]
    /\ "PEND_TIME" \in r.status[t] => "PEND_TIME" \in k.status[t]

\* A task that is not READY is on no ready queue.
LEMMA PlacedNode ==
    ASSUME NEW k, NEW t, Placed(k, t), "READY" \notin k.status[t]
    PROVE  Queues(k, t) = {}
  BY DEF Placed

\* The timeout of a task that waits with one is off the sort link.
LEMMA ClearPendTimeRow ==
    ASSUME NEW m, WellFormed(m), Tidy(m), NEW t \in Task,
           Contains(m.sortLink, t) => "PEND_TIME" \in m.status[t] /\ m.due[t] # NoTime
    PROVE  LET r == ClearPendTime(m, t) IN
           /\ Only(m, r, t) /\ SameQueues(m, r, t) /\ SamePool(m, r, t) /\ SameWaits(m, r, t)
           /\ ~Contains(r.sortLink, t) /\ r.priority[t] = m.priority[t]
           /\ r.status[t] = m.status[t] \ {"PEND_TIME"}
<1>1. CASE "PEND_TIME" \notin m.status[t]
  <2>1. ClearPendTime(m, t) = m /\ m.status[t] = m.status[t] \ {"PEND_TIME"}
    BY <1>1 DEF ClearPendTime
  <2> QED BY <1>1, <2>1, OnlySelf DEF SameRow
<1>2. CASE "PEND_TIME" \in m.status[t]
  <2> DEFINE n == OsDeleteSortLink(m, t)
             S == n.status[t] \ {"PEND_TIME"}
             r == [n EXCEPT !.status[t] = S]
  <2>1. ClearPendTime(m, t) = r
    BY <1>2 DEF ClearPendTime
  <2>2. /\ Only(m, n, t) /\ SameQueues(m, n, t) /\ SamePool(m, n, t) /\ SameWaits(m, n, t)
        /\ SameFlags(m, n, t) /\ ~Contains(n.sortLink, t) /\ WellFormed(n) /\ Tidy(n)
    BY DeleteSortLinkRow, OnlyType
  <2> HIDE DEF n
  <2>3. Fits(t, S) /\ S = m.status[t] \ {"PEND_TIME"}
    BY <2>2, SchedAssumption DEF WellFormed, SchedState, Fits, TCB, SameFlags
  <2> HIDE DEF S
  <2>4. Only(n, r, t) /\ SamePlace(n, r, t) /\ r.status[t] = S /\ r.priority = n.priority
    <3>1. Fits(t, S)
      BY <2>3
    <3> QED BY <2>2, <3>1, StatusRow
  <2> HIDE DEF r
  <2>5. Only(m, r, t)
    BY <2>2, <2>4, OnlyTrans
  <2> QED BY <2>1, <2>2, <2>3, <2>4, <2>5
          DEF SamePlace, SameQueues, SameWaits, SamePool, SameTime, SameFlags
<1> QED BY <1>1, <1>2

\* OsSchedTaskWake: a waiter leaves its list, and the sort link if it waits for
\* a time.
LEMMA TaskWakeRow ==
    ASSUME NEW k, WellFormed(k), Tidy(k), NEW t \in Task, Placed(k, t), "PEND" \in k.status[t]
    PROVE  LET r == OsSchedTaskWake(k, t) IN
           /\ Only(k, r, t) /\ Placed(r, t) /\ Waits(r, t) = {} /\ SameLife(k, r, t)
           /\ "SUSPEND" \in k.status[t] => "READY" \notin r.status[t]
           /\ "TIMEOUT" \in r.status[t] <=> "TIMEOUT" \in k.status[t]
<1> DEFINE w == LeaveWaitList(k, t)
           S == w.status[t] \ {"PEND"}
           m == [w EXCEPT !.status[t] = S]
           c == ClearPendTime(m, t)
           r == OsSchedTaskWake(k, t)
<1>1. /\ Only(k, w, t) /\ SameQueues(k, w, t) /\ SamePool(k, w, t) /\ SameTime(k, w, t)
      /\ SameFlags(k, w, t) /\ Waits(w, t) = {} /\ w.status = k.status
  BY LeaveWaitRow, LeaveWaitListKeeps
<1>2. WellFormed(w) /\ Tidy(w) /\ k.status[t] \in SUBSET Flag
  BY <1>1, OnlyType DEF WellFormed, SchedState, TCB
<1>3. r = IF Has(c, t, {"SUSPEND", "RUNNING"}) THEN c ELSE OsSchedTaskEnQueue(c, t)
  BY DEF OsSchedTaskWake
<1> HIDE DEF w, r
<1>4. S = k.status[t] \ {"PEND"} /\ Fits(t, S)
  BY <1>1, <1>2, SchedAssumption DEF Fits
<1> HIDE DEF S
<1>5. Only(w, m, t) /\ SamePlace(w, m, t) /\ m.status[t] = S /\ m.priority = w.priority
  <2>1. Fits(t, S)
    BY <1>4
  <2> QED BY <1>2, <2>1, StatusRow, SMTT(60)
<1> HIDE DEF m
<1>6. /\ Only(k, m, t) /\ WellFormed(m) /\ Tidy(m) /\ Waits(m, t) = {}
      /\ SameQueues(k, m, t) /\ SamePool(k, m, t) /\ SameTime(k, m, t)
      /\ m.priority[t] = k.priority[t]
  <2>1. Only(k, m, t) /\ WellFormed(m) /\ Tidy(m)
    BY <1>1, <1>5, OnlyTrans, OnlyType
  <2> QED BY <1>1, <1>5, <2>1
          DEF SamePlace, SameQueues, SameWaits, SamePool, SameTime, SameFlags
<1>7. /\ Only(m, c, t) /\ SameQueues(m, c, t) /\ SamePool(m, c, t) /\ SameWaits(m, c, t)
      /\ ~Contains(c.sortLink, t) /\ c.priority[t] = m.priority[t]
      /\ c.status[t] = m.status[t] \ {"PEND_TIME"}
  <2>1. Contains(m.sortLink, t) => "PEND_TIME" \in m.status[t] /\ m.due[t] # NoTime
    BY <1>4, <1>5, <1>6 DEF Placed, SameTime
  <2> QED BY <1>6, <2>1, ClearPendTimeRow
<1> HIDE DEF c
<1>8. /\ Only(k, c, t) /\ WellFormed(c) /\ Tidy(c) /\ Waits(c, t) = {} /\ SamePool(k, c, t)
      /\ Queues(c, t) = {} /\ c.run = k.run /\ c.priority[t] = k.priority[t]
      /\ c.status[t] = k.status[t] \ {"PEND", "PEND_TIME"} /\ "READY" \notin k.status[t]
  <2>1. Only(k, c, t) /\ WellFormed(c) /\ Tidy(c) /\ c.run = k.run
    <3>1. Only(k, c, t)
      BY <1>6, <1>7, OnlyTrans
    <3> QED BY <3>1 DEF Only, SameControl
  <2>2. "READY" \notin k.status[t] /\ Queues(k, t) = {}
    BY DEF Placed, Blocking
  <2> QED BY <1>4, <1>5, <1>6, <1>7, <2>1, <2>2 DEF SameQueues, SameWaits, SamePool
<1>9. CASE Has(c, t, {"SUSPEND", "RUNNING"})
  <2>1. Placed(c, t)
    BY <1>7, <1>8 DEF Placed, SamePool, Blocking
  <2> QED BY <1>3, <1>8, <1>9, <2>1 DEF SameLife, r
<1>10. CASE ~Has(c, t, {"SUSPEND", "RUNNING"})
  <2> DEFINE e == OsSchedTaskEnQueue(c, t)
  <2>1. "READY" \notin c.status[t]
    BY <1>8
  <2>2. /\ Only(c, e, t) /\ SameWaits(c, e, t) /\ SamePool(c, e, t) /\ SameTime(c, e, t)
        /\ e.status[t] = EnQueued(c.status[t]) /\ e.priority[t] = c.priority[t]
        /\ Queues(e, t) = {c.priority[t]}
    BY <1>8, <2>1, EnQueueRow
  <2>3. r = e
    BY <1>3, <1>10
  <2> HIDE DEF e
  <2>4. Only(k, e, t) /\ e.run = k.run
    <3>1. Only(k, e, t)
      BY <1>8, <2>2, OnlyTrans
    <3> QED BY <3>1 DEF Only, SameControl
  <2>5. e.status[t] = (k.status[t] \ {"PEND", "SUSPEND", "DELAY", "PEND_TIME"}) \cup {"READY"}
    BY <1>8, <2>2 DEF EnQueued
  <2>6. "SUSPEND" \notin k.status[t] /\ "RUNNING" \notin k.status[t]
    BY <1>8, <1>10 DEF Has
  <2>7. Waits(e, t) = {} /\ ~Contains(e.sortLink, t)
    BY <1>7, <1>8, <2>2 DEF SameWaits, SameTime
  <2>8. Placed(e, t)
    <3>1. /\ e.status[t] \cap (Blocking \cup {"RUNNING", "PEND_TIME"}) = {}
          /\ {"READY", "STACK_FREE"} \subseteq e.status[t]
      <4>1. k.status[t] \cap {"UNUSED", "EXIT"} = {} /\ "STACK_FREE" \in k.status[t]
        BY DEF Placed
      <4>2. /\ e.status[t] \cap {"PEND", "SUSPEND", "DELAY", "UNUSED", "EXIT"} = {}
            /\ e.status[t] \cap {"RUNNING", "PEND_TIME"} = {}
        BY <2>5, <2>6, <4>1
      <4> QED BY <2>5, <4>1, <4>2 DEF Blocking
    <3>2. ~Contains(e.free, t) /\ ~Contains(e.recycle, t)
      BY <1>8, <2>2 DEF Placed, SamePool
    <3> QED BY <1>8, <2>2, <2>7, <3>1, <3>2 DEF Placed, Blocking
  <2> QED BY <2>3, <2>4, <2>5, <2>6, <2>7, <2>8 DEF SameLife, r
<1> QED BY <1>9, <1>10

\* TickScan: the first task of the sort link.
LEMMA WakePendTimeRow ==
    ASSUME NEW k, WellFormed(k), Tidy(k), NEW t \in Task, Placed(k, t), Contains(k.sortLink, t)
    PROVE  LET r == OsSchedWakePendTimeTask(OsDeleteNodeSortLink(k, t), t) IN
           /\ Only(k, r, t) /\ Placed(r, t) /\ Waits(r, t) = {} /\ SameLife(k, r, t)
           /\ "RUNNING" \notin k.status[t]
           /\ Waits(k, t) # {} => "PEND_TIME" \in k.status[t]
           /\ "TIMEOUT" \in r.status[t] <=> "TIMEOUT" \in k.status[t] \/ "PEND" \in k.status[t]
<1> DEFINE n == OsDeleteNodeSortLink(k, t)
           S == n.status[t] \ {"PEND", "PEND_TIME", "DELAY"}
           m == [n EXCEPT !.status[t] = S]
           w == LeaveWaitList(m, t)
           T == w.status[t] \cup {"TIMEOUT"}
           v == [w EXCEPT !.status[t] = T]
           q == IF "PEND" \in k.status[t] THEN v ELSE m
           r == OsSchedWakePendTimeTask(n, t)
<1>1. /\ Only(k, n, t) /\ SameQueues(k, n, t) /\ SamePool(k, n, t) /\ SameWaits(k, n, t)
      /\ SameFlags(k, n, t) /\ ~Contains(n.sortLink, t) /\ n.status[t] = k.status[t]
  BY DeleteNodeRow DEF SameFlags
<1>2. /\ WellFormed(n) /\ Tidy(n) /\ k.status[t] \in SUBSET Flag
      /\ "RUNNING" \notin k.status[t] /\ "READY" \notin k.status[t]
      /\ "PEND" \in k.status[t] \/ "DELAY" \in k.status[t]
      /\ k.status[t] \cap {"UNUSED", "EXIT"} = {}
      /\ Waits(k, t) # {} => "PEND" \in k.status[t] /\ "PEND_TIME" \in k.status[t]
      /\ Queues(k, t) = {}
  <2>1. WellFormed(n) /\ Tidy(n) /\ k.status[t] \in SUBSET Flag
    BY <1>1, OnlyType DEF WellFormed, SchedState, TCB
  <2>2. k.status[t] \cap {"DELAY", "PEND_TIME"} # {} /\ "RUNNING" \notin k.status[t]
    BY DEF Placed
  <2>3. /\ "PEND" \in k.status[t] => "DELAY" \notin k.status[t]
        /\ "PEND_TIME" \in k.status[t] => "PEND" \in k.status[t]
        /\ "READY" \in k.status[t] => k.status[t] \cap {"PEND", "DELAY"} = {}
        /\ "UNUSED" \in k.status[t] \/ "EXIT" \in k.status[t] => k.status[t] \cap {"PEND", "DELAY"} = {}
        /\ Waits(k, t) # {} => "PEND" \in k.status[t]
        /\ "READY" \notin k.status[t] => Queues(k, t) = {}
    BY DEF Placed, Blocking
  <2> QED BY <2>1, <2>2, <2>3
<1>3. r = IF Has(n, t, {"SUSPEND"}) THEN q ELSE OsSchedTaskEnQueue(q, t)
  BY <1>1, <1>2 DEF OsSchedWakePendTimeTask, Has
<1> HIDE DEF n, r
<1>4. S = k.status[t] \ {"PEND", "PEND_TIME", "DELAY"} /\ Fits(t, S)
  BY <1>1, <1>2, SchedAssumption DEF Fits
<1> HIDE DEF S
<1>5. Only(n, m, t) /\ SamePlace(n, m, t) /\ m.status[t] = S /\ m.priority = n.priority
  <2>1. Fits(t, S)
    BY <1>4
  <2> QED BY <1>2, <2>1, StatusRow
<1> HIDE DEF m
<1>6. /\ Only(k, m, t) /\ WellFormed(m) /\ Tidy(m) /\ Waits(m, t) = Waits(k, t)
      /\ Queues(m, t) = {} /\ SamePool(k, m, t) /\ ~Contains(m.sortLink, t)
      /\ m.priority[t] = k.priority[t]
  <2>1. Only(k, m, t) /\ WellFormed(m) /\ Tidy(m)
    BY <1>1, <1>5, OnlyTrans, OnlyType
  <2> QED BY <1>1, <1>2, <1>5, <2>1
          DEF SamePlace, SameQueues, SameWaits, SamePool, SameTime, SameFlags
<1>7. /\ Only(m, w, t) /\ SameQueues(m, w, t) /\ SamePool(m, w, t) /\ SameTime(m, w, t)
      /\ SameFlags(m, w, t) /\ Waits(w, t) = {} /\ WellFormed(w) /\ Tidy(w)
  BY <1>6, LeaveWaitRow, OnlyType
<1> HIDE DEF w
<1>8. T = S \cup {"TIMEOUT"} /\ Fits(t, T)
  BY <1>2, <1>4, <1>5, <1>7, SchedAssumption DEF Fits, Flag, SameFlags
<1> HIDE DEF T
<1>9. Only(w, v, t) /\ SamePlace(w, v, t) /\ v.status[t] = T /\ v.priority = w.priority
  <2>1. Fits(t, T)
    BY <1>8
  <2> QED BY <1>7, <2>1, StatusRow
<1> HIDE DEF v
<1>10. /\ Only(k, q, t) /\ WellFormed(q) /\ Tidy(q) /\ Waits(q, t) = {} /\ Queues(q, t) = {}
       /\ SamePool(k, q, t) /\ ~Contains(q.sortLink, t) /\ q.priority[t] = k.priority[t]
       /\ q.status[t] \in {S, S \cup {"TIMEOUT"}}
       /\ "TIMEOUT" \in q.status[t] <=> "TIMEOUT" \in k.status[t] \/ "PEND" \in k.status[t]
  <2>1. CASE "PEND" \in k.status[t]
    <3>1. Only(k, v, t) /\ WellFormed(v) /\ Tidy(v) /\ q = v
      BY <1>6, <1>7, <1>9, <2>1, OnlyTrans, OnlyType
    <3>2. q.status[t] = S \cup {"TIMEOUT"}
      BY <1>8, <1>9, <3>1
    <3> QED BY <1>6, <1>7, <1>8, <1>9, <2>1, <3>1, <3>2
            DEF SamePlace, SameQueues, SameWaits, SamePool, SameTime, SameFlags
  <2>2. CASE "PEND" \notin k.status[t]
    BY <1>2, <1>4, <1>5, <1>6, <2>2
  <2> QED BY <2>1, <2>2
<1> HIDE DEF q
<1>11. q.run = k.run /\ "READY" \notin q.status[t]
  BY <1>2, <1>4, <1>10 DEF Only, SameControl
<1>12. CASE Has(n, t, {"SUSPEND"})
  <2>1. Placed(q, t)
    BY <1>2, <1>4, <1>10, <1>11 DEF Placed, SamePool, Blocking
  <2>2. SameLife(k, q, t) /\ r = q /\ "PEND_TIME" \notin q.status[t]
    BY <1>3, <1>4, <1>10, <1>12 DEF SameLife
  <2> QED BY <1>2, <1>10, <2>1, <2>2 DEF r, n
<1>13. CASE ~Has(n, t, {"SUSPEND"})
  <2> DEFINE e == OsSchedTaskEnQueue(q, t)
  <2>1. /\ Only(q, e, t) /\ SameWaits(q, e, t) /\ SamePool(q, e, t) /\ SameTime(q, e, t)
        /\ e.status[t] = EnQueued(q.status[t]) /\ e.priority[t] = q.priority[t]
        /\ Queues(e, t) = {q.priority[t]}
    BY <1>10, <1>11, EnQueueRow
  <2>2. r = e
    BY <1>3, <1>13
  <2> HIDE DEF e
  <2>3. Only(k, e, t) /\ e.run = k.run
    <3>1. Only(k, e, t)
      BY <1>10, <2>1, OnlyTrans
    <3> QED BY <3>1 DEF Only, SameControl
  <2>4. /\ e.status[t] \ {"TIMEOUT"} =
              (k.status[t] \ {"PEND", "SUSPEND", "DELAY", "PEND_TIME", "TIMEOUT"}) \cup {"READY"}
        /\ "PEND_TIME" \notin e.status[t]
        /\ "TIMEOUT" \in e.status[t] <=> "TIMEOUT" \in q.status[t]
    BY <1>4, <1>10, <2>1 DEF EnQueued
  <2>5. "SUSPEND" \notin k.status[t] /\ Waits(e, t) = {} /\ ~Contains(e.sortLink, t)
    BY <1>1, <1>10, <1>13, <2>1 DEF Has, SameWaits, SameTime
  <2>6. SameLife(k, e, t)
    BY <2>4 DEF SameLife
  <2>7. Placed(e, t)
    <3>1. /\ e.status[t] \cap (Blocking \cup {"RUNNING", "PEND_TIME"}) = {}
          /\ "READY" \in e.status[t]
      BY <1>2, <2>4, <2>5 DEF Blocking
    <3>2. "STACK_FREE" \in e.status[t]
      BY <1>2, <2>4 DEF Placed
    <3>3. ~Contains(e.free, t) /\ ~Contains(e.recycle, t)
      BY <1>2, <1>10, <2>1 DEF Placed, SamePool
    <3> QED BY <1>10, <2>1, <2>5, <3>1, <3>2, <3>3 DEF Placed, Blocking
  <2> QED BY <1>2, <1>10, <2>2, <2>3, <2>4, <2>5, <2>6, <2>7 DEF r, n
<1> QED BY <1>12, <1>13

\* OsSchedSuspend: a task that was READY leaves its queue, any other stays where
\* it is.
LEMMA SuspendRow ==
    ASSUME NEW k, WellFormed(k), Tidy(k), NEW t \in Task, Placed(k, t), "UNUSED" \notin k.status[t]
    PROVE  LET r == OsSchedSuspend(k, t) IN
           /\ Only(k, r, t) /\ Placed(r, t) /\ SameWaits(k, r, t) /\ SameLife(k, r, t)
           /\ "READY" \notin r.status[t]
<1> DEFINE d == OsSchedTaskDeQueue(k, t)
           S == d.status[t] \cup {"SUSPEND"}
           r == [d EXCEPT !.status[t] = S]
<1>1. OsSchedSuspend(k, t) = r
  BY DEF OsSchedSuspend
<1>2. /\ Only(k, d, t) /\ SameWaits(k, d, t) /\ SamePool(k, d, t) /\ SameTime(k, d, t)
      /\ d.status[t] = k.status[t] \ {"READY"} /\ Queues(d, t) = {}
  BY DeQueueRow DEF Placed
<1>3. WellFormed(d) /\ Tidy(d) /\ k.status[t] \in SUBSET Flag
  BY <1>2, OnlyType DEF WellFormed, SchedState, TCB
<1> HIDE DEF d
<1>4. S = (k.status[t] \ {"READY"}) \cup {"SUSPEND"} /\ Fits(t, S)
  BY <1>2, <1>3, SchedAssumption DEF Fits, Flag
<1> HIDE DEF S
<1>5. Only(d, r, t) /\ SamePlace(d, r, t) /\ r.status[t] = S
  BY <1>3, <1>4, StatusRow
<1> HIDE DEF r
<1>6. Only(k, r, t)
  BY <1>2, <1>5, OnlyTrans
<1>7. r.run = k.run
  BY <1>6 DEF Only, SameControl
<1>8. /\ SameWaits(k, r, t) /\ SamePool(k, r, t) /\ SameTime(k, r, t) /\ Queues(r, t) = {}
  BY <1>2, <1>5 DEF SamePlace, SameQueues, SameWaits, SamePool, SameTime
<1>9. Placed(r, t)
  BY <1>4, <1>5, <1>7, <1>8 DEF Placed, SameWaits, SamePool, SameTime, Blocking
<1> QED BY <1>1, <1>4, <1>5, <1>6, <1>8, <1>9 DEF SameLife

\* OsSchedResume: the task is ready, unless it also waits or is delayed.
LEMMA ResumeRow ==
    ASSUME NEW k, WellFormed(k), Tidy(k), NEW t \in Task, Placed(k, t), "SUSPEND" \in k.status[t],
           k.status[t] \cap {"UNUSED", "EXIT", "RUNNING"} = {}, "STACK_FREE" \in k.status[t]
    PROVE  LET r == OsSchedResume(k, t) IN
           /\ Only(k, r, t) /\ Placed(r, t) /\ SameWaits(k, r, t) /\ SameLife(k, r, t)
<1> DEFINE S == k.status[t] \ {"SUSPEND"}
           m == [k EXCEPT !.status[t] = S]
           r == OsSchedResume(k, t)
<1>1. r = IF ~Has(k, t, {"DELAY", "PEND"}) THEN OsSchedTaskEnQueue(m, t) ELSE m
  BY DEF OsSchedResume, ResumeNeedSched
<1>2. k.status[t] \in SUBSET Flag /\ "READY" \notin k.status[t] /\ Queues(k, t) = {}
  BY DEF WellFormed, SchedState, TCB, Placed, Blocking
<1>3. Fits(t, S)
  BY <1>2, SchedAssumption DEF Fits
<1> HIDE DEF r
<1>4. /\ Only(k, m, t) /\ SamePlace(k, m, t) /\ m.status[t] = S /\ m.priority = k.priority
      /\ WellFormed(m) /\ Tidy(m)
  BY <1>3, StatusRow, OnlyType
<1> HIDE DEF m
<1>5. m.run = k.run
  BY <1>4 DEF Only, SameControl
<1>6. CASE Has(k, t, {"DELAY", "PEND"})
  <2>1. Placed(m, t)
    BY <1>2, <1>4, <1>5 DEF Placed, SamePlace, SameQueues, SameWaits, SamePool, SameTime, Blocking
  <2> QED BY <1>1, <1>2, <1>4, <1>6, <2>1 DEF SameLife, SamePlace, r
<1>7. CASE ~Has(k, t, {"DELAY", "PEND"})
  <2> DEFINE e == OsSchedTaskEnQueue(m, t)
  <2>1. "READY" \notin m.status[t] /\ Queues(m, t) = {}
    BY <1>2, <1>4 DEF SamePlace, SameQueues
  <2>2. /\ Only(m, e, t) /\ SameWaits(m, e, t) /\ SamePool(m, e, t) /\ SameTime(m, e, t)
        /\ e.status[t] = EnQueued(m.status[t]) /\ e.priority[t] = m.priority[t]
        /\ Queues(e, t) = {m.priority[t]}
    BY <1>4, <2>1, EnQueueRow
  <2>3. r = e
    BY <1>1, <1>7
  <2> HIDE DEF e
  <2>4. Only(k, e, t) /\ e.run = k.run
    <3>1. Only(k, e, t)
      BY <1>4, <2>2, OnlyTrans
    <3> QED BY <3>1 DEF Only, SameControl
  <2>5. e.status[t] = (k.status[t] \ {"PEND", "SUSPEND", "DELAY", "PEND_TIME"}) \cup {"READY"}
    BY <1>4, <2>2 DEF EnQueued
  <2>6. SameWaits(k, e, t) /\ SamePool(k, e, t) /\ SameTime(k, e, t)
    BY <1>4, <2>2 DEF SamePlace, SameWaits, SamePool, SameTime
  <2>7. "DELAY" \notin k.status[t] /\ "PEND" \notin k.status[t]
    BY <1>7 DEF Has
  <2>8. Placed(e, t)
    <3>1. /\ e.status[t] \cap (Blocking \cup {"RUNNING", "PEND_TIME"}) = {}
          /\ {"READY", "STACK_FREE"} \subseteq e.status[t]
      <4>1. "PEND_TIME" \notin k.status[t]
        BY <2>7 DEF Placed
      <4> QED BY <2>5, <2>7 DEF Blocking
    <3>2. /\ ~Contains(e.free, t) /\ ~Contains(e.recycle, t) /\ Waits(e, t) = {}
          /\ ~Contains(e.sortLink, t)
      BY <2>6, <2>7 DEF Placed, SameWaits, SamePool, SameTime
    <3> QED BY <1>4, <2>2, <3>1, <3>2 DEF Placed, Blocking
  <2> QED BY <2>3, <2>4, <2>5, <2>6, <2>8 DEF SameLife, r
<1> QED BY <1>6, <1>7

\* OsSchedModifyTaskSchedParam: the task moves to the queue of its new priority,
\* when it is on one.
LEMMA ModifyRow ==
    ASSUME NEW k, WellFormed(k), Tidy(k), NEW t \in Task, Placed(k, t), NEW p \in Prio
    PROVE  LET r == OsSchedModifyTaskSchedParam(k, t, p) IN
           /\ Only(k, r, t) /\ Placed(r, t) /\ SameWaits(k, r, t)
           /\ r.status[t] = k.status[t]
<1> DEFINE d == OsSchedTaskDeQueue(k, t)
           m == [d EXCEPT !.priority[t] = p]
           r == OsSchedModifyTaskSchedParam(k, t, p)
<1>1. CASE "READY" \notin k.status[t]
  <2> DEFINE v == [k EXCEPT !.priority[t] = p]
  <2>1. r = v
    BY <1>1 DEF OsSchedModifyTaskSchedParam
  <2>2. Only(k, v, t) /\ SamePlace(k, v, t) /\ v.status = k.status
    BY PriorityRow
  <2> HIDE DEF v
  <2>3. v.run = k.run
    BY <2>2 DEF Only, SameControl
  <2>4. Placed(v, t)
    BY <1>1, <2>2, <2>3 DEF Placed, SamePlace, SameQueues, SameWaits, SamePool, SameTime
  <2> QED BY <2>1, <2>2, <2>4 DEF SamePlace
<1>2. CASE "READY" \in k.status[t]
  <2>1. r = OsSchedTaskEnQueue(m, t)
    BY <1>2 DEF OsSchedModifyTaskSchedParam
  <2>2. /\ Only(k, d, t) /\ SameWaits(k, d, t) /\ SamePool(k, d, t) /\ SameTime(k, d, t)
        /\ d.status[t] = k.status[t] \ {"READY"} /\ Queues(d, t) = {}
        /\ WellFormed(d) /\ Tidy(d)
    BY DeQueueRow, OnlyType DEF Placed
  <2> HIDE DEF d
  <2>3. Only(d, m, t) /\ SamePlace(d, m, t) /\ m.status = d.status /\ m.priority[t] = p
        /\ WellFormed(m) /\ Tidy(m)
    BY <2>2, PriorityRow, OnlyType
  <2> HIDE DEF m, r
  <2> DEFINE e == OsSchedTaskEnQueue(m, t)
  <2>4. /\ Only(m, e, t) /\ SameWaits(m, e, t) /\ SamePool(m, e, t) /\ SameTime(m, e, t)
        /\ e.status[t] = EnQueued(m.status[t]) /\ e.priority[t] = m.priority[t]
        /\ Queues(e, t) = {m.priority[t]}
    <3>1. "READY" \notin m.status[t] /\ Queues(m, t) = {}
      BY <2>2, <2>3 DEF SamePlace, SameQueues
    <3> QED BY <2>3, <3>1, EnQueueRow
  <2> HIDE DEF e
  <2>5. Only(k, e, t) /\ e.run = k.run
    <3>1. Only(k, e, t)
      BY <2>2, <2>3, <2>4, OnlyTrans
    <3> QED BY <3>1 DEF Only, SameControl
  <2>6. e.status[t] = k.status[t]
    BY <1>2, <2>2, <2>3, <2>4 DEF EnQueued, Placed, Blocking
  <2>7. SameWaits(k, e, t) /\ SamePool(k, e, t) /\ SameTime(k, e, t)
    BY <2>2, <2>3, <2>4 DEF SamePlace, SameWaits, SamePool, SameTime
  <2>8. Placed(e, t)
    BY <1>2, <2>3, <2>4, <2>5, <2>6, <2>7 DEF Placed, SameWaits, SamePool, SameTime
  <2> QED BY <2>1, <2>5, <2>6, <2>7, <2>8 DEF e, r
<1> QED BY <1>1, <1>2

\* OsSchedTaskExit: the task leaves every list and is marked.
LEMMA TaskExitRow ==
    ASSUME NEW k, WellFormed(k), Tidy(k), NEW t \in Task, Placed(k, t), "UNUSED" \notin k.status[t]
    PROVE  LET r == OsSchedTaskExit(k, t) IN
           /\ Only(k, r, t) /\ Placed(r, t) /\ Waits(r, t) = {}
           /\ r.status[t] = (k.status[t] \ {"READY", "PEND", "DELAY", "PEND_TIME"}) \cup {"EXIT"}
<1> DEFINE d  == OsSchedTaskDeQueue(k, t)
           w  == LeaveWaitList(k, t)
           W  == w.status[t] \ {"PEND"}
           v  == [w EXCEPT !.status[t] = W]
           k1 == IF Has(k, t, {"READY"}) THEN d ELSE IF Has(k, t, {"PEND"}) THEN v ELSE k
           n  == OsDeleteSortLink(k1, t)
           D  == n.status[t] \ {"DELAY", "PEND_TIME"}
           u  == [n EXCEPT !.status[t] = D]
           k2 == IF Has(k1, t, {"DELAY", "PEND_TIME"}) THEN u ELSE k1
           E  == k2.status[t] \cup {"EXIT"}
           r  == [k2 EXCEPT !.status[t] = E]
<1>1. OsSchedTaskExit(k, t) = r
  BY DEF OsSchedTaskExit
<1>2. /\ Only(k, d, t) /\ SameWaits(k, d, t) /\ SamePool(k, d, t) /\ SameTime(k, d, t)
      /\ d.status[t] = k.status[t] \ {"READY"} /\ Queues(d, t) = {}
  BY DeQueueRow DEF Placed
<1>3. /\ Only(k, w, t) /\ SameQueues(k, w, t) /\ SamePool(k, w, t) /\ SameTime(k, w, t)
      /\ SameFlags(k, w, t) /\ Waits(w, t) = {} /\ WellFormed(w) /\ Tidy(w)
  BY LeaveWaitRow, OnlyType
<1>4. k.status[t] \in SUBSET Flag
  BY DEF WellFormed, SchedState, TCB
<1> HIDE DEF d, w
<1>5. W = k.status[t] \ {"PEND"} /\ Fits(t, W)
  BY <1>3, <1>4, SchedAssumption DEF Fits, SameFlags
<1> HIDE DEF W
<1>6. Only(w, v, t) /\ SamePlace(w, v, t) /\ v.status[t] = W
  <2>1. Fits(t, W)
    BY <1>5
  <2> QED BY <1>3, <2>1, StatusRow
<1> HIDE DEF v
<1>7. /\ Only(k, v, t) /\ SameQueues(k, v, t) /\ SamePool(k, v, t) /\ SameTime(k, v, t)
      /\ Waits(v, t) = {}
  <2>1. Only(k, v, t)
    BY <1>3, <1>6, OnlyTrans
  <2> QED BY <1>3, <1>6, <2>1 DEF SamePlace, SameQueues, SameWaits, SamePool, SameTime
<1>8. /\ Only(k, k1, t) /\ SamePool(k, k1, t) /\ SameTime(k, k1, t)
      /\ Waits(k1, t) = {} /\ Queues(k1, t) = {}
      /\ k1.status[t] = k.status[t] \ {"READY", "PEND"}
  <2>1. CASE Has(k, t, {"READY"})
    <3>1. "READY" \in k.status[t] /\ k1 = d
      BY <2>1 DEF Has
    <3>2. "PEND" \notin k.status[t] /\ Waits(k, t) = {}
      BY <3>1 DEF Placed, Blocking
    <3> QED BY <1>2, <3>1, <3>2 DEF SameWaits
  <2>2. CASE ~Has(k, t, {"READY"}) /\ Has(k, t, {"PEND"})
    <3>1. "READY" \notin k.status[t] /\ k1 = v
      BY <2>2 DEF Has
    <3>2. Queues(k, t) = {}
      BY <3>1 DEF Placed
    <3> QED BY <1>5, <1>6, <1>7, <3>1, <3>2 DEF SameQueues
  <2>3. CASE ~Has(k, t, {"READY"}) /\ ~Has(k, t, {"PEND"})
    <3>1. "READY" \notin k.status[t] /\ "PEND" \notin k.status[t] /\ k1 = k
      BY <2>3 DEF Has
    <3>2. Queues(k, t) = {} /\ Waits(k, t) = {}
      BY <3>1 DEF Placed
    <3>3. k.status[t] = k.status[t] \ {"READY", "PEND"}
      BY <3>1
    <3>4. Only(k, k, t) /\ SamePool(k, k, t) /\ SameTime(k, k, t)
      BY OnlySelf DEF SameRow
    <3> QED BY <3>1, <3>2, <3>3, <3>4
  <2> QED BY <2>1, <2>2, <2>3
<1>9. WellFormed(k1) /\ Tidy(k1) /\ (Contains(k1.sortLink, t) => k1.due[t] # NoTime)
  BY <1>8, OnlyType DEF Placed, SameTime
<1> HIDE DEF k1
<1>10. /\ Only(k1, n, t) /\ SameQueues(k1, n, t) /\ SamePool(k1, n, t) /\ SameWaits(k1, n, t)
       /\ SameFlags(k1, n, t) /\ ~Contains(n.sortLink, t) /\ WellFormed(n) /\ Tidy(n)
  BY <1>9, DeleteSortLinkRow, OnlyType
<1> HIDE DEF n
<1>11. D = k1.status[t] \ {"DELAY", "PEND_TIME"} /\ Fits(t, D)
  BY <1>4, <1>8, <1>10, SchedAssumption DEF Fits, SameFlags
<1> HIDE DEF D
<1>12. Only(n, u, t) /\ SamePlace(n, u, t) /\ u.status[t] = D
  BY <1>10, <1>11, StatusRow, SMTT(30)
<1> HIDE DEF u
<1>13. /\ Only(k, k2, t) /\ SamePool(k, k2, t) /\ ~Contains(k2.sortLink, t)
       /\ Waits(k2, t) = {} /\ Queues(k2, t) = {}
       /\ k2.status[t] = k.status[t] \ {"READY", "PEND", "DELAY", "PEND_TIME"}
  <2>2. CASE Has(k1, t, {"DELAY", "PEND_TIME"})
    <3>1. k2 = u
      BY <2>2
    <3>2. Only(k, u, t)
      BY <1>8, <1>10, <1>12, OnlyTrans
    <3> QED BY <1>8, <1>10, <1>11, <1>12, <3>1, <3>2
            DEF SamePlace, SameQueues, SameWaits, SamePool, SameTime
  <2>3. CASE ~Has(k1, t, {"DELAY", "PEND_TIME"})
    <3>1. k2 = k1 /\ "DELAY" \notin k.status[t] /\ "PEND_TIME" \notin k.status[t]
      BY <1>8, <2>3 DEF Has
    <3>2. ~Contains(k1.sortLink, t)
      BY <1>8, <3>1 DEF Placed, SameTime
    <3> QED BY <1>8, <3>1, <3>2
  <2> QED BY <2>2, <2>3
<1>14. WellFormed(k2) /\ Tidy(k2)
  BY <1>13, OnlyType
<1> HIDE DEF k2
<1>15. E = (k.status[t] \ {"READY", "PEND", "DELAY", "PEND_TIME"}) \cup {"EXIT"} /\ Fits(t, E)
  BY <1>4, <1>13, SchedAssumption DEF Fits, Flag
<1> HIDE DEF E
<1>16. Only(k2, r, t) /\ SamePlace(k2, r, t) /\ r.status[t] = E
  BY <1>14, <1>15, StatusRow
<1> HIDE DEF r
<1>17. Only(k, r, t)
  BY <1>13, <1>16, OnlyTrans
<1>18. r.run = k.run
  BY <1>17 DEF Only, SameControl
<1>19. /\ SamePool(k, r, t) /\ ~Contains(r.sortLink, t) /\ Waits(r, t) = {} /\ Queues(r, t) = {}
  BY <1>13, <1>16 DEF SamePlace, SameQueues, SameWaits, SamePool, SameTime
<1>20. Placed(r, t)
  BY <1>15, <1>16, <1>18, <1>19 DEF Placed, SamePool, Blocking
<1> QED BY <1>1, <1>15, <1>16, <1>17, <1>19, <1>20

-----------------------------------------------------------------------------
(* A TCB comes and goes.                                                   *)

\* A task that is on no list, and that nobody waits for.
Loose(k, t) ==
    /\ Queues(k, t) = {} /\ Waits(k, t) = {} /\ k.pend[t] = <<>>
    /\ ~Contains(k.free, t) /\ ~Contains(k.recycle, t) /\ ~Contains(k.sortLink, t)

\* The TCB goes to the head of the free list.
LEMMA InsertTCBRow ==
    ASSUME NEW k, WellFormed(k), Tidy(k), NEW t \in Task, Loose(k, t)
    PROVE  LET r == OsInsertTCBToFreeList(k, t) IN
           /\ Only(k, r, t) /\ Placed(r, t) /\ Waits(r, t) = {} /\ r.status[t] = {"UNUSED"}
<1> DEFINE r == OsInsertTCBToFreeList(k, t)
           s == <<t>> \o k.free
<1>1. WellFormed(r) /\ SameControl(k, r)
  BY InsertTCBKeeps, TcbControl, KeepsWellFormed
<1>2. /\ r.panic = k.panic /\ r.ready = k.ready /\ r.recycle = k.recycle
      /\ r.sortLink = k.sortLink /\ r.free = s
      /\ r.status = [k.status EXCEPT ![t] = {"UNUSED"}]
      /\ r.priority = [k.priority EXCEPT ![t] = 0] /\ r.due = [k.due EXCEPT ![t] = 0]
      /\ r.pend = [k.pend EXCEPT ![t] = <<>>]
  BY DEF OsInsertTCBToFreeList, WellFormed, SchedState
<1>3. /\ k.free \in Seq(Task) /\ IsInjective(k.free) /\ ~Contains(k.free, t)
      /\ k.sortLink \in Seq(Task)
  BY DEF WellFormed, SchedState, Tidy, Loose
<1>4. /\ s \in Seq(Task) /\ IsInjective(s) /\ Contains(s, t)
      /\ \A z \in Task : z # t => (Contains(s, z) <=> Contains(k.free, z))
  BY <1>3, PutFirstOnce
<1> HIDE DEF r, s
<1>5. r.pend = k.pend
  BY <1>2 DEF Loose, WellFormed, SchedState, WaitList
<1>6. /\ r.status[t] = {"UNUSED"}
      /\ \A x \in Task : x # t => SameFlags(k, r, x) /\ r.due[x] = k.due[x]
      /\ r.status[Idle] = k.status[Idle]
  BY <1>2, SchedAssumption DEF WellFormed, SchedState, TCB, SameFlags
<1>7. \A i \in 1 .. Len(k.sortLink) : k.sortLink[i] \in Task /\ k.sortLink[i] # t
  BY <1>3 DEF Loose, Contains
<1>8. Tidy(r)
  <2>1. \A i, j \in 1 .. Len(r.sortLink) : i < j => r.due[r.sortLink[i]] <= r.due[r.sortLink[j]]
    BY <1>2, <1>6, <1>7 DEF Tidy
  <2> QED BY <1>2, <1>4, <1>5, <2>1 DEF Tidy
<1>9. \A x \in Task : x # t => SameRow(k, r, x)
  BY <1>2, <1>4, <1>5, <1>6
     DEF SameRow, SameQueues, SameWaits, SamePool, SameTime, Queues, Waits
<1>10. Only(k, r, t)
  BY <1>1, <1>2, <1>6, <1>8, <1>9 DEF Only
<1>11. /\ Queues(r, t) = {} /\ Waits(r, t) = {} /\ Contains(r.free, t)
       /\ ~Contains(r.recycle, t) /\ ~Contains(r.sortLink, t)
  BY <1>2, <1>4, <1>5 DEF Loose, Queues, Waits
<1>12. Placed(r, t)
  BY <1>6, <1>11 DEF Placed, Blocking
<1> QED BY <1>6, <1>10, <1>11, <1>12 DEF r

\* The stack and the TCB of a task that is not joinable (any more).
LEMMA RecycleRow ==
    ASSUME NEW k, WellFormed(k), Tidy(k), NEW t \in Task, Loose(k, t),
           "JOINABLE" \notin k.status[t]
    PROVE  LET r == OsRecycleTaskResources(k, t) IN
           /\ Only(k, r, t) /\ Placed(r, t) /\ Waits(r, t) = {} /\ r.status[t] = {"UNUSED"}
<1> DEFINE S == k.status[t] \ {"STACK_FREE"}
           m == [k EXCEPT !.status[t] = S]
           r == OsInsertTCBToFreeList(m, t)
<1>1. OsRecycleTaskResources(k, t) = r
  BY DEF OsRecycleTaskResources, Has
<1>2. Fits(t, S)
  BY SchedAssumption DEF Fits, WellFormed, SchedState, TCB
<1>3. m.pend = k.pend
  BY DEF WellFormed, SchedState
<1> HIDE DEF S
<1>4. Only(k, m, t) /\ SamePlace(k, m, t) /\ WellFormed(m) /\ Tidy(m)
  BY <1>2, StatusRow, OnlyType
<1> HIDE DEF m
<1>5. Loose(m, t)
  <2>1. ~Contains(k.sortLink, t) => ~Contains(m.sortLink, t)
    BY <1>4 DEF SamePlace, SameTime
  <2> QED BY <1>3, <1>4, <2>1 DEF Loose, SamePlace, SameQueues, SameWaits, SamePool
<1>6. Only(m, r, t) /\ Placed(r, t) /\ Waits(r, t) = {} /\ r.status[t] = {"UNUSED"}
  BY <1>4, <1>5, InsertTCBRow
<1> HIDE DEF r
<1> QED BY <1>1, <1>4, <1>6, OnlyTrans

\* An exited task that is joinable loses its stack only.
LEMMA RecycleJoinableRow ==
    ASSUME NEW k, WellFormed(k), Tidy(k), NEW t \in Task, Placed(k, t),
           "JOINABLE" \in k.status[t], "EXIT" \in k.status[t], "RUNNING" \notin k.status[t]
    PROVE  LET r == OsRecycleTaskResources(k, t) IN
           /\ Only(k, r, t) /\ Placed(r, t) /\ SameWaits(k, r, t)
           /\ r.status[t] = k.status[t] \ {"STACK_FREE"}
<1> DEFINE S == k.status[t] \ {"STACK_FREE"}
           r == [k EXCEPT !.status[t] = S]
<1>1. OsRecycleTaskResources(k, t) = r
  BY DEF OsRecycleTaskResources, Has
<1>2. Fits(t, S)
  BY SchedAssumption DEF Fits, WellFormed, SchedState, TCB
<1> HIDE DEF S
<1>3. Only(k, r, t) /\ SamePlace(k, r, t) /\ r.status[t] = S /\ r.priority = k.priority
  BY <1>2, StatusRow
<1> HIDE DEF r
<1>4. r.run = k.run
  BY <1>3 DEF Only, SameControl
<1>5. Placed(r, t)
  BY <1>3, <1>4 DEF S, Placed, SamePlace, SameQueues, SameWaits, SamePool, SameTime, Blocking
<1> QED BY <1>1, <1>3, <1>5 DEF S, SamePlace

\* The free list and the recycle list move t only.
LEMMA PoolRow ==
    ASSUME NEW k, Tidy(k), NEW t, NEW r, WellFormed(r),
           IsInjective(r.free), IsInjective(r.recycle),
           \A z \in Task : z # t => SamePool(k, r, z),
           r.ready = k.ready, r.pend = k.pend, r.sortLink = k.sortLink, r.due = k.due,
           r.status = k.status, r.priority = k.priority, r.panic = k.panic, SameControl(k, r)
    PROVE  /\ Only(k, r, t) /\ SameQueues(k, r, t) /\ SameWaits(k, r, t) /\ SameTime(k, r, t)
           /\ SameFlags(k, r, t)
<1>1. Tidy(r)
  BY DEF Tidy
<1>2. \A x : SameQueues(k, r, x) /\ SameWaits(k, r, x) /\ SameTime(k, r, x) /\ SameFlags(k, r, x)
  BY DEF SameQueues, SameWaits, SameTime, SameFlags, Queues, Waits
<1> QED BY <1>1, <1>2 DEF Only, SameRow

\* The first free TCB is taken off its list.
LEMMA FreeTailRow ==
    ASSUME NEW k, WellFormed(k), Tidy(k), k.free # <<>>
    PROVE  LET t == Head(k.free)
               r == [k EXCEPT !.free = Tail(@)] IN
           /\ t \in Task /\ Contains(k.free, t)
           /\ Only(k, r, t) /\ SameQueues(k, r, t) /\ SameWaits(k, r, t) /\ SameTime(k, r, t)
           /\ SameFlags(k, r, t) /\ ~Contains(r.free, t) /\ r.recycle = k.recycle /\ r.pend = k.pend
<1> DEFINE t == Head(k.free)
           a == Tail(k.free)
           r == [k EXCEPT !.free = a]
<1>1. k.free \in Seq(Task) /\ IsInjective(k.free) /\ IsInjective(k.recycle)
  BY DEF WellFormed, SchedState, Tidy
<1>2. /\ t \in Task /\ Contains(k.free, t) /\ a \in Seq(Task) /\ IsInjective(a) /\ ~Contains(a, t)
      /\ \A z \in Task \ {t} : Contains(a, z) <=> Contains(k.free, z)
  BY <1>1, TakeFirst
<1> HIDE DEF t, a
<1>3. /\ r.ready = k.ready /\ r.pend = k.pend /\ r.sortLink = k.sortLink /\ r.due = k.due
      /\ r.status = k.status /\ r.priority = k.priority /\ r.panic = k.panic
      /\ SameControl(k, r) /\ r.free = a /\ r.recycle = k.recycle
  BY DEF WellFormed, SchedState, SameControl
<1>4. WellFormed(r)
  BY <1>2, ListFieldKeeps, KeepsWellFormed
<1> HIDE DEF r
<1>5. /\ IsInjective(r.free) /\ IsInjective(r.recycle)
      /\ \A z \in Task : z # t => SamePool(k, r, z)
  BY <1>1, <1>2, <1>3 DEF SamePool
<1>6. /\ Only(k, r, t) /\ SameQueues(k, r, t) /\ SameWaits(k, r, t) /\ SameTime(k, r, t)
      /\ SameFlags(k, r, t)
  BY <1>3, <1>4, <1>5, PoolRow
<1> QED BY <1>2, <1>3, <1>6 DEF t, a, r

\* The first TCB to recycle is taken off its list.
LEMMA RecycleTailRow ==
    ASSUME NEW k, WellFormed(k), Tidy(k), k.recycle # <<>>
    PROVE  LET t == Head(k.recycle)
               r == [k EXCEPT !.recycle = Tail(@)] IN
           /\ t \in Task /\ Contains(k.recycle, t)
           /\ Only(k, r, t) /\ SameQueues(k, r, t) /\ SameWaits(k, r, t) /\ SameTime(k, r, t)
           /\ SameFlags(k, r, t) /\ ~Contains(r.recycle, t) /\ r.free = k.free /\ r.pend = k.pend
<1> DEFINE t == Head(k.recycle)
           a == Tail(k.recycle)
           r == [k EXCEPT !.recycle = a]
<1>1. k.recycle \in Seq(Task) /\ IsInjective(k.recycle) /\ IsInjective(k.free)
  BY DEF WellFormed, SchedState, Tidy
<1>2. /\ t \in Task /\ Contains(k.recycle, t) /\ a \in Seq(Task) /\ IsInjective(a) /\ ~Contains(a, t)
      /\ \A z \in Task \ {t} : Contains(a, z) <=> Contains(k.recycle, z)
  BY <1>1, TakeFirst
<1> HIDE DEF t, a
<1>3. /\ r.ready = k.ready /\ r.pend = k.pend /\ r.sortLink = k.sortLink /\ r.due = k.due
      /\ r.status = k.status /\ r.priority = k.priority /\ r.panic = k.panic
      /\ SameControl(k, r) /\ r.recycle = a /\ r.free = k.free
  BY DEF WellFormed, SchedState, SameControl
<1>4. WellFormed(r)
  BY <1>2, ListFieldKeeps, KeepsWellFormed
<1> HIDE DEF r
<1>5. /\ IsInjective(r.free) /\ IsInjective(r.recycle)
      /\ \A z \in Task : z # t => SamePool(k, r, z)
  BY <1>1, <1>2, <1>3 DEF SamePool
<1>6. /\ Only(k, r, t) /\ SameQueues(k, r, t) /\ SameWaits(k, r, t) /\ SameTime(k, r, t)
      /\ SameFlags(k, r, t)
  BY <1>3, <1>4, <1>5, PoolRow
<1> QED BY <1>2, <1>3, <1>6 DEF t, a, r

\* The TCB of x as OsNewTaskInit leaves it.
FilledIn(k, x, S, p) ==
    [k EXCEPT !.status[x] = S, !.priority[x] = p, !.timeSlice[x] = 0, !.waitTimes[x] = 0,
              !.due[x] = NoTime]

\* The status that is written last is the one that stays.
LEMMA StatusLast ==
    ASSUME NEW m \in SchedState, NEW s, NEW u, NEW a, NEW b, NEW c, NEW d
    PROVE  [[m EXCEPT !.status = s, !.priority = a, !.timeSlice = b, !.waitTimes = c, !.due = d]
               EXCEPT !.status = u] =
           [m EXCEPT !.status = u, !.priority = a, !.timeSlice = b, !.waitTimes = c, !.due = d]
  BY DEF SchedState

\* No other task, and no list, is touched when a TCB is filled in.
LEMMA NewTaskRow ==
    ASSUME NEW k, WellFormed(k), Tidy(k), NEW t \in Task, ~Contains(k.sortLink, t),
           NEW S, NEW p, NEW r, r = FilledIn(k, t, S, p), WellFormed(r)
    PROVE  /\ Only(k, r, t) /\ SameQueues(k, r, t) /\ SameWaits(k, r, t) /\ SamePool(k, r, t)
           /\ ~Contains(r.sortLink, t) /\ r.status[t] = S /\ r.pend = k.pend
<1>1. /\ r.ready = k.ready /\ r.pend = k.pend /\ r.sortLink = k.sortLink
      /\ r.free = k.free /\ r.recycle = k.recycle
      /\ r.due = [k.due EXCEPT ![t] = NoTime] /\ r.panic = k.panic /\ SameControl(k, r)
      /\ r.status = [k.status EXCEPT ![t] = S] /\ r.priority = [k.priority EXCEPT ![t] = p]
  BY DEF WellFormed, SchedState, SameControl, FilledIn
<1>2. /\ r.status[t] = S
      /\ \A x \in Task : x # t => SameFlags(k, r, x) /\ r.due[x] = k.due[x]
      /\ r.status[Idle] = k.status[Idle]
  <2>1. /\ k.status \in [TCB -> SUBSET Flag] /\ k.due \in [TCB -> -1 .. MaxDelay]
        /\ k.priority \in [TCB -> 0 .. Lowest + 1]
    BY DEF WellFormed, SchedState
  <2>2. t \in TCB /\ Idle \in TCB /\ Idle # t /\ Task \subseteq TCB
    BY SchedAssumption DEF TCB
  <2> QED BY <1>1, <2>1, <2>2 DEF SameFlags
<1>3. \A i \in 1 .. Len(k.sortLink) : k.sortLink[i] \in Task /\ k.sortLink[i] # t
  <2>1. k.sortLink \in Seq(Task)
    BY DEF WellFormed, SchedState
  <2> QED BY <2>1 DEF Contains
<1>4. Tidy(r)
  <2>1. \A i, j \in 1 .. Len(r.sortLink) : i < j => r.due[r.sortLink[i]] <= r.due[r.sortLink[j]]
    BY <1>1, <1>2, <1>3 DEF Tidy
  <2> QED BY <1>1, <2>1 DEF Tidy
<1>5. \A x : SameQueues(k, r, x) /\ SameWaits(k, r, x) /\ SamePool(k, r, x)
  BY <1>1 DEF SameQueues, SameWaits, SamePool, Queues, Waits
<1>6. \A x \in Task : x # t => SameRow(k, r, x)
  BY <1>1, <1>2, <1>5 DEF SameRow, SameTime
<1> QED BY <1>1, <1>2, <1>4, <1>5, <1>6 DEF Only
-----------------------------------------------------------------------------
(* What runs, and the lists, when one task moves.                          *)

\* One task moved, to where its new status has it: all is sound.
LEMMA SoundStep ==
    ASSUME NEW k, NEW r, NEW t \in Task, Sound(k), Only(k, r, t), Placed(r, t),
           t = k.run => /\ {"RUNNING", "STACK_FREE"} \subseteq r.status[t]
                        /\ r.status[t] \cap {"UNUSED", "READY"} = {}
    PROVE  Sound(r)
<1>1. /\ Tidy(r) /\ r.run = k.run /\ r.lock = k.lock /\ r.started = k.started
      /\ r.panic = k.panic /\ r.status[Idle] = k.status[Idle]
      /\ \A x \in Task : x # t => SameRow(k, r, x) /\ r.status[x] = k.status[x]
  BY SchedAssumption DEF Only, SameControl, SameRow, SameFlags
<1>2. \A x \in Task : Placed(r, x)
  BY <1>1, SamePlaced DEF Sound
<1>3. Runs(r)
  <2>1. r.run \in Task /\ r.run # t => r.status[r.run] = k.status[r.run]
    BY <1>1
  <2>2. r.run \in Task => /\ {"RUNNING", "STACK_FREE"} \subseteq r.status[r.run]
                          /\ "UNUSED" \notin r.status[r.run] /\ "READY" \notin r.status[r.run]
    BY <1>1, <2>1, SchedAssumption DEF Sound, Runs
  <2>3. r.run # Boot => "READY" \notin r.status[r.run]
    <3>1. r.run \in TCB
      BY DEF Only, WellFormed, SchedState
    <3> QED BY <1>1, <2>2, <3>1, SchedAssumption DEF Sound, Runs, TCB
  <2> QED BY <1>1, <2>2, <2>3 DEF Sound, Runs
<1> QED BY <1>1, <1>2, <1>3 DEF Sound

\* A step that moves nobody.
LEMMA SoundSame ==
    ASSUME NEW k, NEW r, Sound(k), SameLists(k, r), r.status = k.status, r.priority = k.priority,
           r.run = k.run, r.started = k.started, r.panic = k.panic,
           r.started /\ r.run = Boot => r.lock = 0
    PROVE  Sound(r) /\ \A x \in Task : SameWaits(k, r, x)
<1>1. /\ Tidy(r)
      /\ \A x : SameQueues(k, r, x) /\ SameWaits(k, r, x) /\ SamePool(k, r, x) /\ SameTime(k, r, x)
  BY FlagsRow DEF Sound
<1>2. \A x \in Task : Placed(r, x)
  BY <1>1, SamePlaced DEF Sound, SameRow, SameFlags
<1>3. Runs(r)
  BY DEF Sound, Runs
<1> QED BY <1>1, <1>2, <1>3 DEF Sound

\* A tick later the sort link is still in order.
LEMMA ElapseSound ==
    ASSUME NEW k, WellFormed(k), Sound(k), NEW r, WellFormed(r),
           r.ready = k.ready, r.pend = k.pend, r.free = k.free, r.recycle = k.recycle,
           r.sortLink = k.sortLink, r.due = Elapse(k).due,
           r.status = k.status, r.priority = k.priority,
           r.run = k.run, r.started = k.started, r.panic = k.panic, r.lock = k.lock
    PROVE  Sound(r) /\ \A x \in Task : SameWaits(k, r, x)
<1>1. \A x \in Task : r.due[x] = IF k.due[x] > 0 THEN k.due[x] - 1 ELSE k.due[x]
  <2>1. r.due = [t \in TCB |-> IF k.due[t] > 0 THEN k.due[t] - 1 ELSE k.due[t]]
    BY DEF Elapse, WellFormed, SchedState
  <2> QED BY <2>1 DEF TCB
<1>2. \A x \in Task : k.due[x] \in Int /\ k.due[x] >= -1
  BY DEF WellFormed, SchedState, TCB
<1>3. \A i \in 1 .. Len(k.sortLink) : k.sortLink[i] \in Task
  BY DEF WellFormed, SchedState
<1>4. \A x, y \in Task : k.due[x] <= k.due[y] => r.due[x] <= r.due[y]
  BY <1>1, <1>2
<1>5. Tidy(r)
  <2>1. \A i, j \in 1 .. Len(k.sortLink) : i < j => k.due[k.sortLink[i]] <= k.due[k.sortLink[j]]
    BY DEF Sound, Tidy
  <2>2. \A i, j \in 1 .. Len(r.sortLink) : i < j => r.due[r.sortLink[i]] <= r.due[r.sortLink[j]]
    BY <1>3, <1>4, <2>1
  <2> QED BY <2>2 DEF Sound, Tidy
<1>6. \A x \in Task : SameRow(k, r, x)
  <2>1. \A x \in Task : r.due[x] = NoTime <=> k.due[x] = NoTime
    BY <1>1, <1>2 DEF NoTime
  <2> QED BY <2>1 DEF SameRow, SameQueues, SameWaits, SamePool, SameTime, SameFlags, Queues, Waits
<1>7. \A x \in Task : Placed(r, x)
  BY <1>6, SamePlaced DEF Sound
<1> QED BY <1>5, <1>6, <1>7 DEF Sound, Runs, SameRow

\* The task that OsGetTopTask finds is ready.
LEMMA TopTaskReady ==
    ASSUME NEW k, WellFormed(k), OsGetTopTask(k) \in Task, Placed(k, OsGetTopTask(k))
    PROVE  "READY" \in k.status[OsGetTopTask(k)]
<1> DEFINE n == OsGetTopTask(k)
           p == CHOOSE p \in k.queueBitmap : \A q \in k.queueBitmap : p <= q
<1>1. k.queueBitmap # {} /\ n = Head(k.ready[p])
  BY SchedAssumption DEF OsGetTopTask
<1>2. p \in k.queueBitmap
  <2>1. k.queueBitmap \in SUBSET Nat
    BY SchedAssumption DEF WellFormed, SchedState, Prio
  <2>2. \E x \in k.queueBitmap : \A q \in k.queueBitmap : x <= q
    BY <1>1, <2>1, MinOfNats
  <2> QED BY <2>2
<1> HIDE DEF p
<1>3. p \in Prio /\ k.ready[p] # <<>> /\ k.ready[p] \in Seq(Task)
  BY <1>2 DEF WellFormed, BitmapMatches, SchedState
<1>4. Contains(k.ready[p], n)
  BY <1>1, <1>3, EmptyList
<1> HIDE DEF n
<1>5. p \in Queues(k, n)
  BY <1>3, <1>4 DEF Queues
<1> QED BY <1>5 DEF Placed, n

\* The end of the running task: its TCB waits for somebody to free it.
LEMMA RunningDeleteRow ==
    ASSUME NEW k, WellFormed(k), Tidy(k), NEW t \in Task, ~Contains(k.recycle, t),
           NEW r, r = OsRunningTaskDelete(k, t)
    PROVE  /\ Tidy(r) /\ r.run = Boot /\ r.lock = k.lock /\ r.started = k.started
           /\ r.pendSV = k.pendSV /\ r.panic = k.panic
           /\ \A x \in Task : x # t => SameRow(k, r, x)
           /\ SameQueues(k, r, t) /\ SameWaits(k, r, t) /\ SameTime(k, r, t)
           /\ Contains(r.free, t) <=> Contains(k.free, t)
           /\ Contains(r.recycle, t)
           /\ r.status[t] = k.status[t] \cup {"UNUSED"} /\ r.status[Idle] = k.status[Idle]
           /\ r.priority = k.priority /\ r.pend = k.pend
<1> DEFINE s == Append(k.recycle, t)
<1>1. /\ r.ready = k.ready /\ r.pend = k.pend /\ r.free = k.free /\ r.recycle = s
      /\ r.sortLink = k.sortLink /\ r.due = k.due /\ r.priority = k.priority
      /\ r.run = Boot /\ r.lock = k.lock /\ r.started = k.started /\ r.pendSV = k.pendSV
      /\ r.panic = k.panic
      /\ r.status = [k.status EXCEPT ![t] = @ \cup {"UNUSED"}, ![Boot] = k.status[t] \cup {"UNUSED"}]
  BY DEF OsRunningTaskDelete, WellFormed, SchedState
<1>2. /\ r.status[t] = k.status[t] \cup {"UNUSED"}
      /\ \A x \in Task : x # t => r.status[x] = k.status[x]
      /\ r.status[Idle] = k.status[Idle]
  <2>1. k.status \in [TCB -> SUBSET Flag]
    BY DEF WellFormed, SchedState
  <2>2. t \in TCB /\ Idle \in TCB /\ Idle # t /\ Task \subseteq TCB /\ Boot \notin Task /\ Idle # Boot
    BY SchedAssumption DEF TCB
  <2> QED BY <1>1, <2>1, <2>2
<1>3. k.recycle \in Seq(Task) /\ IsInjective(k.recycle)
  BY DEF WellFormed, SchedState, Tidy
<1>4. /\ IsInjective(s) /\ Contains(s, t)
      /\ \A z : z # t => (Contains(s, z) <=> Contains(k.recycle, z))
  BY <1>3, AppendOnce
<1> HIDE DEF s
<1>5. Tidy(r)
  BY <1>1, <1>4 DEF Tidy
<1>6. \A x : SameQueues(k, r, x) /\ SameWaits(k, r, x) /\ SameTime(k, r, x)
  BY <1>1 DEF SameQueues, SameWaits, SameTime, Queues, Waits
<1>7. \A x \in Task : x # t => SamePool(k, r, x) /\ SameFlags(k, r, x)
  BY <1>1, <1>2, <1>4 DEF SamePool, SameFlags
<1> QED BY <1>1, <1>2, <1>4, <1>5, <1>6, <1>7 DEF SameRow

-----------------------------------------------------------------------------
(* What the tasks know of each other, when a step moves no call on.        *)

\* x is not in the middle of its creation.
NotNew(x) ==
    x \in handles \/ ~(kernel.status[x] \subseteq {"SUSPEND", "JOINABLE", "STACK_FREE"})

Kept(k, r, x) ==
    /\ \A f \in {"JOINABLE", "EXIT", "UNUSED", "STACK_FREE"} :
          f \in r.status[x] <=> f \in k.status[x]
    /\ "PEND_TIME" \in r.status[x] => "PEND_TIME" \in k.status[x]

\* x waits for the tasks that it waited for, and has not begun to wait.
SameJoins(k, r, x) ==
    /\ Waits(r, x) \cap Task = Waits(k, x) \cap Task
    /\ Waits(r, x) \subseteq Waits(k, x)

\* Nobody begins to create, join or reclaim a task, or is done with it.
SameCalls ==
    /\ \A u \in TCB, z \in Task :
          /\ Creating(u, z)' => Creating(u, z) /\ todo'[u] = todo[u]
          /\ Reclaims(u, z)' <=> Reclaims(u, z)
          /\ Joins(u, z)' <=> Joins(u, z)
    /\ \A u \in Task, o \in WaitObj : o \in Waits(kernel, u) => Results(u, o)'
    /\ \A u \in TCB : todo'[u] \in Rest
    /\ handles' = handles

\* A step that leaves the calls alone leaves them the same.
LEMMA UnchangedCalls ==
    ASSUME SafeInv, UNCHANGED <<todo, arg, handles>>
    PROVE  SameCalls
  BY DEF SafeInv, SameCalls, Creating, Reclaims, Joins, Results, ResultInv

Plain == {<<>>, <<"schedule">>, <<"recycle", "take">>, <<"take">>, <<"eventRead">>,
          <<"eventWrite">>}

\* A plain rest of a call concerns no other task.
LEMMA PlainRest ==
    /\ Plain \subseteq Rest
    /\ Plain \cap {<<"enqueue">>, <<"noStack">>, <<"schedule", "joinReclaim">>,
                   <<"joinReclaim">>, <<"join">>, <<"schedule", "result">>, <<"result">>} = {}
  BY DEF Plain, Rest

\* A step from one plain rest of a call to another leaves all other calls the
\* same.
LEMMA PlainCalls ==
    ASSUME TaskInv, SafeInv, NEW t \in TCB, todo[t] \in Plain, NEW s \in Plain, NEW a,
           todo' = [todo EXCEPT ![t] = s], arg' = [arg EXCEPT ![t] = a], handles' = handles
    PROVE  SameCalls
<1>1. /\ todo'[t] = s /\ \A u \in TCB \ {t} : todo'[u] = todo[u] /\ arg'[u] = arg[u]
  BY DEF TaskInv, TaskTypeOK
<1>2. \A u \in TCB : todo'[u] \in Rest
  BY <1>1, PlainRest DEF SafeInv
<1>3. \A z \in Task : ~Creating(t, z) /\ ~Reclaims(t, z) /\ ~Joins(t, z)
  BY PlainRest DEF Creating, Reclaims, Joins
<1>4. \A z \in Task : ~Creating(t, z)' /\ ~Reclaims(t, z)' /\ ~Joins(t, z)'
  BY <1>1, PlainRest DEF Creating, Reclaims, Joins
<1>5. \A u \in TCB \ {t}, z \in Task :
         /\ Creating(u, z)' <=> Creating(u, z)
         /\ Reclaims(u, z)' <=> Reclaims(u, z)
         /\ Joins(u, z)' <=> Joins(u, z)
  BY <1>1 DEF Creating, Reclaims, Joins
<1>6. ASSUME NEW u \in Task, NEW o \in WaitObj, o \in Waits(kernel, u)
      PROVE  Results(u, o)'
  <2>1. Results(u, o) /\ u \in TCB
    BY <1>6 DEF SafeInv, ResultInv, TCB
  <2>2. u # t
    BY <2>1, PlainRest DEF Results
  <2> QED BY <1>1, <2>1, <2>2 DEF Results
<1> QED BY <1>1, <1>2, <1>3, <1>4, <1>5, <1>6 DEF SameCalls

\* Nobody begins to wait, joiners wait on, no call changes, and a task that changes
\* its status keeps what creations and joins need.
LEMMA WakeStep ==
    ASSUME TaskInv, SafeInv, Sound(kernel'), SwitchComes', SameCalls,
           \A x \in Task : SameJoins(kernel, kernel', x),
           \A x \in Task : \/ kernel'.status[x] = kernel.status[x]
                           \/ NotNew(x) /\ Kept(kernel, kernel', x)
                           \/ "UNUSED" \in kernel.status[x] /\ kernel'.status[x] = {"UNUSED"}
    PROVE  SafeInv'
<1>1. CreateInv'
  <2>1. SUFFICES ASSUME NEW t \in TCB, NEW x \in Task, Creating(t, x)'
                 PROVE  /\ kernel'.status[x] \subseteq {"SUSPEND", "JOINABLE", "STACK_FREE"}
                        /\ todo'[t] = <<"enqueue">> => "STACK_FREE" \in kernel'.status[x]
                        /\ x \notin handles'
                        /\ \A u \in TCB : Creating(u, x)' => u = t
    BY DEF CreateInv
  <2>2. Creating(t, x) /\ todo'[t] = todo[t] /\ handles' = handles
    BY <2>1 DEF SameCalls
  <2>3. /\ kernel.status[x] \subseteq {"SUSPEND", "JOINABLE", "STACK_FREE"}
        /\ todo[t] = <<"enqueue">> => "STACK_FREE" \in kernel.status[x]
        /\ x \notin handles
        /\ \A u \in TCB : Creating(u, x) => u = t
    BY <2>2 DEF SafeInv, CreateInv
  <2>4. kernel'.status[x] = kernel.status[x]
    BY <2>3 DEF NotNew
  <2> QED BY <2>2, <2>3, <2>4 DEF SameCalls
<1>2. JoinInv'
  <2>1. ASSUME NEW x \in Task, NEW t \in Task, x \in Waits(kernel', t)
        PROVE  /\ Reclaims(t, x)' /\ "JOINABLE" \in kernel'.status[x]
               /\ "EXIT" \notin kernel'.status[x] /\ "PEND_TIME" \notin kernel'.status[t]
    <3>1. x \in Waits(kernel, t) /\ t \in TCB
      BY <2>1 DEF SameJoins, TCB
    <3>2. /\ Reclaims(t, x) /\ "JOINABLE" \in kernel.status[x] /\ "EXIT" \notin kernel.status[x]
          /\ "PEND_TIME" \notin kernel.status[t]
      BY <3>1 DEF SafeInv, JoinInv
    <3>3. "UNUSED" \notin kernel.status[x]
      BY <3>1, <3>2 DEF SafeInv, JoinInv, Joins
    <3>4. "PEND_TIME" \notin kernel'.status[t]
      BY <3>2 DEF Kept
    <3> QED BY <3>1, <3>2, <3>3, <3>4 DEF SameCalls, Kept
  <2>2. ASSUME NEW x \in Task, NEW t \in TCB, Joins(t, x)'
        PROVE  /\ t \in Task /\ t # x /\ x \in handles' /\ "UNUSED" \notin kernel'.status[x]
               /\ "EXIT" \in kernel'.status[x] \/ x \in Waits(kernel', t)
               /\ \A u \in TCB : Joins(u, x)' => u = t
    <3>1. Joins(t, x) /\ \A u \in TCB : Joins(u, x)' => Joins(u, x)
      BY <2>2 DEF SameCalls
    <3>2. /\ t \in Task /\ t # x /\ x \in handles /\ "UNUSED" \notin kernel.status[x]
          /\ "EXIT" \in kernel.status[x] \/ x \in Waits(kernel, t)
          /\ \A u \in TCB : Joins(u, x) => u = t
      BY <3>1 DEF SafeInv, JoinInv
    <3>3. Waits(kernel', t) \cap Task = Waits(kernel, t) \cap Task
      BY <3>2 DEF SameJoins
    <3>4. "UNUSED" \notin kernel'.status[x] /\ ("EXIT" \in kernel.status[x] => "EXIT" \in kernel'.status[x])
      BY <3>2 DEF Kept
    <3> QED BY <3>1, <3>2, <3>3, <3>4 DEF SameCalls
  <2> QED BY <2>1, <2>2 DEF JoinInv
<1>3. HandleInv'
  <2>1. SUFFICES ASSUME NEW x \in handles
                 PROVE  ~(kernel'.status[x] \subseteq {"SUSPEND", "JOINABLE"})
    BY DEF HandleInv, SameCalls
  <2>2. x \in Task /\ ~(kernel.status[x] \subseteq {"SUSPEND", "JOINABLE"})
    BY NamedIsTask DEF SafeInv, HandleInv
  <2>3. "STACK_FREE" \in kernel.status[x] \/ kernel.status[x] \cap {"UNUSED", "EXIT"} # {}
    BY <2>2 DEF SafeInv, Sound, Placed
  <2> QED BY <2>2, <2>3 DEF Kept
<1>4. ResultInv'
  BY DEF ResultInv, SameJoins, SameCalls
<1> QED BY <1>1, <1>2, <1>3, <1>4 DEF SafeInv, SameCalls

\* No wait list changes.
LEMMA MildStep ==
    ASSUME TaskInv, SafeInv, Sound(kernel'), SwitchComes', SameCalls,
           \A x \in Task : SameWaits(kernel, kernel', x),
           \A x \in Task : \/ kernel'.status[x] = kernel.status[x]
                           \/ NotNew(x) /\ Kept(kernel, kernel', x)
                           \/ "UNUSED" \in kernel.status[x] /\ kernel'.status[x] = {"UNUSED"}
    PROVE  SafeInv'
<1>1. \A x \in Task : SameJoins(kernel, kernel', x)
  BY DEF SameJoins, SameWaits
<1> QED BY <1>1, WakeStep

-----------------------------------------------------------------------------
(* A call that moves one task, in a task or in an interrupt.               *)

\* LOS_Schedule sets PendSV at most.
LEMMA AskSame ==
    ASSUME NEW m, WellFormed(m), NEW r, r = m \/ r = LOS_Schedule(m)
    PROVE  /\ SameLists(m, r) /\ r.status = m.status /\ r.priority = m.priority
           /\ r.run = m.run /\ r.started = m.started /\ r.panic = m.panic /\ r.lock = m.lock
           /\ m.pendSV => r.pendSV
           /\ r = LOS_Schedule(m) /\ m.started /\ m.lock = 0 => r.pendSV
  BY DEF LOS_Schedule, SameLists, WellFormed, SchedState

\* Asking for a switch keeps the lists sound.
LEMMA AskSound ==
    ASSUME NEW m, WellFormed(m), Sound(m), NEW r, r = m \/ r = LOS_Schedule(m)
    PROVE  Sound(r) /\ \A x \in Task : SameWaits(m, r, x)
<1>1. m.started /\ m.run = Boot => m.lock = 0
  BY DEF Sound, Runs
<1> QED BY <1>1, AskSame, SoundSame

\* Who waits as before joins as before.
LEMMA WaitsStay == ASSUME NEW k, NEW r, NEW x, SameWaits(k, r, x) PROVE SameJoins(k, r, x)
  BY DEF SameWaits, SameJoins

\* One task that is not new moves, and does not begin to wait.
LEMMA MoveStep ==
    ASSUME TaskInv, SafeInv, NEW x \in Task, NEW m,
           Only(kernel, m, x), Placed(m, x), SameJoins(kernel, m, x), SameLife(kernel, m, x),
           NotNew(x), x = kernel.run => "READY" \notin m.status[x],
           kernel' = m \/ kernel' = LOS_Schedule(m),
           SameCalls, SwitchComes'
    PROVE  SafeInv'
<1>1. WellFormed(m) /\ \A z \in Task : z # x => SameRow(kernel, m, z)
  BY DEF Only
<1>2. Sound(m)
  <2>1. x = kernel.run => /\ {"RUNNING", "STACK_FREE"} \subseteq m.status[x]
                          /\ m.status[x] \cap {"UNUSED", "READY"} = {}
    BY DEF SafeInv, Sound, Runs, SameLife
  <2>2. Sound(kernel)
    BY DEF SafeInv
  <2> QED BY <2>1, <2>2, SoundStep
<1>3. Sound(kernel') /\ kernel'.status = m.status /\ \A z \in Task : SameWaits(m, kernel', z)
  BY <1>1, <1>2, AskSound, AskSame
<1>4. \A z \in Task : SameJoins(kernel, kernel', z)
  BY <1>1, <1>3 DEF SameJoins, SameWaits, SameRow
<1>5. \A z \in Task : \/ kernel'.status[z] = kernel.status[z]
                      \/ NotNew(z) /\ Kept(kernel, kernel', z)
  <2>1. Kept(kernel, kernel', x)
    BY <1>3 DEF Kept, SameLife
  <2> QED BY <1>1, <1>3, <2>1 DEF SameRow, SameFlags
<1> QED BY <1>3, <1>4, <1>5, WakeStep

\* A thread that is not about to ask for a switch is not blocked.
LEMMA ThreadFree ==
    ASSUME TaskInv, SafeInv, NEW t \in Task, Thread(t),
           todo[t] = <<>> \/ Head(todo[t]) # "schedule"
    PROVE  /\ t = kernel.run /\ ~kernel.pendSV
           /\ {"RUNNING", "STACK_FREE"} \subseteq kernel.status[t]
           /\ kernel.status[t] \cap Blocking = {} /\ "READY" \notin kernel.status[t]
<1>1. t = kernel.run /\ ~kernel.pendSV /\ t # Boot
  BY SchedAssumption DEF Thread
<1>2. kernel.status[t] \cap Blocking = {}
  BY <1>1 DEF SafeInv, SwitchComes
<1>3. {"RUNNING", "STACK_FREE"} \subseteq kernel.status[t] /\ "READY" \notin kernel.status[t]
  BY <1>1 DEF SafeInv, Sound, Runs
<1> QED BY <1>1, <1>2, <1>3

\* What is known when the application calls: its task runs, and is in no call.
LEMMA AppFree ==
    ASSUME TaskInv, SafeInv, NEW t, NEW call, App(t, call)
    PROVE  /\ t \in Task /\ t \in TCB /\ todo[t] = <<>> /\ todo[t] \in Plain
           /\ t = kernel.run /\ ~kernel.pendSV
           /\ {"RUNNING", "STACK_FREE"} \subseteq kernel.status[t]
           /\ kernel.status[t] \cap Blocking = {} /\ "READY" \notin kernel.status[t]
<1>1. t \in Task /\ Thread(t) /\ todo[t] = <<>>
  BY DEF App
<1> QED BY <1>1, ThreadFree DEF Plain, TCB

\* A task whose ID the application has.
LEMMA NamedFree ==
    ASSUME Unprotected = {}, TaskInv, SafeInv, NEW x \in Task, Named(x), Created(x)
    PROVE  /\ NotNew(x) /\ "UNUSED" \notin kernel.status[x]
           /\ "STACK_FREE" \in kernel.status[x] \/ "EXIT" \in kernel.status[x]
           /\ "RUNNING" \in kernel.status[x] => x = kernel.run
<1>1. x \in handles /\ "UNUSED" \notin kernel.status[x]
  BY DEF Named, Created
<1>2. ~(kernel.status[x] \subseteq {"SUSPEND", "JOINABLE"})
  BY <1>1 DEF SafeInv, HandleInv
<1> QED BY <1>1, <1>2 DEF SafeInv, Sound, Placed, NotNew

\* The rest of a call that only asks for a switch.
LEMMA AppCalls ==
    ASSUME TaskInv, SafeInv, NEW t \in TCB, todo[t] \in Plain, NEW k, NEW s \in Plain, NEW a,
           Call(t, k, s, a)
    PROVE  SameCalls /\ kernel' = k /\ todo'[t] = s
<1>1. /\ todo' = [todo EXCEPT ![t] = s] /\ handles' = handles /\ kernel' = k
      /\ arg' = [arg EXCEPT ![t] = IF s = <<>> THEN NoArg ELSE a]
  BY DEF Call
<1>2. todo'[t] = s
  BY <1>1 DEF TaskInv, TaskTypeOK
<1> QED BY <1>1, <1>2, PlainCalls

-----------------------------------------------------------------------------
(* The context switch.                                                     *)

\* The processor is given to n.
Given(k, n) == OsSchedTaskDeQueue([k EXCEPT !.status[n] = @ \cup {"RUNNING"}, !.run = n], n)

\* OsSchedTaskSwitch gives the processor to n: n is off its queue and RUNNING.
LEMMA GiveRow ==
    ASSUME NEW k, WellFormed(k), Tidy(k), NEW n \in Task \cup {Idle},
           n \in Task => Queues(k, n) = IF "READY" \in k.status[n] THEN {k.priority[n]} ELSE {},
           NEW d, d = Given(k, n)
    PROVE  /\ WellFormed(d) /\ Tidy(d) /\ d.run = n /\ d.lock = k.lock /\ d.panic = k.panic
           /\ d.started = k.started
           /\ \A x \in Task : x # n => SameRow(k, d, x)
           /\ n # Idle => d.status[Idle] = k.status[Idle]
           /\ d.status[n] = (k.status[n] \cup {"RUNNING"}) \ {"READY"}
           /\ n \in Task => /\ SameWaits(k, d, n) /\ SamePool(k, d, n) /\ SameTime(k, d, n)
                            /\ Queues(d, n) = {}
<1> DEFINE m == [k EXCEPT !.status[n] = @ \cup {"RUNNING"}, !.run = n]
<1>0. d = OsSchedTaskDeQueue(m, n)
  BY DEF Given
<1>1. /\ SameLists(k, m) /\ m.priority = k.priority /\ m.run = n /\ m.lock = k.lock
      /\ m.panic = k.panic /\ m.started = k.started
      /\ m.status = [k.status EXCEPT ![n] = @ \cup {"RUNNING"}]
  BY DEF WellFormed, SchedState, SameLists
<1>2. /\ m.status[n] = k.status[n] \cup {"RUNNING"}
      /\ \A x \in Task \cup {Idle} : x # n => m.status[x] = k.status[x]
  <2>1. k.status \in [TCB -> SUBSET Flag] /\ Task \cup {Idle} \subseteq TCB
    BY DEF WellFormed, SchedState, TCB
  <2> QED BY <1>1, <2>1
<1>3. WellFormed(m)
  BY RunningKeeps, KeepsWellFormed
<1> HIDE DEF m
<1>4. /\ Tidy(m)
      /\ \A x : SameQueues(k, m, x) /\ SameWaits(k, m, x) /\ SamePool(k, m, x) /\ SameTime(k, m, x)
  BY <1>1, FlagsRow
<1>5. \A x \in Task : x # n => SameRow(k, m, x)
  BY <1>1, <1>2, <1>4 DEF SameRow, SameFlags
<1>6. Only(m, d, n) /\ d.status[n] = m.status[n] \ {"READY"}
  <2>1. CASE n = Idle
    BY <1>0, <1>3, <1>4, <2>1, DeQueueIdle
  <2>2. CASE n \in Task
    <3>1. Queues(m, n) = IF "READY" \in m.status[n] THEN {m.priority[n]} ELSE {}
      BY <1>1, <1>2, <1>4, <2>2 DEF SameQueues
    <3> QED BY <1>0, <1>3, <1>4, <2>2, <3>1, DeQueueRow
  <2> QED BY <2>1, <2>2
<1>7. n \in Task => /\ SameWaits(m, d, n) /\ SamePool(m, d, n) /\ SameTime(m, d, n)
                    /\ Queues(d, n) = {}
  <2>1. n \in Task => Queues(m, n) = IF "READY" \in m.status[n] THEN {m.priority[n]} ELSE {}
    BY <1>1, <1>2, <1>4 DEF SameQueues
  <2> QED BY <1>0, <1>3, <1>4, <2>1, DeQueueRow
<1>8. /\ WellFormed(d) /\ Tidy(d) /\ d.run = n /\ d.lock = k.lock /\ d.panic = k.panic
      /\ d.started = k.started /\ \A x \in Task : x # n => SameRow(m, d, x)
      /\ n # Idle => d.status[Idle] = k.status[Idle]
  BY <1>1, <1>2, <1>6 DEF Only, SameControl
<1>9. \A x \in Task : x # n => SameRow(k, d, x)
  BY <1>5, <1>8 DEF SameRow, SameQueues, SameWaits, SamePool, SameTime, SameFlags
<1>10. n \in Task => SameWaits(k, d, n) /\ SamePool(k, d, n) /\ SameTime(k, d, n) /\ Queues(d, n) = {}
  BY <1>4, <1>7 DEF SameWaits, SamePool, SameTime
<1> QED BY <1>2, <1>6, <1>8, <1>9, <1>10

\* Nobody runs; r is the state in which the task at the top does.
NobodyRuns(k) ==
    /\ \A x \in Task : "RUNNING" \in k.status[x] => Contains(k.recycle, x)
    /\ "RUNNING" \notin k.status[Idle]

\* When nobody runs, the processor given to the top task leaves all sound.
LEMMA GiveSound ==
    ASSUME NEW k, WellFormed(k), Tidy(k), \A x \in Task : Placed(k, x), NobodyRuns(k),
           k.lock = 0, ~k.panic, NEW n, n = OsGetTopTask(k),
           NEW d, d = Given(k, n),
           NEW r, SameLists(d, r), r.status = d.status, r.priority = d.priority,
           r.run = d.run, r.lock = d.lock, r.panic = d.panic
    PROVE  /\ Sound(r) /\ r.run = n /\ r.lock = 0
           /\ \A x \in Task : SameWaits(k, r, x)
           /\ \A x \in Task : x # n => r.status[x] = k.status[x]
           /\ n \in Task => /\ "READY" \in k.status[n]
                            /\ r.status[n] = (k.status[n] \cup {"RUNNING"}) \ {"READY"}
<1>1. n \in Task \cup {Idle} /\ Idle \notin Task
  BY TopTaskType, SchedAssumption
<1>2. n \in Task => "READY" \in k.status[n]
  BY TopTaskReady
<1>3. n \in Task => Queues(k, n) = IF "READY" \in k.status[n] THEN {k.priority[n]} ELSE {}
  BY DEF Placed
<1>4. /\ WellFormed(d) /\ Tidy(d) /\ d.run = n /\ d.lock = k.lock /\ d.panic = k.panic
      /\ \A x \in Task : x # n => SameRow(k, d, x)
      /\ n # Idle => d.status[Idle] = k.status[Idle]
      /\ d.status[n] = (k.status[n] \cup {"RUNNING"}) \ {"READY"}
      /\ n \in Task => /\ SameWaits(k, d, n) /\ SamePool(k, d, n) /\ SameTime(k, d, n)
                       /\ Queues(d, n) = {}
  BY <1>1, <1>3, GiveRow
<1>5. /\ Tidy(r)
      /\ \A x : SameQueues(d, r, x) /\ SameWaits(d, r, x) /\ SamePool(d, r, x) /\ SameTime(d, r, x)
  BY <1>4, FlagsRow
<1>6. \A x \in Task : SameWaits(k, r, x)
  BY <1>4, <1>5 DEF SameWaits, SameRow
<1>7. ASSUME NEW x \in Task, x # n PROVE Placed(r, x) /\ r.status[x] = k.status[x]
  <2>1. SameRow(k, r, x)
    BY <1>4, <1>5, <1>7 DEF SameRow, SameQueues, SameWaits, SamePool, SameTime, SameFlags
  <2>2. "RUNNING" \in k.status[x] => Contains(k.recycle, x)
    BY DEF NobodyRuns
  <2> QED BY <2>1, <2>2 DEF Placed, SameRow, SameQueues, SameWaits, SamePool, SameTime, SameFlags
<1>8. CASE n \in Task
  <2>1. /\ SameWaits(k, r, n) /\ SamePool(k, r, n) /\ SameTime(k, r, n) /\ Queues(r, n) = {}
        /\ r.status[n] = (k.status[n] \cup {"RUNNING"}) \ {"READY"} /\ r.run = n
    BY <1>4, <1>5, <1>8 DEF SameQueues, SameWaits, SamePool, SameTime
  <2>2. Placed(k, n) /\ "READY" \in k.status[n]
    BY <1>2, <1>8
  <2>3. k.status[n] \cap Blocking = {} /\ "STACK_FREE" \in k.status[n]
    BY <2>2 DEF Placed, Blocking
  <2>4. Placed(r, n)
    BY <2>1, <2>2, <2>3 DEF Placed, SameWaits, SamePool, SameTime, Blocking
  <2>5. Runs(r)
    <3>1. n # Idle /\ n # Boot
      BY <1>1, <1>8, SchedAssumption
    <3>2. r.status[Idle] = k.status[Idle] /\ ~r.panic
      BY <1>4, <3>1
    <3>3. {"RUNNING", "STACK_FREE"} \subseteq r.status[n] /\ "UNUSED" \notin r.status[n] /\ "READY" \notin r.status[n]
      BY <2>1, <2>3 DEF Blocking
    <3> QED BY <2>1, <3>1, <3>2, <3>3 DEF Runs, NobodyRuns
  <2> QED BY <1>2, <1>4, <1>5, <1>6, <1>7, <1>8, <2>1, <2>4, <2>5 DEF Sound
<1>9. CASE n = Idle
  <2>1. Runs(r)
    <3>1. r.run = Idle /\ r.status[Idle] = (k.status[Idle] \cup {"RUNNING"}) \ {"READY"} /\ ~r.panic
      BY <1>4, <1>9
    <3> QED BY <1>1, <3>1, SchedAssumption DEF Runs
  <2> QED BY <1>1, <1>4, <1>5, <1>6, <1>7, <1>9, <2>1 DEF Sound
<1> QED BY <1>1, <1>8, <1>9

Mark(k, t, S) == [k EXCEPT !.status[t] = S]

\* OsSchedTaskSwitch marks the task that it takes the processor from.
LEMMA MarkRow ==
    ASSUME NEW k, WellFormed(k), Tidy(k), NEW t \in Task \cup {Idle}, NEW S, Fits(t, S)
    PROVE  /\ Only(k, Mark(k, t, S), t) /\ SamePlace(k, Mark(k, t, S), t)
           /\ Mark(k, t, S).status[t] = S /\ Mark(k, t, S).priority = k.priority
  BY StatusRow DEF Mark

Timed(S) == S \cap {"DELAY", "PEND_TIME"} # {}

\* The task that is switched out is on the list that its status names.
LEMMA PutBackTask ==
    ASSUME NEW k, WellFormed(k), Sound(k), NEW t \in Task, t = k.run,
           NEW m, m = PutBack(k), NEW r, r = Mark(m, t, m.status[t] \ {"RUNNING"})
    PROVE  /\ Only(k, r, t) /\ Placed(r, t) /\ ~m.panic
           /\ SameWaits(k, r, t) /\ Kept(k, r, t) /\ "RUNNING" \notin r.status[t]
<1> DEFINE S == k.status[t]
<1>1. /\ Tidy(k) /\ Placed(k, t) /\ {"RUNNING", "STACK_FREE"} \subseteq S /\ "READY" \notin S
      /\ "UNUSED" \notin S /\ S \in SUBSET Flag /\ t # Idle /\ t # Boot /\ ~k.panic
  BY SchedAssumption DEF Sound, Runs, WellFormed, SchedState
<1>2. ~Contains(k.sortLink, t) /\ Queues(k, t) = {}
  BY <1>1 DEF Placed
<1>3. /\ Only(k, m, t) /\ SameWaits(k, m, t) /\ SamePool(k, m, t)
      /\ IF Timed(S)
         THEN /\ SameFlags(k, m, t) /\ Queues(m, t) = {}
              /\ Contains(m.sortLink, t) /\ m.due[t] # NoTime
         ELSE IF S \cap {"PEND", "SUSPEND", "EXIT"} = {}
         THEN /\ m.status[t] = S \cup {"READY"} /\ SameTime(k, m, t)
              /\ m.priority[t] = k.priority[t] /\ Queues(m, t) = {k.priority[t]}
         ELSE SameRow(k, m, t)
  <2>1. CASE Timed(S)
    <3>1. m = OsAdd2SortLink(k, t)
      BY <2>1 DEF PutBack, Timed, Has
    <3>2. /\ Only(k, m, t) /\ SameQueues(k, m, t) /\ SamePool(k, m, t) /\ SameWaits(k, m, t)
          /\ SameFlags(k, m, t) /\ Contains(m.sortLink, t) /\ m.due[t] # NoTime
      BY <1>1, <1>2, <3>1, Add2SortLinkRow
    <3> QED BY <1>2, <2>1, <3>2 DEF SameQueues
  <2>2. CASE ~Timed(S) /\ S \cap {"PEND", "SUSPEND", "EXIT"} = {}
    <3>1. m = OsSchedTaskEnQueue(k, t)
      BY <1>1, <1>2, <2>2 DEF PutBack, Timed, Has, OS_TASK_BLOCKED_STATUS
    <3>2. /\ Only(k, m, t) /\ SameWaits(k, m, t) /\ SamePool(k, m, t) /\ SameTime(k, m, t)
          /\ m.status[t] = EnQueued(S) /\ m.priority[t] = k.priority[t]
          /\ Queues(m, t) = {k.priority[t]}
      BY <1>1, <1>2, <3>1, EnQueueRow
    <3>3. EnQueued(S) = S \cup {"READY"}
      BY <1>2, <2>2 DEF EnQueued, Timed
    <3> QED BY <2>2, <3>2, <3>3
  <2>3. CASE ~Timed(S) /\ S \cap {"PEND", "SUSPEND", "EXIT"} # {}
    <3>1. m = k
      BY <1>1, <1>2, <2>3 DEF PutBack, Timed, Has, OS_TASK_BLOCKED_STATUS
    <3> QED BY <1>1, <2>3, <3>1, OnlySelf DEF SameRow
  <2> QED BY <2>1, <2>2, <2>3
<1> DEFINE R == m.status[t] \ {"RUNNING"}
<1>4. WellFormed(m) /\ Tidy(m) /\ Fits(t, R) /\ ~m.panic
  <2>1. WellFormed(m) /\ Tidy(m) /\ ~m.panic
    BY <1>1, <1>3 DEF Only
  <2> QED BY <1>1, <2>1 DEF Fits, WellFormed, SchedState, TCB
<1>5. r = Mark(m, t, R)
  BY DEF Mark
<1>6. Only(m, r, t) /\ SamePlace(m, r, t) /\ r.status[t] = R /\ r.priority = m.priority
  <2> HIDE DEF R
  <2>1. Fits(t, R)
    BY <1>4
  <2> QED BY <1>4, <1>5, <2>1, MarkRow, SMTT(30)
<1>7. Only(k, r, t)
  BY <1>3, <1>6, OnlyTrans
<1>8. r.run = k.run
  BY <1>7 DEF Only, SameControl
<1>9. Placed(r, t) /\ SameWaits(k, r, t) /\ Kept(k, r, t) /\ "RUNNING" \notin r.status[t]
  <2>1. CASE Timed(S)
    <3>1. m.status[t] = S /\ m.priority[t] = k.priority[t] /\ r.status[t] = S \ {"RUNNING"}
      BY <1>3, <1>6, <2>1 DEF SameFlags
    <3>2. /\ Queues(r, t) = {} /\ SameWaits(k, r, t) /\ SamePool(k, r, t)
          /\ Contains(r.sortLink, t) /\ r.due[t] # NoTime
      BY <1>3, <1>6, <2>1 DEF SamePlace, SameQueues, SameWaits, SamePool, SameTime
    <3>3. Placed(r, t)
      BY <1>1, <1>2, <1>8, <2>1, <3>1, <3>2 DEF Placed, Timed, SameWaits, SamePool, Blocking
    <3> QED BY <3>1, <3>2, <3>3 DEF Kept
  <2>2. CASE ~Timed(S) /\ S \cap {"PEND", "SUSPEND", "EXIT"} = {}
    <3>1. r.status[t] = (S \cup {"READY"}) \ {"RUNNING"} /\ r.priority[t] = k.priority[t]
      BY <1>3, <1>6, <2>2
    <3>2. /\ Queues(r, t) = {k.priority[t]} /\ SameWaits(k, r, t) /\ SamePool(k, r, t)
          /\ SameTime(k, r, t)
      BY <1>3, <1>6, <2>2 DEF SamePlace, SameQueues, SameWaits, SamePool, SameTime
    <3>3. /\ r.status[t] \cap (Blocking \cup {"RUNNING", "PEND_TIME"}) = {}
          /\ {"READY", "STACK_FREE"} \subseteq r.status[t]
      <4>1. r.status[t] \cap {"RUNNING", "PEND", "SUSPEND", "EXIT", "DELAY"} = {}
        BY <2>2, <3>1 DEF Timed
      <4>2. r.status[t] \cap {"UNUSED", "PEND_TIME"} = {}
        <5>1. "PEND_TIME" \notin S /\ "UNUSED" \notin S
          BY <1>1, <2>2 DEF Timed
        <5> QED BY <3>1, <5>1
      <4>3. {"READY", "STACK_FREE"} \subseteq r.status[t]
        BY <1>1, <1>2, <3>1
      <4> QED BY <4>1, <4>2, <4>3 DEF Blocking
    <3>4. /\ Waits(r, t) = {} /\ ~Contains(r.free, t) /\ ~Contains(r.recycle, t)
          /\ ~Contains(r.sortLink, t)
      BY <1>1, <1>2, <2>2, <3>2 DEF Placed, SameWaits, SamePool, SameTime
    <3>5. Placed(r, t)
      BY <3>1, <3>2, <3>3, <3>4 DEF Placed, Blocking
    <3> QED BY <3>1, <3>2, <3>5 DEF Kept
  <2>3. CASE ~Timed(S) /\ S \cap {"PEND", "SUSPEND", "EXIT"} # {}
    <3>1. r.status[t] = S \ {"RUNNING"} /\ r.priority[t] = k.priority[t]
      BY <1>3, <1>6, <2>3 DEF SameRow, SameFlags
    <3>2. SameQueues(k, r, t) /\ SameWaits(k, r, t) /\ SamePool(k, r, t) /\ SameTime(k, r, t)
      BY <1>3, <1>6, <2>3 DEF SameRow, SamePlace, SameQueues, SameWaits, SamePool, SameTime
    <3>3. Placed(r, t)
      BY <1>1, <1>2, <1>8, <2>3, <3>1, <3>2
         DEF Placed, Timed, SameQueues, SameWaits, SamePool, SameTime, Blocking
    <3> QED BY <3>1, <3>2, <3>3 DEF Kept
  <2> QED BY <2>1, <2>2, <2>3
<1> QED BY <1>4, <1>7, <1>9

\* Whoever is switched out, nobody runs, and everybody is on the right lists.
LEMMA PutBackSound ==
    ASSUME NEW k, WellFormed(k), Sound(k), NEW t, t = k.run,
           NEW m, m = PutBack(k), NEW r, r = Mark(m, t, m.status[t] \ {"RUNNING"})
    PROVE  /\ WellFormed(r) /\ Tidy(r) /\ r.lock = k.lock /\ ~m.panic /\ ~r.panic
           /\ r.ready = m.ready /\ r.queueBitmap = m.queueBitmap
           /\ NobodyRuns(r) /\ \A x \in Task : Placed(r, x)
           /\ \A x \in Task : SameWaits(k, r, x)
           /\ \A x \in Task : r.status[x] = k.status[x] \/ (x = t /\ Kept(k, r, x))
<1>0. /\ t \in TCB /\ ~k.panic /\ SpecialTasks(k) /\ Tidy(k) /\ WellFormed(m)
      /\ Idle \notin Task /\ Boot \notin Task /\ Idle # Boot
  BY SchedAssumption, PutBackKeeps, KeepsWellFormed DEF WellFormed, SchedState, Sound, Runs
<1>1. r.ready = m.ready /\ r.queueBitmap = m.queueBitmap
  BY <1>0 DEF Mark, WellFormed, SchedState
<1>2. CASE t \in Task
  <2>1. /\ Only(k, r, t) /\ Placed(r, t) /\ ~m.panic
        /\ SameWaits(k, r, t) /\ Kept(k, r, t) /\ "RUNNING" \notin r.status[t]
    BY <1>2, PutBackTask
  <2>2. /\ WellFormed(r) /\ Tidy(r) /\ r.lock = k.lock /\ ~r.panic /\ r.run = k.run
        /\ \A x \in Task : x # t => SameRow(k, r, x)
        /\ r.status[Idle] = k.status[Idle]
    BY <1>0, <1>2, <2>1 DEF Only, SameControl
  <2>3. \A x \in Task : Placed(r, x)
    BY <2>1, <2>2, SamePlaced DEF Sound
  <2>4. NobodyRuns(r)
    <3>1. \A x \in Task : "RUNNING" \in r.status[x] => Contains(r.recycle, x)
      <4>1. \A x \in Task : x # t /\ "RUNNING" \in r.status[x] => Contains(r.recycle, x)
        BY <2>2, <2>3 DEF Placed
      <4> QED BY <2>1, <4>1
    <3>2. "RUNNING" \notin k.status[Idle]
      BY <1>0, <1>2 DEF Sound, Runs
    <3> QED BY <2>2, <3>1, <3>2 DEF NobodyRuns
  <2> QED BY <1>1, <2>1, <2>2, <2>3, <2>4 DEF SameRow, SameFlags
<1>3. CASE t = Idle
  <2> DEFINE R == m.status[t] \ {"RUNNING"}
  <2>1. m = OsSchedTaskEnQueue(k, t) /\ "READY" \notin k.status[t]
    <3>1. k.status[t] \subseteq {"READY", "RUNNING", "STACK_FREE"}
      BY <1>0, <1>3 DEF SpecialTasks
    <3>2. "READY" \notin k.status[t]
      BY <1>0, <1>3 DEF Sound, Runs
    <3> QED BY <3>1, <3>2 DEF PutBack, Has, OS_TASK_BLOCKED_STATUS
  <2>2. Only(k, m, t) /\ WellFormed(m) /\ Tidy(m)
    BY <1>0, <1>3, <2>1, EnQueueIdle, OnlyType
  <2>3. Fits(t, R)
    BY <1>0, <1>3, <2>2 DEF Fits, WellFormed, SchedState, SpecialTasks
  <2> HIDE DEF R
  <2>4. Only(m, r, t) /\ r.status[t] = R
    BY <1>3, <2>2, <2>3, MarkRow DEF R
  <2>5. Only(k, r, t)
    BY <2>2, <2>4, OnlyTrans
  <2>6. /\ WellFormed(r) /\ Tidy(r) /\ r.lock = k.lock /\ ~r.panic /\ r.run = k.run /\ ~m.panic
        /\ \A x \in Task : SameRow(k, r, x)
    BY <1>0, <1>3, <2>2, <2>5 DEF Only, SameControl
  <2>7. \A x \in Task : Placed(r, x)
    BY <2>6, SamePlaced DEF Sound
  <2>8. NobodyRuns(r)
    <3>1. \A x \in Task : "RUNNING" \in r.status[x] => Contains(r.recycle, x)
      <4>1. r.run \notin Task
        BY <1>0, <1>3, <2>6
      <4> QED BY <2>7, <4>1 DEF Placed
    <3>2. "RUNNING" \notin r.status[Idle]
      BY <1>3, <2>4 DEF R
    <3> QED BY <3>1, <3>2 DEF NobodyRuns
  <2> QED BY <1>1, <2>6, <2>7, <2>8 DEF SameRow, SameFlags
<1>4. CASE t = Boot
  <2> DEFINE R == m.status[t] \ {"RUNNING"}
  <2>1. m = k
    BY <1>0, <1>4 DEF PutBack, Has, OS_TASK_BLOCKED_STATUS, SpecialTasks
  <2>2. Fits(t, R)
    BY <1>0, <1>4 DEF Fits, WellFormed, SchedState, SpecialTasks
  <2> HIDE DEF R
  <2>3. WellFormed(r)
    BY <1>0, <2>2, StatusKeeps, KeepsWellFormed DEF Mark, R
  <2>4. /\ SameLists(k, r) /\ r.priority = k.priority /\ r.run = k.run /\ r.lock = k.lock
        /\ ~r.panic /\ r.status = [k.status EXCEPT ![t] = R]
    BY <1>0, <2>1 DEF Mark, R, WellFormed, SchedState, SameLists
  <2>5. \A x \in Task \cup {Idle} : r.status[x] = k.status[x]
    <3>1. k.status \in [TCB -> SUBSET Flag] /\ t \notin Task \cup {Idle}
      BY <1>0, <1>4 DEF WellFormed, SchedState
    <3> QED BY <2>4, <3>1 DEF TCB
  <2>6. /\ Tidy(r)
        /\ \A x : SameQueues(k, r, x) /\ SameWaits(k, r, x) /\ SamePool(k, r, x) /\ SameTime(k, r, x)
    BY <1>0, <2>4, FlagsRow
  <2>7. \A x \in Task : Placed(r, x)
    BY <2>4, <2>5, <2>6, SamePlaced DEF Sound, SameRow, SameFlags
  <2>8. NobodyRuns(r)
    <3>1. \A x \in Task : "RUNNING" \in r.status[x] => Contains(r.recycle, x)
      <4>1. r.run \notin Task
        BY <1>0, <1>4, <2>4
      <4> QED BY <2>7, <4>1 DEF Placed
    <3>2. "RUNNING" \notin k.status[Idle]
      BY <1>0, <1>4 DEF Sound, Runs
    <3> QED BY <2>5, <3>1, <3>2 DEF NobodyRuns
  <2> HIDE DEF R
  <2> QED BY <1>0, <1>1, <2>1, <2>3, <2>4, <2>5, <2>6, <2>7, <2>8
<1> QED BY <1>0, <1>2, <1>3, <1>4 DEF TCB

\* OsTimeSliceUpdate changes time slices only.
LEMMA TimeSliceSame ==
    ASSUME NEW k, WellFormed(k), NEW used \in Nat
    PROVE  LET u == OsTimeSliceUpdate(k, used) IN
           /\ WellFormed(u) /\ SameLists(k, u) /\ u.status = k.status /\ u.priority = k.priority
           /\ u.run = k.run /\ u.started = k.started /\ u.panic = k.panic /\ u.lock = k.lock
           /\ u.pendSV = k.pendSV
<1> DEFINE u == OsTimeSliceUpdate(k, used)
<1>1. WellFormed(u)
  BY TimeSliceUpdateKeeps, KeepsWellFormed
<1> QED BY <1>1 DEF OsTimeSliceUpdate, WellFormed, SchedState, SameLists

\* The top task depends on the ready queues and the bitmap.
LEMMA SameTop ==
    ASSUME NEW m, NEW r, r.ready = m.ready, r.queueBitmap = m.queueBitmap
    PROVE  OsGetTopTask(r) = OsGetTopTask(m)
  BY DEF OsGetTopTask

\* The context switch: the task that runs goes to the list that its status has
\* it on, and the top task leaves its queue.
LEMMA PendSVSafe == ASSUME TaskInv, ControlInv, SafeInv, PendSV PROVE SafeInv'
<1>1. PICK used \in 0 .. 1 : kernel' = OsSchedTaskSwitch(OsTimeSliceUpdate(kernel, used))
  BY DEF PendSV
<1>2. WellFormed(kernel) /\ Sound(kernel) /\ kernel.lock = 0
  BY InvWellFormed DEF SafeInv, PendSV, ControlInv
<1> DEFINE u == OsTimeSliceUpdate(kernel, used)
           m == PutBack(u)
           r == Mark(m, u.run, m.status[u.run] \ {"RUNNING"})
           n == OsGetTopTask(m)
           d == Given(r, n)
<1>3. /\ WellFormed(u) /\ SameLists(kernel, u) /\ u.status = kernel.status
      /\ u.priority = kernel.priority /\ u.run = kernel.run /\ u.started = kernel.started
      /\ u.panic = kernel.panic /\ u.lock = 0
  BY <1>2, TimeSliceSame
<1>4. kernel' = IF m.panic THEN m ELSE [d EXCEPT !.pendSV = FALSE]
  BY <1>1 DEF OsSchedTaskSwitch, Given, Mark
<1> HIDE DEF u
<1>5. Sound(u) /\ \A x \in Task : SameWaits(kernel, u, x)
  BY <1>2, <1>3, SoundSame DEF Sound, Runs
<1> DEFINE t == kernel.run
<1>6. /\ WellFormed(r) /\ Tidy(r) /\ r.lock = 0 /\ ~m.panic /\ ~r.panic
      /\ r.ready = m.ready /\ r.queueBitmap = m.queueBitmap
      /\ NobodyRuns(r) /\ \A x \in Task : Placed(r, x)
      /\ \A x \in Task : SameWaits(u, r, x)
      /\ \A x \in Task : r.status[x] = u.status[x] \/ (x = u.run /\ Kept(u, r, x))
  <2>1. u.run \in TCB /\ m = PutBack(u) /\ r = Mark(m, u.run, m.status[u.run] \ {"RUNNING"})
    BY <1>3 DEF WellFormed, SchedState
  <2> HIDE DEF m, r
  <2> QED BY <1>3, <1>5, <2>1, PutBackSound
<1> HIDE DEF m, r
<1>7. OsGetTopTask(r) = n
  BY <1>6, SameTop
<1> HIDE DEF n
<1>8. WellFormed(d)
  <2>1. n \in Task \cup {Idle}
    BY <1>6, <1>7, TopTaskType
  <2>2. n \in Task => Queues(r, n) = IF "READY" \in r.status[n] THEN {r.priority[n]} ELSE {}
    BY <1>6 DEF Placed
  <2> QED BY <1>6, <2>1, <2>2, GiveRow
<1> HIDE DEF d
<1>9. /\ SameLists(d, kernel') /\ kernel'.status = d.status /\ kernel'.priority = d.priority
      /\ kernel'.run = d.run /\ kernel'.lock = d.lock /\ kernel'.panic = d.panic
  BY <1>4, <1>6, <1>8 DEF SameLists, WellFormed, SchedState
<1>10. /\ Sound(kernel') /\ kernel'.run = n /\ kernel'.lock = 0
       /\ \A x \in Task : SameWaits(r, kernel', x)
       /\ \A x \in Task : x # n => kernel'.status[x] = r.status[x]
       /\ n \in Task => /\ "READY" \in r.status[n]
                        /\ kernel'.status[n] = (r.status[n] \cup {"RUNNING"}) \ {"READY"}
  BY <1>6, <1>7, <1>9, GiveSound DEF d
<1>11. \A x \in Task : SameWaits(kernel, kernel', x)
  BY <1>5, <1>6, <1>10 DEF SameWaits
<1>12. SwitchComes'
  <2>1. n \in Task => r.status[n] \cap Blocking = {}
    BY <1>6, <1>10 DEF Placed
  <2>2. n \in Task => kernel'.status[n] \cap Blocking = {}
    BY <1>10, <2>1 DEF Blocking
  <2> QED BY <1>10, <2>2 DEF SwitchComes
<1>13. ASSUME NEW x \in Task
       PROVE  \/ kernel'.status[x] = kernel.status[x]
              \/ NotNew(x) /\ Kept(kernel, kernel', x)
  <2>1. r.status[x] = kernel.status[x] \/ (x = kernel.run /\ Kept(kernel, r, x))
    BY <1>3, <1>6 DEF Kept
  <2>2. x = kernel.run => NotNew(x)
    BY <1>2 DEF NotNew, Sound, Runs
  <2>3. CASE x # n
    <3>1. kernel'.status[x] = r.status[x]
      BY <1>10, <2>3
    <3> QED BY <2>1, <2>2, <3>1 DEF Kept
  <2>4. CASE x = n
    <3>1. Kept(r, kernel', x) /\ "READY" \in r.status[x]
      BY <1>10, <2>4 DEF Kept
    <3>2. Kept(kernel, kernel', x)
      BY <2>1, <3>1 DEF Kept
    <3>3. NotNew(x)
      BY <2>1, <2>2, <3>1 DEF NotNew
    <3> QED BY <3>2, <3>3
  <2> QED BY <2>3, <2>4
<1>14. SameCalls
  BY UnchangedCalls DEF PendSV
<1> QED BY <1>10, <1>11, <1>12, <1>13, <1>14, MildStep

\* LOS_Start gives the processor to the first task.
LEMMA StartSafe == ASSUME TaskInv, ControlInv, SafeInv, Start PROVE SafeInv'
<1> DEFINE n == OsGetTopTask(kernel)
           d == Given(kernel, n)
<1>1. kernel' = [d EXCEPT !.started = TRUE]
  BY DEF Start, OsSchedStart, Given
<1>2. /\ WellFormed(kernel) /\ Sound(kernel) /\ kernel.lock = 0 /\ kernel.run = Boot
      /\ ~kernel.panic /\ Tidy(kernel) /\ \A x \in Task : Placed(kernel, x)
  BY InvWellFormed DEF SafeInv, Start, ControlInv, Thread, Sound
<1>3. NobodyRuns(kernel)
  BY <1>2, SchedAssumption DEF NobodyRuns, Sound, Runs, Placed
<1>4. WellFormed(d)
  <2>1. n \in Task \cup {Idle}
    BY <1>2, TopTaskType
  <2>2. n \in Task => Queues(kernel, n) = IF "READY" \in kernel.status[n] THEN {kernel.priority[n]} ELSE {}
    BY <1>2 DEF Placed
  <2> HIDE DEF n
  <2> QED BY <1>2, <2>1, <2>2, GiveRow
<1> HIDE DEF d
<1>5. /\ SameLists(d, kernel') /\ kernel'.status = d.status /\ kernel'.priority = d.priority
      /\ kernel'.run = d.run /\ kernel'.lock = d.lock /\ kernel'.panic = d.panic
  BY <1>1, <1>4 DEF SameLists, WellFormed, SchedState
<1>6. /\ Sound(kernel') /\ kernel'.run = n /\ kernel'.lock = 0
      /\ \A x \in Task : SameWaits(kernel, kernel', x)
      /\ \A x \in Task : x # n => kernel'.status[x] = kernel.status[x]
      /\ n \in Task => /\ "READY" \in kernel.status[n]
                       /\ kernel'.status[n] = (kernel.status[n] \cup {"RUNNING"}) \ {"READY"}
  <2> HIDE DEF n
  <2>1. d = Given(kernel, n) /\ n = OsGetTopTask(kernel)
    BY DEF d, n
  <2> QED BY <1>2, <1>3, <1>5, <2>1, GiveSound
<1> HIDE DEF n
<1>7. SwitchComes'
  <2>1. n \in Task => kernel.status[n] \cap Blocking = {}
    BY <1>2, <1>6 DEF Placed
  <2>2. n \in Task => kernel'.status[n] \cap Blocking = {}
    BY <1>6, <2>1 DEF Blocking
  <2> QED BY <1>6, <2>2 DEF SwitchComes
<1>8. \A x \in Task : kernel'.status[x] = kernel.status[x] \/ (NotNew(x) /\ Kept(kernel, kernel', x))
  BY <1>6 DEF NotNew, Kept
<1>9. SameCalls
  BY UnchangedCalls DEF Start
<1> QED BY <1>6, <1>7, <1>8, <1>9, MildStep

-----------------------------------------------------------------------------
(* Steps that move nobody.                                                 *)

\* The running task goes on as it was.
LEMMA StillComes ==
    ASSUME SafeInv, kernel'.run = kernel.run, kernel'.lock = kernel.lock,
           kernel.pendSV => kernel'.pendSV,
           kernel.run \in Task => kernel'.status[kernel.run] = kernel.status[kernel.run],
           todo' = todo
    PROVE  SwitchComes'
  BY DEF SafeInv, SwitchComes

\* The running task is not blocked.
LEMMA NothingToCome ==
    ASSUME kernel'.run \in Task => kernel'.status[kernel'.run] \cap Blocking = {}
    PROVE  SwitchComes'
  BY DEF SwitchComes

\* Neither the lists nor the flags change.
LEMMA CalmStep ==
    ASSUME TaskInv, SafeInv, SameLists(kernel, kernel'), kernel'.status = kernel.status,
           kernel'.priority = kernel.priority, kernel'.run = kernel.run,
           kernel'.started = kernel.started, kernel'.panic = kernel.panic,
           kernel'.lock = kernel.lock \/ kernel.run \in Task,
           SameCalls, SwitchComes'
    PROVE  SafeInv'
<1>1. kernel'.started /\ kernel'.run = Boot => kernel'.lock = 0
  BY SchedAssumption DEF SafeInv, Sound, Runs
<1>2. Sound(kernel') /\ \A x \in Task : SameWaits(kernel, kernel', x)
  BY <1>1, SoundSame DEF SafeInv
<1> QED BY <1>2, MildStep

\* The tick handler begins.
LEMMA TickStartSafe == ASSUME TaskInv, SafeInv, TickStart PROVE SafeInv'
<1>1. WellFormed(kernel) /\ WellFormed(kernel')
  <2>1. TaskInv'
    BY TimerStepKeeps DEF TimerStep
  <2> QED BY <2>1, InvWellFormed DEF TaskInv, TaskTypeOK, WellFormed, BitmapMatchesQueues
<1>2. /\ kernel'.ready = kernel.ready /\ kernel'.pend = kernel.pend /\ kernel'.free = kernel.free
      /\ kernel'.recycle = kernel.recycle /\ kernel'.sortLink = kernel.sortLink
      /\ kernel'.due = Elapse(kernel).due /\ kernel'.status = kernel.status
      /\ kernel'.priority = kernel.priority /\ kernel'.run = kernel.run
      /\ kernel'.started = kernel.started /\ kernel'.panic = kernel.panic
      /\ kernel'.lock = kernel.lock /\ kernel'.pendSV = kernel.pendSV
  BY <1>1 DEF TickStart, Elapse, WellFormed, SchedState
<1>3. Sound(kernel') /\ \A x \in Task : SameWaits(kernel, kernel', x)
  BY <1>1, <1>2, ElapseSound DEF SafeInv
<1>4. SameCalls
  BY UnchangedCalls DEF TickStart
<1>5. SwitchComes'
  BY <1>2, StillComes DEF TickStart
<1> QED BY <1>2, <1>3, <1>4, <1>5, MildStep

\* OsSchedScanTimerList takes the first task that is due off the sort link, and
\* off the list that it waits on.
LEMMA TickScanSafe == ASSUME TaskInv, SafeInv, TickScan PROVE SafeInv'
<1> DEFINE t == Head(kernel.sortLink)
<1>1. WellFormed(kernel) /\ Tidy(kernel) /\ \A x \in Task : Placed(kernel, x)
  BY InvWellFormed DEF SafeInv, Sound
<1>2. t \in Task /\ Contains(kernel.sortLink, t)
  <2>1. kernel.sortLink \in Seq(Task) /\ kernel.sortLink # <<>>
    BY <1>1 DEF WellFormed, SchedState, TickScan, Expired
  <2> QED BY <2>1, EmptyList
<1>3. kernel' = OsSchedWakePendTimeTask(OsDeleteNodeSortLink(kernel, t), t)
  BY DEF TickScan
<1> HIDE DEF t
<1>4. /\ Only(kernel, kernel', t) /\ Placed(kernel', t) /\ Waits(kernel', t) = {}
      /\ SameLife(kernel, kernel', t) /\ "RUNNING" \notin kernel.status[t]
      /\ Waits(kernel, t) # {} => "PEND_TIME" \in kernel.status[t]
  BY <1>1, <1>2, <1>3, WakePendTimeRow
<1>5. t # kernel.run
  BY <1>2, <1>4 DEF SafeInv, Sound, Runs
<1>6. NotNew(t)
  <2>1. "DELAY" \in kernel.status[t] \/ "PEND_TIME" \in kernel.status[t]
    BY <1>1, <1>2 DEF Placed
  <2> QED BY <2>1 DEF NotNew
<1>9. SameJoins(kernel, kernel', t)
  <2>1. Waits(kernel, t) \cap Task = {}
    BY <1>2, <1>4 DEF SafeInv, JoinInv
  <2> QED BY <1>4, <2>1 DEF SameJoins
<1>7. SameCalls
  BY UnchangedCalls DEF TickScan
<1>8. SwitchComes'
  <2>1. /\ SameControl(kernel, kernel')
        /\ \A x \in Task : x # t => kernel'.status[x] = kernel.status[x]
    BY <1>4 DEF Only, SameRow, SameFlags
  <2> QED BY <1>5, <2>1, StillComes DEF TickScan, SameControl
<1> QED BY <1>2, <1>4, <1>5, <1>6, <1>7, <1>8, <1>9, MoveStep

\* The end of a tick, or of a slice, asks for a switch.
LEMMA SliceSafe ==
    ASSUME TaskInv, SafeInv, NEW used \in Nat, NEW b \in BOOLEAN,
           kernel' = LOS_Schedule([OsTimeSliceUpdate(kernel, used) EXCEPT !.tick = b]),
           UNCHANGED <<todo, arg, handles>>
    PROVE  SafeInv'
<1> DEFINE u == OsTimeSliceUpdate(kernel, used)
           m == [u EXCEPT !.tick = b]
<1>1. WellFormed(kernel)
  BY InvWellFormed
<1>2. /\ WellFormed(u) /\ SameLists(kernel, u) /\ u.status = kernel.status
      /\ u.priority = kernel.priority /\ u.run = kernel.run /\ u.started = kernel.started
      /\ u.panic = kernel.panic /\ u.lock = kernel.lock /\ u.pendSV = kernel.pendSV
  BY <1>1, TimeSliceSame
<1> HIDE DEF u
<1>3. /\ WellFormed(m) /\ SameLists(kernel, m) /\ m.status = kernel.status
      /\ m.priority = kernel.priority /\ m.run = kernel.run /\ m.started = kernel.started
      /\ m.panic = kernel.panic /\ m.lock = kernel.lock /\ m.pendSV = kernel.pendSV
  BY <1>2 DEF WellFormed, SchedState, SpecialTasks, BitmapMatches, SameLists
<1>4. kernel' = LOS_Schedule(m)
  BY DEF u
<1> HIDE DEF m
<1>5. /\ SameLists(kernel, kernel') /\ kernel'.status = kernel.status
      /\ kernel'.priority = kernel.priority /\ kernel'.run = kernel.run
      /\ kernel'.started = kernel.started /\ kernel'.panic = kernel.panic
      /\ kernel'.lock = kernel.lock /\ (kernel.pendSV => kernel'.pendSV)
  BY <1>3, <1>4, AskSame DEF SameLists
<1>6. SameCalls
  BY UnchangedCalls
<1>7. SwitchComes'
  BY <1>5, StillComes
<1> QED BY <1>5, <1>6, <1>7, CalmStep

\* The scan of the sort link is over.
LEMMA TickEndSafe == ASSUME TaskInv, SafeInv, TickEnd PROVE SafeInv'
<1>1. PICK used \in 0 .. 1 :
        kernel' = LOS_Schedule([OsTimeSliceUpdate(kernel, used) EXCEPT !.tick = FALSE])
  BY DEF TickEnd
<1>2. used \in Nat /\ UNCHANGED <<todo, arg, handles>>
  BY DEF TickEnd
<1> QED BY <1>1, <1>2, SliceSafe

\* A used-up time slice asks for a switch.
LEMMA SliceEndSafe == ASSUME TaskInv, SafeInv, SliceEnd PROVE SafeInv'
<1> DEFINE used == kernel.timeSlice[kernel.run]
           u == OsTimeSliceUpdate(kernel, used)
<1>1. WellFormed(kernel)
  BY InvWellFormed
<1>2. used \in Nat
  BY <1>1 DEF WellFormed, SchedState
<1>3. u = [u EXCEPT !.tick = kernel.tick] /\ kernel.tick \in BOOLEAN
  <2>1. u.tick = kernel.tick /\ kernel.tick \in BOOLEAN /\ u \in SchedState
    <3>1. WellFormed(u)
      BY <1>1, <1>2, TimeSliceSame
    <3> QED BY <1>1, <3>1 DEF OsTimeSliceUpdate, WellFormed, SchedState
  <2> HIDE DEF u
  <2> QED BY <2>1 DEF SchedState
<1>4. kernel' = LOS_Schedule([u EXCEPT !.tick = kernel.tick]) /\ UNCHANGED <<todo, arg, handles>>
  BY <1>3 DEF SliceEnd
<1> HIDE DEF used
<1> QED BY <1>2, <1>3, <1>4, SliceSafe

-----------------------------------------------------------------------------
(* The interrupts that suspend and resume.                                 *)

\* What the invariant says of the kernel.
LEMMA SafeKernel ==
    ASSUME TaskInv, SafeInv
    PROVE  /\ WellFormed(kernel) /\ Tidy(kernel) /\ Sound(kernel) /\ ~kernel.panic
           /\ \A x \in Task : Placed(kernel, x)
  BY InvWellFormed DEF SafeInv, Sound, Runs

\* LOS_TaskResume on a task that the application may resume.
LEMMA ResumedRow ==
    ASSUME Unprotected = {}, TaskInv, SafeInv, NEW x \in Task, MayResume(x), x # kernel.run,
           NEW m, m = OsSchedResume(kernel, x)
    PROVE  /\ Only(kernel, m, x) /\ Placed(m, x) /\ SameWaits(kernel, m, x)
           /\ SameLife(kernel, m, x) /\ NotNew(x)
<1>1. /\ Created(x) /\ Named(x) /\ "SUSPEND" \in kernel.status[x]
      /\ "EXIT" \notin kernel.status[x]
  BY DEF MayResume, Has
<1>2. /\ NotNew(x) /\ "UNUSED" \notin kernel.status[x]
      /\ "STACK_FREE" \in kernel.status[x] /\ "RUNNING" \notin kernel.status[x]
  BY <1>1, NamedFree
<1> QED BY <1>1, <1>2, SafeKernel, ResumeRow

\* LOS_TaskSuspend on a task that the application may suspend.
LEMMA SuspendedRow ==
    ASSUME Unprotected = {}, TaskInv, SafeInv, NEW x \in Task, MaySuspend(x),
           NEW m, m = OsSchedSuspend(kernel, x)
    PROVE  /\ Only(kernel, m, x) /\ Placed(m, x) /\ SameWaits(kernel, m, x)
           /\ SameLife(kernel, m, x) /\ NotNew(x) /\ "READY" \notin m.status[x]
           /\ x = kernel.run => kernel.lock = 0
<1>1. /\ NotNew(x) /\ "UNUSED" \notin kernel.status[x]
  BY NamedFree DEF MaySuspend
<1>2. x = kernel.run => kernel.lock = 0
  BY DEF MaySuspend, Has, SafeInv, Sound, Runs
<1> QED BY <1>1, <1>2, SafeKernel, SuspendRow

\* An interrupt that moves a task, and may ask for a switch.
LEMMA IsrMoveSafe ==
    ASSUME TaskInv, SafeInv, NEW x \in Task, NEW m,
           Only(kernel, m, x), Placed(m, x), SameWaits(kernel, m, x), SameLife(kernel, m, x),
           NotNew(x), x = kernel.run => "READY" \notin m.status[x],
           kernel' = m \/ kernel' = LOS_Schedule(m),
           x = kernel.run => kernel.started /\ kernel.lock = 0 /\ kernel' = LOS_Schedule(m),
           UNCHANGED <<todo, arg, handles>>
    PROVE  SafeInv'
<1>1. /\ WellFormed(m) /\ m.run = kernel.run /\ m.lock = kernel.lock
      /\ m.started = kernel.started /\ m.pendSV = kernel.pendSV
      /\ \A z \in Task : z # x => m.status[z] = kernel.status[z]
  BY DEF Only, SameControl, SameRow, SameFlags
<1>2. /\ kernel'.status = m.status /\ kernel'.run = m.run /\ kernel'.lock = m.lock
      /\ m.pendSV => kernel'.pendSV
      /\ kernel' = LOS_Schedule(m) /\ m.started /\ m.lock = 0 => kernel'.pendSV
  BY <1>1, AskSame
<1>3. SwitchComes'
  <2>1. CASE x = kernel.run
    BY <1>1, <1>2, <2>1 DEF SwitchComes
  <2>2. CASE x # kernel.run
    BY <1>1, <1>2, <2>2, StillComes
  <2> QED BY <2>1, <2>2
<1>4. SameCalls
  BY UnchangedCalls
<1> QED BY <1>3, <1>4, WaitsStay, MoveStep

\* LOS_TaskResume and LOS_TaskSuspend in an interrupt.
LEMMA IsrSafe ==
    ASSUME Unprotected = {}, TaskInv, SafeInv, NEW x \in Task, IsrTaskResume(x) \/ IsrTaskSuspend(x)
    PROVE  SafeInv'
<1>0. UNCHANGED <<todo, arg, handles>> /\ kernel.started
  BY DEF IsrTaskResume, IsrTaskSuspend, Interrupt
<1>1. CASE IsrTaskResume(x)
  <2> DEFINE m == OsSchedResume(kernel, x)
  <2>1. MayResume(x) /\ x # kernel.run /\ (kernel' = m \/ kernel' = LOS_Schedule(m))
    BY <1>1 DEF IsrTaskResume
  <2> HIDE DEF m
  <2>2. /\ Only(kernel, m, x) /\ Placed(m, x) /\ SameWaits(kernel, m, x)
        /\ SameLife(kernel, m, x) /\ NotNew(x)
    BY <2>1, ResumedRow DEF m
  <2> QED BY <1>0, <2>1, <2>2, IsrMoveSafe
<1>2. CASE IsrTaskSuspend(x)
  <2> DEFINE m == OsSchedSuspend(kernel, x)
  <2>1. /\ MaySuspend(x) /\ (kernel' = m \/ kernel' = LOS_Schedule(m))
        /\ x = kernel.run => kernel' = LOS_Schedule(m)
    BY <1>2 DEF IsrTaskSuspend
  <2> HIDE DEF m
  <2>2. /\ Only(kernel, m, x) /\ Placed(m, x) /\ SameWaits(kernel, m, x)
        /\ SameLife(kernel, m, x) /\ NotNew(x) /\ "READY" \notin m.status[x]
        /\ x = kernel.run => kernel.lock = 0
    BY <2>1, SuspendedRow DEF m
  <2> QED BY <1>0, <2>1, <2>2, IsrMoveSafe
<1> QED BY <1>1, <1>2

-----------------------------------------------------------------------------
(* The calls of a task that begin and end nobody.                          *)

\* What a critical section of a call may be followed by.
LEMMA RestSteps ==
    ASSUME NEW s \in Rest, s # <<>>
    PROVE  /\ Head(s) = "recycle" => s = <<"recycle", "take">> /\ Tail(s) = <<"take">>
           /\ Head(s) = "take" => s = <<"take">> /\ Tail(s) = <<>>
           /\ Head(s) = "enqueue" => s = <<"enqueue">>
           /\ Head(s) = "noStack" => s = <<"noStack">> /\ Tail(s) = <<>>
           /\ Head(s) = "schedule" => \/ s = <<"schedule">> /\ Tail(s) = <<>>
                                      \/ s = <<"schedule", "joinReclaim">> /\ Tail(s) = <<"joinReclaim">>
                                      \/ s = <<"schedule", "result">> /\ Tail(s) = <<"result">>
           /\ Head(s) = "joinReclaim" => s = <<"joinReclaim">> /\ Tail(s) = <<>>
           /\ Head(s) = "join" => s = <<"join">>
           /\ Head(s) = "result" => s = <<"result">>
           /\ Head(s) = "eventRead" => s = <<"eventRead">>
           /\ Head(s) = "eventWrite" => s = <<"eventWrite">>
<1>1. CASE s = <<"recycle", "take">>
  BY <1>1
<1>2. CASE s = <<"take">>
  BY <1>2
<1>3. CASE s = <<"enqueue">>
  BY <1>3
<1>4. CASE s = <<"noStack">>
  BY <1>4
<1>5. CASE s = <<"schedule">>
  BY <1>5
<1>6. CASE s = <<"schedule", "joinReclaim">>
  BY <1>6
<1>7. CASE s = <<"joinReclaim">>
  BY <1>7
<1>8. CASE s = <<"join">>
  BY <1>8
<1>9. CASE s = <<"schedule", "result">>
  BY <1>9
<1>10. CASE s = <<"result">>
  BY <1>10
<1>11. CASE s = <<"eventRead">>
  BY <1>11
<1>12. CASE s = <<"eventWrite">>
  BY <1>12
<1> QED BY <1>1, <1>2, <1>3, <1>4, <1>5, <1>6, <1>7, <1>8, <1>9, <1>10, <1>11, <1>12 DEF Rest

\* The next part of a call is done: what is left is the tail.
LEMMA TailStep ==
    ASSUME TaskInv, NEW t \in TCB, NEW k, Continue(t, k)
    PROVE  /\ kernel' = k /\ todo' = [todo EXCEPT ![t] = Tail(todo[t])]
           /\ arg' = [arg EXCEPT ![t] = IF Tail(todo[t]) = <<>> THEN NoArg ELSE arg[t]]
           /\ handles' = handles /\ todo'[t] = Tail(todo[t])
           /\ \A u \in TCB : u # t => todo'[u] = todo[u] /\ arg'[u] = arg[u]
           /\ arg'[t] = IF Tail(todo[t]) = <<>> THEN NoArg ELSE arg[t]
  BY DEF Continue, Call, TaskInv, TaskTypeOK

\* LOS_TaskCreate or LOS_TaskCreateOnly begins: nothing is done yet.
LEMMA CreateSafe ==
    ASSUME TaskInv, SafeInv, NEW t \in TCB, TaskCreate(t)
    PROVE  SafeInv'
<1>1. /\ Thread(t) /\ todo[t] = <<>> /\ Call(t, kernel, <<"recycle", "take">>, NoArg)
  BY DEF TaskCreate, App
<1>2. SameCalls /\ kernel' = kernel
  BY <1>1, AppCalls DEF Plain
<1>3. kernel.run \in Task => kernel.status[kernel.run] \cap Blocking = {}
  <2>1. t = kernel.run
    BY <1>1 DEF Thread
  <2> QED BY <1>1, <2>1, ThreadFree
<1>4. SwitchComes'
  BY <1>2, <1>3, NothingToCome
<1> QED BY <1>2, <1>4, CalmStep DEF SameLists

\* There is nothing to recycle, or no TCB is free.
LEMMA NoTcbSafe ==
    ASSUME TaskInv, SafeInv, NEW t \in TCB, NothingToRecycle(t) \/ NoTcb(t)
    PROVE  SafeInv'
<1>1. /\ Thread(t) /\ todo[t] # <<>> /\ Continue(t, kernel)
      /\ Head(todo[t]) = "recycle" \/ Head(todo[t]) = "take"
  BY DEF NothingToRecycle, NoTcb, Doing
<1>2. todo[t] \in Plain /\ Tail(todo[t]) \in Plain
  <2>1. todo[t] \in Rest
    BY DEF SafeInv
  <2> QED BY <1>1, <2>1, RestSteps DEF Plain
<1>3. SameCalls /\ kernel' = kernel
  <2> DEFINE s == Tail(todo[t])
             a == IF s = <<>> THEN NoArg ELSE arg[t]
  <2>1. /\ kernel' = kernel /\ handles' = handles
        /\ todo' = [todo EXCEPT ![t] = s] /\ arg' = [arg EXCEPT ![t] = a]
    BY <1>1, TailStep
  <2> HIDE DEF a
  <2>2. s \in Plain
    BY <1>2
  <2> HIDE DEF s
  <2> QED BY <1>2, <2>1, <2>2, PlainCalls
<1>4. kernel.run \in Task => kernel.status[kernel.run] \cap Blocking = {}
  <2>1. t = kernel.run /\ Head(todo[t]) # "schedule"
    BY <1>1 DEF Thread
  <2> QED BY <1>1, <2>1, ThreadFree
<1>5. SwitchComes'
  BY <1>3, <1>4, NothingToCome
<1> QED BY <1>3, <1>5, CalmStep DEF SameLists

\* LOS_Schedule at the end of a call.
LEMMA ScheduleSafe ==
    ASSUME TaskInv, ControlInv, SafeInv, NEW t \in TCB, Schedule(t)
    PROVE  SafeInv'
<1>1. /\ t = kernel.run /\ todo[t] # <<>> /\ Head(todo[t]) = "schedule"
      /\ Continue(t, LOS_Schedule(kernel))
  BY DEF Schedule, Doing, Thread
<1>2. \/ todo[t] = <<"schedule">> /\ Tail(todo[t]) = <<>>
      \/ todo[t] = <<"schedule", "joinReclaim">> /\ Tail(todo[t]) = <<"joinReclaim">>
      \/ todo[t] = <<"schedule", "result">> /\ Tail(todo[t]) = <<"result">>
  BY <1>1, RestSteps DEF SafeInv
<1>3. /\ kernel' = LOS_Schedule(kernel) /\ handles' = handles /\ todo'[t] = Tail(todo[t])
      /\ \A u \in TCB : u # t => todo'[u] = todo[u] /\ arg'[u] = arg[u]
      /\ arg'[t] = IF Tail(todo[t]) = <<>> THEN NoArg ELSE arg[t]
  BY <1>1, TailStep
<1>4. SameCalls
  <2>1. \A u \in TCB : todo'[u] \in Rest
    BY <1>2, <1>3 DEF SafeInv, Rest
  <2>2. \A z \in Task : /\ ~Creating(t, z)' /\ (Reclaims(t, z)' <=> Reclaims(t, z))
                        /\ (Joins(t, z)' <=> Joins(t, z))
    <3>1. CASE todo[t] = <<"schedule">> /\ Tail(todo[t]) = <<>>
      BY <1>3, <3>1 DEF Creating, Reclaims, Joins
    <3>2. CASE todo[t] = <<"schedule", "joinReclaim">> /\ Tail(todo[t]) = <<"joinReclaim">>
      BY <1>3, <3>2 DEF Creating, Reclaims, Joins
    <3>3. CASE todo[t] = <<"schedule", "result">> /\ Tail(todo[t]) = <<"result">>
      BY <1>3, <3>3 DEF Creating, Reclaims, Joins
    <3> QED BY <1>2, <3>1, <3>2, <3>3
  <2>3. \A u \in TCB, z \in Task : u # t =>
           /\ Creating(u, z)' <=> Creating(u, z)
           /\ Reclaims(u, z)' <=> Reclaims(u, z)
           /\ Joins(u, z)' <=> Joins(u, z)
    BY <1>3 DEF Creating, Reclaims, Joins
  <2>4. ASSUME NEW u \in Task, NEW o \in WaitObj, o \in Waits(kernel, u)
        PROVE  Results(u, o)'
    <3>1. Results(u, o) /\ u \in TCB
      BY <2>4 DEF SafeInv, ResultInv, TCB
    <3>2. CASE u # t
      BY <1>3, <3>1, <3>2 DEF Results
    <3>3. CASE u = t
      <4>1. todo[t] = <<"schedule", "result">> /\ Tail(todo[t]) = <<"result">>
        <5>1. todo[t] = <<"schedule", "result">> \/ todo[t] = <<"result">>
          BY <3>1, <3>3 DEF Results
        <5>2. /\ <<"result">> # <<"schedule">> /\ <<"result">> # <<"schedule", "joinReclaim">>
              /\ <<"result">> # <<"schedule", "result">>
              /\ <<"schedule", "result">> # <<"schedule">>
              /\ <<"schedule", "result">> # <<"schedule", "joinReclaim">>
          OBVIOUS
        <5> QED BY <1>2, <5>1, <5>2
      <4> QED BY <1>3, <3>1, <3>3, <4>1 DEF Results
    <3> QED BY <3>2, <3>3
  <2> QED BY <1>3, <2>1, <2>2, <2>3, <2>4 DEF SameCalls
<1>5. /\ SameLists(kernel, kernel') /\ kernel'.status = kernel.status
      /\ kernel'.priority = kernel.priority /\ kernel'.run = kernel.run
      /\ kernel'.started = kernel.started /\ kernel'.panic = kernel.panic
      /\ kernel'.lock = kernel.lock
      /\ kernel.started /\ kernel.lock = 0 => kernel'.pendSV
  BY <1>3, SafeKernel, AskSame
<1>6. SwitchComes'
  <2>1. kernel.run \in Task => kernel.started
    BY SchedAssumption DEF ControlInv
  <2> QED BY <1>5, <2>1 DEF SafeInv, SwitchComes
<1> QED BY <1>4, <1>5, <1>6, CalmStep

\* LOS_TaskYield: it asks for a switch when there is another task of the
\* priority.
LEMMA YieldSafe ==
    ASSUME TaskInv, SafeInv, NEW t \in TCB, TaskYield(t)
    PROVE  SafeInv'
<1>1. App(t, "yield") /\ Call(t, OsSchedYield(kernel), <<"schedule">>, NoArg)
  BY DEF TaskYield
<1>2. /\ t = kernel.run /\ todo[t] \in Plain /\ kernel.status[t] \cap Blocking = {}
  BY <1>1, AppFree
<1>3. SameCalls /\ kernel' = OsSchedYield(kernel)
  BY <1>1, <1>2, AppCalls DEF Plain
<1>4. /\ SameLists(kernel, kernel') /\ kernel'.status = kernel.status
      /\ kernel'.priority = kernel.priority /\ kernel'.run = kernel.run
      /\ kernel'.started = kernel.started /\ kernel'.panic = kernel.panic
      /\ kernel'.lock = kernel.lock
  BY <1>3, SafeKernel DEF OsSchedYield, WellFormed, SchedState, SameLists
<1>5. SwitchComes'
  BY <1>2, <1>4, NothingToCome
<1> QED BY <1>3, <1>4, <1>5, CalmStep

\* LOS_TaskLock and LOS_TaskUnlock.
LEMMA LockSafe ==
    ASSUME TaskInv, SafeInv, NEW t \in TCB, TaskLock(t) \/ TaskUnlock(t)
    PROVE  SafeInv'
<1>1. PICK n : kernel' = [kernel EXCEPT !.lock = n]
  BY DEF TaskLock, TaskUnlock, Call
<1>2. /\ App(t, "lock") /\ t \in Task /\ t = kernel.run /\ todo[t] \in Plain
      /\ kernel.status[t] \cap Blocking = {}
  BY AppFree DEF TaskLock, TaskUnlock
<1>3. SameCalls
  <2>1. CASE TaskLock(t)
    BY <2>1, UnchangedCalls DEF TaskLock
  <2>2. CASE TaskUnlock(t)
    <3>1. PICK s \in Plain : Call(t, [kernel EXCEPT !.lock = @ - 1], s, NoArg)
      BY <2>2 DEF TaskUnlock, Plain
    <3> QED BY <1>2, <3>1, AppCalls
  <2> QED BY <2>1, <2>2
<1>4. /\ SameLists(kernel, kernel') /\ kernel'.status = kernel.status
      /\ kernel'.priority = kernel.priority /\ kernel'.run = kernel.run
      /\ kernel'.started = kernel.started /\ kernel'.panic = kernel.panic
  BY <1>1, SafeKernel DEF WellFormed, SchedState, SameLists
<1>5. SwitchComes'
  BY <1>2, <1>4, NothingToCome
<1> QED BY <1>2, <1>3, <1>4, <1>5, CalmStep

\* The running task has nothing to do with x: it is not x, or x stays free.
LEMMA OthersCome ==
    ASSUME TaskInv, SafeInv, NEW t, NEW call, App(t, call), NEW x, x # t,
           NEW m, Only(kernel, m, x), kernel' = m
    PROVE  SwitchComes'
<1>1. t = kernel.run /\ t \in Task /\ kernel.status[t] \cap Blocking = {}
  BY AppFree
<1>2. m.run = kernel.run /\ m.status[t] = kernel.status[t]
  BY <1>1 DEF Only, SameControl, SameRow, SameFlags
<1> QED BY <1>1, <1>2, NothingToCome

\* LOS_TaskResume by a task.
LEMMA ResumeSafe ==
    ASSUME Unprotected = {}, TaskInv, SafeInv, NEW t \in TCB, NEW x \in Task, TaskResume(t, x)
    PROVE  SafeInv'
<1> DEFINE m == OsSchedResume(kernel, x)
<1>1. PICK s \in Plain : App(t, "suspend") /\ MayResume(x) /\ Call(t, m, s, NoArg)
  BY DEF TaskResume, Plain
<1> HIDE DEF m
<1>2. /\ t = kernel.run /\ todo[t] \in Plain /\ kernel.status[t] \cap Blocking = {}
  BY <1>1, AppFree
<1>3. SameCalls /\ kernel' = m
  BY <1>1, <1>2, AppCalls
<1>4. x # kernel.run
  BY <1>1, <1>2 DEF MayResume, Has, Blocking
<1>5. /\ Only(kernel, m, x) /\ Placed(m, x) /\ SameWaits(kernel, m, x)
      /\ SameLife(kernel, m, x) /\ NotNew(x)
  BY <1>1, <1>4, ResumedRow DEF m
<1>6. SwitchComes'
  BY <1>1, <1>2, <1>3, <1>4, <1>5, OthersCome
<1> QED BY <1>3, <1>4, <1>5, <1>6, WaitsStay, MoveStep

\* LOS_TaskSuspend by a task, on itself or another: a task that suspends itself
\* asks for a switch.
LEMMA SuspendSafe ==
    ASSUME Unprotected = {}, TaskInv, SafeInv, NEW t \in TCB, NEW x \in Task, TaskSuspend(t, x)
    PROVE  SafeInv'
<1> DEFINE m == OsSchedSuspend(kernel, x)
           s == IF x = t THEN <<"schedule">> ELSE <<>>
<1>1. App(t, "suspend") /\ MaySuspend(x) /\ Call(t, m, s, NoArg) /\ s \in Plain
  BY DEF TaskSuspend, Plain
<1> HIDE DEF m
<1>2. t = kernel.run /\ t \in Task /\ todo[t] \in Plain
  BY <1>1, AppFree
<1>3. SameCalls /\ kernel' = m /\ todo'[t] = s
  <2> HIDE DEF s
  <2> QED BY <1>1, <1>2, AppCalls
<1>4. /\ Only(kernel, m, x) /\ Placed(m, x) /\ SameWaits(kernel, m, x)
      /\ SameLife(kernel, m, x) /\ NotNew(x) /\ "READY" \notin m.status[x]
      /\ x = kernel.run => kernel.lock = 0
  BY <1>1, SuspendedRow DEF m
<1>5. SwitchComes'
  <2>1. CASE x = t
    <3>1. m.run = t /\ m.lock = 0
      BY <1>2, <1>4, <2>1 DEF Only, SameControl
    <3>2. todo'[t] # <<>> /\ Head(todo'[t]) = "schedule"
      BY <1>3, <2>1
    <3> QED BY <1>3, <3>1, <3>2 DEF SwitchComes
  <2>2. CASE x # t
    BY <1>1, <1>3, <1>4, <2>2, OthersCome
  <2> QED BY <2>1, <2>2
<1> QED BY <1>3, <1>4, <1>5, WaitsStay, MoveStep

\* LOS_TaskPriSet.
LEMMA PriSetSafe ==
    ASSUME Unprotected = {}, TaskInv, SafeInv, NEW t \in TCB, NEW x \in Task,
           NEW p \in CreatePrio, TaskPriSet(t, x, p)
    PROVE  SafeInv'
<1> DEFINE m == OsSchedModifyTaskSchedParam(kernel, x, p)
<1>1. PICK s \in Plain : /\ App(t, "priset") /\ Created(x) /\ Named(x) /\ Call(t, m, s, NoArg)
  BY DEF TaskPriSet, Plain
<1>2. p \in Prio
  BY SchedAssumption, TaskAssumption DEF Prio
<1>3. /\ Only(kernel, m, x) /\ Placed(m, x) /\ SameWaits(kernel, m, x)
      /\ m.status[x] = kernel.status[x]
  BY <1>2, SafeKernel, ModifyRow
<1> HIDE DEF m
<1>4. /\ t = kernel.run /\ t \in Task /\ todo[t] \in Plain /\ kernel.status[t] \cap Blocking = {}
      /\ "READY" \notin kernel.status[t]
  BY <1>1, AppFree
<1>5. SameCalls /\ kernel' = m
  BY <1>1, <1>4, AppCalls
<1>6. NotNew(x) /\ SameLife(kernel, m, x)
  BY <1>1, <1>3, NamedFree DEF SameLife
<1>7. SwitchComes'
  <2>1. m.run = kernel.run /\ m.status[t] = kernel.status[t]
    BY <1>3, <1>4 DEF Only, SameControl, SameRow, SameFlags
  <2> QED BY <1>4, <1>5, <2>1, NothingToCome
<1> QED BY <1>3, <1>4, <1>5, <1>6, <1>7, WaitsStay, MoveStep

\* The running task is delayed.
LEMMA DelayRow ==
    ASSUME NEW k, WellFormed(k), Tidy(k), NEW t \in Task, t = k.run, Placed(k, t),
           {"RUNNING", "STACK_FREE"} \subseteq k.status[t], k.status[t] \cap Blocking = {},
           NEW ticks, NEW m, m = OsSchedDelay(k, ticks), WellFormed(m)
    PROVE  /\ Only(k, m, t) /\ Placed(m, t) /\ SameWaits(k, m, t) /\ SameLife(k, m, t)
           /\ m.status[t] = k.status[t] \cup {"DELAY"}
<1> DEFINE S == k.status[t] \cup {"DELAY"}
           r == [k EXCEPT !.status[t] = S]
<1>1. Fits(t, S)
  <2>1. k.status[t] \in SUBSET Flag /\ t # Idle /\ t # Boot
    BY SchedAssumption DEF WellFormed, SchedState, TCB
  <2> QED BY <2>1 DEF Fits, Flag
<1> HIDE DEF S
<1>2. /\ Only(k, r, t) /\ SamePlace(k, r, t) /\ r.status[t] = S /\ r.priority = k.priority
  BY <1>1, StatusRow
<1>3. /\ SameLists(r, m) /\ m.status = r.status /\ m.priority = r.priority
      /\ SameControl(r, m) /\ m.panic = r.panic
  BY DEF OsSchedDelay, WellFormed, SchedState, SameLists, SameControl, S
<1> HIDE DEF r
<1>4. \A x : SameQueues(r, m, x) /\ SameWaits(r, m, x) /\ SamePool(r, m, x) /\ SameTime(r, m, x)
  BY <1>2, <1>3, FlagsRow DEF Only
<1>5. Only(r, m, t)
  <2>1. Tidy(m)
    BY <1>2, <1>3, FlagsRow DEF Only
  <2> QED BY <1>3, <1>4, <2>1 DEF Only, SameRow, SameFlags
<1>6. Only(k, m, t)
  BY <1>2, <1>5, OnlyTrans
<1>7. /\ SameQueues(k, m, t) /\ SameWaits(k, m, t) /\ SamePool(k, m, t) /\ SameTime(k, m, t)
      /\ m.status[t] = k.status[t] \cup {"DELAY"} /\ m.priority = k.priority /\ m.run = k.run
  BY <1>2, <1>3, <1>4, <1>6
     DEF SamePlace, SameQueues, SameWaits, SamePool, SameTime, S, Only, SameControl
<1>8. Placed(m, t)
  BY <1>7 DEF Placed, SameQueues, SameWaits, SamePool, SameTime, Blocking
<1> QED BY <1>6, <1>7, <1>8 DEF SameLife

\* LOS_TaskDelay: the task asks for a switch, which puts it on the sort link.
LEMMA DelaySafe ==
    ASSUME TaskInv, SafeInv, NEW t \in TCB, NEW d \in Delay, TaskDelay(t, d)
    PROVE  SafeInv'
<1>1. /\ App(t, "delay") /\ kernel.lock = 0
      /\ \/ Call(t, OsSchedYield(kernel), <<"schedule">>, NoArg)
         \/ Call(t, OsSchedDelay(kernel, d), <<"schedule">>, NoArg)
  BY DEF TaskDelay
<1>2. /\ t = kernel.run /\ t \in Task /\ todo[t] \in Plain /\ kernel.status[t] \cap Blocking = {}
      /\ {"RUNNING", "STACK_FREE"} \subseteq kernel.status[t] /\ "READY" \notin kernel.status[t]
  BY <1>1, AppFree
<1>3. CASE Call(t, OsSchedYield(kernel), <<"schedule">>, NoArg)
  <2>1. SameCalls /\ kernel' = OsSchedYield(kernel)
    BY <1>2, <1>3, AppCalls DEF Plain
  <2>2. /\ SameLists(kernel, kernel') /\ kernel'.status = kernel.status
        /\ kernel'.priority = kernel.priority /\ kernel'.run = kernel.run
        /\ kernel'.started = kernel.started /\ kernel'.panic = kernel.panic
        /\ kernel'.lock = kernel.lock
    BY <2>1, SafeKernel DEF OsSchedYield, WellFormed, SchedState, SameLists
  <2>3. SwitchComes'
    BY <1>2, <2>2, NothingToCome
  <2> QED BY <2>1, <2>2, <2>3, CalmStep
<1>4. CASE Call(t, OsSchedDelay(kernel, d), <<"schedule">>, NoArg)
  <2>1. SameCalls /\ kernel' = OsSchedDelay(kernel, d) /\ todo'[t] = <<"schedule">>
    BY <1>2, <1>4, AppCalls DEF Plain
  <2>2. WellFormed(kernel')
    BY DelayStep DEF TaskInv, TaskTypeOK, WellFormed, BitmapMatchesQueues
  <2>3. /\ Only(kernel, kernel', t) /\ Placed(kernel', t) /\ SameWaits(kernel, kernel', t)
        /\ SameLife(kernel, kernel', t) /\ kernel'.status[t] = kernel.status[t] \cup {"DELAY"}
    <3>1. WellFormed(kernel) /\ Tidy(kernel) /\ Placed(kernel, t)
      BY <1>2, SafeKernel
    <3>2. /\ {"RUNNING", "STACK_FREE"} \subseteq kernel.status[t]
          /\ kernel.status[t] \cap Blocking = {} /\ t = kernel.run
      BY <1>2
    <3>3. kernel' = OsSchedDelay(kernel, d)
      BY <2>1
    <3> QED BY <1>2, <2>2, <3>1, <3>2, <3>3, DelayRow, SMTT(30)
  <2>4. SwitchComes'
    <3>1. kernel'.run = t /\ kernel'.lock = 0
      BY <1>1, <1>2, <2>3 DEF Only, SameControl
    <3>2. todo'[t] # <<>> /\ Head(todo'[t]) = "schedule"
      BY <2>1
    <3> QED BY <3>1, <3>2 DEF SwitchComes
  <2>5. NotNew(t)
    BY <1>2 DEF NotNew
  <2> QED BY <1>2, <2>1, <2>3, <2>4, <2>5, WaitsStay, MoveStep
<1> QED BY <1>1, <1>3, <1>4

-----------------------------------------------------------------------------
(* TCBs that are taken and given back.                                     *)

\* Nobody waits for the end of x.
LEMMA NobodyWaits ==
    ASSUME TaskInv, SafeInv, NEW x \in Task, \A y \in Task : x \notin Waits(kernel, y)
    PROVE  kernel.pend[x] = <<>>
<1>1. x \in WaitList /\ kernel.pend[x] \in Seq(Task)
  BY SafeKernel DEF WellFormed, SchedState, WaitList
<1>2. SUFFICES ASSUME kernel.pend[x] # <<>> PROVE FALSE
  OBVIOUS
<1>3. Head(kernel.pend[x]) \in Task /\ Contains(kernel.pend[x], Head(kernel.pend[x]))
  BY <1>1, <1>2, EmptyList
<1> QED BY <1>1, <1>3 DEF Waits

\* The TCB of x goes back to the free list, and no other task changes its status.
Freed(x) ==
    /\ kernel'.status[x] = {"UNUSED"}
    /\ \A z \in Task : z # x => kernel'.status[z] = kernel.status[z]

\* OsRecycleFinishedTask: a TCB goes from the recycle list to the free list.
LEMMA RecycleSafe ==
    ASSUME TaskInv, SafeInv, NEW t \in TCB, OsRecycleFinishedTask(t)
    PROVE  SafeInv' /\ \E x \in Task : "UNUSED" \in kernel.status[x] /\ Freed(x)
<1> DEFINE x == Head(kernel.recycle)
           m == [kernel EXCEPT !.recycle = Tail(@)]
<1>1. kernel.recycle # <<>> /\ kernel' = OsRecycleTaskResources(m, x) /\ UNCHANGED <<todo, arg, handles>>
  BY DEF OsRecycleFinishedTask
<1>2. /\ x \in Task /\ Contains(kernel.recycle, x)
      /\ Only(kernel, m, x) /\ SameQueues(kernel, m, x) /\ SameWaits(kernel, m, x)
      /\ SameTime(kernel, m, x) /\ SameFlags(kernel, m, x)
      /\ ~Contains(m.recycle, x) /\ m.free = kernel.free /\ m.pend = kernel.pend
  BY <1>1, SafeKernel, RecycleTailRow
<1> HIDE DEF x, m
<1>3. /\ "UNUSED" \in kernel.status[x] /\ "JOINABLE" \notin kernel.status[x]
      /\ Queues(kernel, x) = {} /\ Waits(kernel, x) = {}
      /\ ~Contains(kernel.free, x) /\ ~Contains(kernel.sortLink, x)
  BY <1>2, SafeKernel DEF Placed, Blocking
<1>4. kernel.pend[x] = <<>>
  <2>1. \A y \in Task : x \notin Waits(kernel, y)
    BY <1>2, <1>3 DEF SafeInv, JoinInv, Joins, TCB
  <2> QED BY <1>2, <2>1, NobodyWaits
<1>5. Loose(m, x) /\ "JOINABLE" \notin m.status[x] /\ WellFormed(m) /\ Tidy(m)
  BY <1>2, <1>3, <1>4 DEF Loose, Only, SameQueues, SameWaits, SameTime, SameFlags
<1>6. /\ Only(m, kernel', x) /\ Placed(kernel', x) /\ Waits(kernel', x) = {}
      /\ kernel'.status[x] = {"UNUSED"}
  BY <1>1, <1>2, <1>5, RecycleRow
<1>7. Only(kernel, kernel', x)
  BY <1>2, <1>6, OnlyTrans
<1>8. x # kernel.run
  BY <1>2, <1>3 DEF SafeInv, Sound, Runs
<1>9. Sound(kernel')
  BY <1>2, <1>6, <1>7, <1>8, SoundStep DEF SafeInv
<1>10. \A z \in Task : SameWaits(kernel, kernel', z)
  BY <1>3, <1>6, <1>7 DEF Only, SameRow, SameWaits
<1>11. \A z \in Task : kernel'.status[z] = kernel.status[z] \/ z = x
  BY <1>7 DEF Only, SameRow, SameFlags
<1>12. SameCalls
  BY <1>1, UnchangedCalls
<1>13. SwitchComes'
  BY <1>1, <1>7, <1>8, <1>11, StillComes DEF Only, SameControl
<1>14. SafeInv'
  BY <1>3, <1>6, <1>9, <1>10, <1>11, <1>12, <1>13, MildStep
<1> QED BY <1>2, <1>3, <1>6, <1>11, <1>14 DEF Freed

-----------------------------------------------------------------------------
(* Steps that end calls, or begin calls that have no task as their object. *)

\* What the tasks know of x still holds after the step.
Fine(x) ==
    /\ \A u \in TCB : Creating(u, x)' => kernel'.status[x] = kernel.status[x] /\ x \notin handles'
    /\ \A u \in TCB : Joins(u, x)' =>
          /\ "UNUSED" \notin kernel'.status[x]
          /\ "EXIT" \in kernel'.status[x] \/ x \in Waits(kernel', u)
    /\ \A u \in Task : x \in Waits(kernel', u) =>
          /\ Reclaims(u, x)' /\ "JOINABLE" \in kernel'.status[x] /\ "EXIT" \notin kernel'.status[x]
          /\ "PEND_TIME" \notin kernel.status[u]
    /\ x \in handles' => ~(kernel'.status[x] \subseteq {"SUSPEND", "JOINABLE"})

FewerCalls ==
    /\ \A u \in TCB, z \in Task :
          /\ Creating(u, z)' => Creating(u, z) /\ todo'[u] = todo[u]
          /\ Joins(u, z)' => Joins(u, z)
    /\ \A u \in TCB : todo'[u] \in Rest

\* Nobody begins to wait with a timeout.
Untimed == \A u \in Task : "PEND_TIME" \in kernel'.status[u] => "PEND_TIME" \in kernel.status[u]

\* Who waits on an object has not come back from its call.
LEMMA ResultsStay ==
    ASSUME SafeInv,
           \A u \in Task : \/ Waits(kernel', u) \cap WaitObj = {}
                           \/ /\ todo'[u] = todo[u] /\ arg'[u] = arg[u]
                              /\ Waits(kernel', u) \subseteq Waits(kernel, u)
    PROVE  ResultInv'
<1>1. SUFFICES ASSUME NEW u \in Task, NEW o \in WaitObj, o \in Waits(kernel', u)
               PROVE  Results(u, o)'
  BY DEF ResultInv
<1>2. /\ todo'[u] = todo[u] /\ arg'[u] = arg[u] /\ o \in Waits(kernel, u)
  BY <1>1
<1>3. Results(u, o)
  BY <1>2 DEF SafeInv, ResultInv
<1> QED BY <1>2, <1>3 DEF Results

\* The calls may become fewer or concern a task that the lists are fine for.
LEMMA CallsStep ==
    ASSUME TaskInv, SafeInv, Sound(kernel'), SwitchComes', FewerCalls, Untimed, ResultInv',
           handles \subseteq handles', handles' \subseteq Task, \A x \in Task : Fine(x)
    PROVE  SafeInv'
<1>1. CreateInv'
  <2>1. SUFFICES ASSUME NEW t \in TCB, NEW x \in Task, Creating(t, x)'
                 PROVE  /\ kernel'.status[x] \subseteq {"SUSPEND", "JOINABLE", "STACK_FREE"}
                        /\ todo'[t] = <<"enqueue">> => "STACK_FREE" \in kernel'.status[x]
                        /\ x \notin handles'
                        /\ \A u \in TCB : Creating(u, x)' => u = t
    BY DEF CreateInv
  <2>2. Creating(t, x) /\ todo'[t] = todo[t]
    BY <2>1 DEF FewerCalls
  <2>3. /\ kernel.status[x] \subseteq {"SUSPEND", "JOINABLE", "STACK_FREE"}
        /\ todo[t] = <<"enqueue">> => "STACK_FREE" \in kernel.status[x]
        /\ \A u \in TCB : Creating(u, x) => u = t
    BY <2>2 DEF SafeInv, CreateInv
  <2>4. kernel'.status[x] = kernel.status[x] /\ x \notin handles'
    BY <2>1 DEF Fine
  <2> QED BY <2>2, <2>3, <2>4 DEF FewerCalls
<1>2. JoinInv'
  <2>1. ASSUME NEW x \in Task, NEW t \in Task, x \in Waits(kernel', t)
        PROVE  /\ Reclaims(t, x)' /\ "JOINABLE" \in kernel'.status[x] /\ "EXIT" \notin kernel'.status[x]
               /\ "PEND_TIME" \notin kernel'.status[t]
    BY <2>1 DEF Fine, Untimed
  <2>2. ASSUME NEW x \in Task, NEW t \in TCB, Joins(t, x)'
        PROVE  /\ t \in Task /\ t # x /\ x \in handles' /\ "UNUSED" \notin kernel'.status[x]
               /\ "EXIT" \in kernel'.status[x] \/ x \in Waits(kernel', t)
               /\ \A u \in TCB : Joins(u, x)' => u = t
    <3>1. Joins(t, x) /\ \A u \in TCB : Joins(u, x)' => Joins(u, x)
      BY <2>2 DEF FewerCalls
    <3>2. /\ t \in Task /\ t # x /\ x \in handles
          /\ \A u \in TCB : Joins(u, x) => u = t
      BY <3>1 DEF SafeInv, JoinInv
    <3>3. "UNUSED" \notin kernel'.status[x] /\ ("EXIT" \in kernel'.status[x] \/ x \in Waits(kernel', t))
      BY <2>2 DEF Fine
    <3> QED BY <3>1, <3>2, <3>3
  <2> QED BY <2>1, <2>2 DEF JoinInv
<1>3. HandleInv'
  BY DEF HandleInv, Fine
<1> QED BY <1>1, <1>2, <1>3 DEF SafeInv, FewerCalls

\* Another task than the one that the step is about.
LEMMA FineOther ==
    ASSUME TaskInv, SafeInv, FewerCalls, NEW x \in Task, x \in handles' => x \in handles,
           kernel'.status[x] = kernel.status[x] \/ (NotNew(x) /\ Kept(kernel, kernel', x)),
           \A u \in Task : x \in Waits(kernel', u) =>
              x \in Waits(kernel, u) /\ (Reclaims(u, x) => Reclaims(u, x)'),
           \A u \in Task : Joins(u, x)' /\ x \in Waits(kernel, u) => x \in Waits(kernel', u)
    PROVE  Fine(x)
<1>1. ASSUME NEW u \in TCB, Creating(u, x)'
      PROVE  kernel'.status[x] = kernel.status[x] /\ x \notin handles'
  <2>1. Creating(u, x)
    BY <1>1 DEF FewerCalls
  <2>2. kernel.status[x] \subseteq {"SUSPEND", "JOINABLE", "STACK_FREE"} /\ x \notin handles
    BY <2>1 DEF SafeInv, CreateInv
  <2> QED BY <2>2 DEF NotNew
<1>2. ASSUME NEW u \in TCB, Joins(u, x)'
      PROVE  /\ "UNUSED" \notin kernel'.status[x]
             /\ "EXIT" \in kernel'.status[x] \/ x \in Waits(kernel', u)
  <2>1. Joins(u, x)
    BY <1>2 DEF FewerCalls
  <2>2. /\ u \in Task /\ "UNUSED" \notin kernel.status[x]
        /\ "EXIT" \in kernel.status[x] \/ x \in Waits(kernel, u)
    BY <2>1 DEF SafeInv, JoinInv
  <2> QED BY <1>2, <2>2 DEF Kept
<1>3. ASSUME NEW u \in Task, x \in Waits(kernel', u)
      PROVE  /\ Reclaims(u, x)' /\ "JOINABLE" \in kernel'.status[x] /\ "EXIT" \notin kernel'.status[x]
             /\ "PEND_TIME" \notin kernel.status[u]
  <2>1. x \in Waits(kernel, u) /\ (Reclaims(u, x) => Reclaims(u, x)')
    BY <1>3
  <2>2. /\ Reclaims(u, x) /\ "JOINABLE" \in kernel.status[x] /\ "EXIT" \notin kernel.status[x]
        /\ "PEND_TIME" \notin kernel.status[u]
    BY <2>1 DEF SafeInv, JoinInv
  <2> QED BY <2>1, <2>2 DEF Kept
<1>4. ASSUME x \in handles' PROVE ~(kernel'.status[x] \subseteq {"SUSPEND", "JOINABLE"})
  <2>1. ~(kernel.status[x] \subseteq {"SUSPEND", "JOINABLE"})
    BY <1>4 DEF SafeInv, HandleInv
  <2>2. "STACK_FREE" \in kernel.status[x] \/ kernel.status[x] \cap {"UNUSED", "EXIT"} # {}
    BY <2>1 DEF SafeInv, Sound, Placed
  <2> QED BY <2>1, <2>2 DEF Kept
<1> QED BY <1>1, <1>2, <1>3, <1>4 DEF Fine

\* The call of t ends, or goes on without a task as its object.
LEMMA CallEnds ==
    ASSUME TaskInv, SafeInv, NEW t \in TCB, todo'[t] \in Plain,
           \A u \in TCB : u # t => todo'[u] = todo[u] /\ arg'[u] = arg[u]
    PROVE  /\ FewerCalls
           /\ \A z \in Task : ~Creating(t, z)' /\ ~Joins(t, z)' /\ ~Reclaims(t, z)'
           /\ \A u \in TCB, z \in Task : u # t => /\ Reclaims(u, z)' <=> Reclaims(u, z)
                                                  /\ Joins(u, z)' <=> Joins(u, z)
<1>1. \A u \in TCB : todo'[u] \in Rest
  BY PlainRest DEF SafeInv
<1>2. \A z \in Task : ~Creating(t, z)' /\ ~Joins(t, z)' /\ ~Reclaims(t, z)'
  BY PlainRest DEF Creating, Reclaims, Joins
<1>3. \A u \in TCB, z \in Task : u # t =>
         /\ Creating(u, z)' <=> Creating(u, z)
         /\ Reclaims(u, z)' <=> Reclaims(u, z)
         /\ Joins(u, z)' <=> Joins(u, z)
  BY DEF Creating, Reclaims, Joins
<1> QED BY <1>1, <1>2, <1>3 DEF FewerCalls

\* A task that is on no list but is neither ready, waiting nor delayed.
LEMMA AtRest ==
    ASSUME NEW k, NEW x, Placed(k, x),
           k.status[x] \cap {"READY", "PEND", "DELAY", "UNUSED"} = {}
    PROVE  /\ Queues(k, x) = {} /\ Waits(k, x) = {} /\ ~Contains(k.free, x)
           /\ ~Contains(k.recycle, x) /\ ~Contains(k.sortLink, x)
<1>1. k.status[x] \cap {"DELAY", "PEND_TIME"} = {}
  BY DEF Placed
<1> QED BY <1>1 DEF Placed

\* A task that is being created is known to its creator only, and at rest.
LEMMA NewAtRest ==
    ASSUME TaskInv, SafeInv, NEW t \in TCB, NEW x \in Task, Creating(t, x)
    PROVE  /\ Loose(kernel, x) /\ x # kernel.run /\ x \notin handles
           /\ kernel.status[x] \subseteq {"SUSPEND", "JOINABLE", "STACK_FREE"}
           /\ \A u \in TCB : ~Joins(u, x)
           /\ \A u \in Task : x \notin Waits(kernel, u)
<1>1. kernel.status[x] \subseteq {"SUSPEND", "JOINABLE", "STACK_FREE"} /\ x \notin handles
  BY DEF SafeInv, CreateInv
<1>2. \A u \in TCB : ~Joins(u, x)
  BY <1>1 DEF SafeInv, JoinInv
<1>3. \A u \in Task : x \notin Waits(kernel, u)
  BY <1>2 DEF SafeInv, JoinInv, Joins, TCB
<1>4. kernel.pend[x] = <<>>
  BY <1>3, NobodyWaits
<1>5. x # kernel.run
  BY <1>1 DEF SafeInv, Sound, Runs
<1>6. /\ Queues(kernel, x) = {} /\ Waits(kernel, x) = {} /\ ~Contains(kernel.free, x)
      /\ ~Contains(kernel.recycle, x) /\ ~Contains(kernel.sortLink, x)
  <2>1. kernel.status[x] \cap {"READY", "PEND", "DELAY", "UNUSED"} = {}
    BY <1>1
  <2> QED BY <2>1, SafeKernel, AtRest
<1> QED BY <1>1, <1>2, <1>3, <1>4, <1>5, <1>6 DEF Loose

\* There is no memory for the stack: the new TCB goes back to the free list.
LEMMA NoStackSafe ==
    ASSUME TaskInv, SafeInv, NEW t \in TCB, NoStack(t)
    PROVE  SafeInv' /\ \E x \in Task : Creating(t, x) /\ Freed(x)
<1>1. PICK x \in Task : x = arg[t]
  BY DoingArg DEF NoStack, Step
<1>2. /\ Thread(t) /\ todo[t] # <<>> /\ Head(todo[t]) = "noStack"
      /\ Continue(t, OsInsertTCBToFreeList(kernel, x))
  BY <1>1 DEF NoStack, Doing
<1>3. todo[t] = <<"noStack">> /\ Tail(todo[t]) = <<>>
  BY <1>2, RestSteps DEF SafeInv
<1>4. Creating(t, x)
  BY <1>1, <1>3 DEF Creating
<1>5. /\ kernel' = OsInsertTCBToFreeList(kernel, x) /\ handles' = handles /\ todo'[t] = <<>>
      /\ \A u \in TCB : u # t => todo'[u] = todo[u] /\ arg'[u] = arg[u]
  BY <1>2, <1>3, TailStep
<1>6. /\ Loose(kernel, x) /\ x # kernel.run /\ x \notin handles
      /\ \A u \in TCB : ~Joins(u, x)
      /\ \A u \in Task : x \notin Waits(kernel, u)
  BY <1>1, <1>4, NewAtRest
<1>7. /\ Only(kernel, kernel', x) /\ Placed(kernel', x) /\ Waits(kernel', x) = {}
      /\ kernel'.status[x] = {"UNUSED"}
  BY <1>1, <1>5, <1>6, SafeKernel, InsertTCBRow
<1>8. Sound(kernel')
  BY <1>1, <1>6, <1>7, SafeKernel, SoundStep
<1>9. /\ kernel'.run = kernel.run /\ Waits(kernel, x) = {}
      /\ \A z \in Task : z # x => kernel'.status[z] = kernel.status[z]
      /\ \A z \in Task : Waits(kernel', z) = Waits(kernel, z)
  BY <1>6, <1>7 DEF Only, SameControl, SameRow, SameFlags, SameWaits, Loose
<1>10. SwitchComes'
  <2>1. kernel.run \in Task => kernel.status[kernel.run] \cap Blocking = {}
    <3>1. t = kernel.run /\ Head(todo[t]) # "schedule"
      BY <1>2 DEF Thread
    <3> QED BY <1>2, <3>1, ThreadFree
  <2> QED BY <1>6, <1>9, <2>1, NothingToCome
<1>11. /\ FewerCalls
       /\ \A z \in Task : ~Creating(t, z)' /\ ~Joins(t, z)' /\ ~Reclaims(t, z)'
       /\ \A u \in TCB, z \in Task : u # t => (Reclaims(u, z)' <=> Reclaims(u, z))
  BY <1>5, CallEnds DEF Plain
<1>12. ASSUME NEW z \in Task PROVE Fine(z)
  <2>1. CASE z = x
    <3>1. \A u \in TCB : ~Creating(u, x)' /\ ~Joins(u, x)'
      <4>1. \A u \in TCB : Creating(u, x)' => Creating(u, x) /\ u # t
        BY <1>1, <1>11 DEF FewerCalls
      <4>2. \A u \in TCB : Creating(u, x) => u = t
        BY <1>1, <1>4 DEF SafeInv, CreateInv
      <4>3. \A u \in TCB : Joins(u, x)' => Joins(u, x)
        BY <1>1, <1>11 DEF FewerCalls
      <4> QED BY <1>6, <4>1, <4>2, <4>3
    <3> QED BY <1>5, <1>6, <1>9, <2>1, <3>1 DEF Fine
  <2>2. CASE z # x
    <3>1. \A u \in Task : z \in Waits(kernel', u) /\ Reclaims(u, z) => Reclaims(u, z)'
      <4>1. ~Reclaims(t, z)
        BY <1>3 DEF Reclaims
      <4> QED BY <1>11, <4>1 DEF TCB
    <3> QED BY <1>5, <1>9, <1>11, <2>2, <3>1, FineOther
  <2> QED BY <2>1, <2>2
<1>13. handles \subseteq handles' /\ handles' \subseteq Task
  BY <1>5, NamedIsTask
<1>14. Untimed
  BY <1>7, <1>9 DEF Untimed
<1>15. ResultInv'
  <2>1. \A o \in WaitObj : ~Results(t, o)
    BY <1>3 DEF Results
  <2>2. t \in Task => Waits(kernel', t) \cap WaitObj = {}
    BY <1>9, <2>1 DEF SafeInv, ResultInv
  <2> QED BY <1>5, <1>9, <2>2, ResultsStay DEF TCB
<1>16. SafeInv'
  BY <1>8, <1>10, <1>11, <1>12, <1>13, <1>14, <1>15, CallsStep
<1> QED BY <1>1, <1>4, <1>7, <1>9, <1>16 DEF Freed

\* LOS_TaskCreate makes the new task ready; from now on others may name it.
LEMMA EnqueueSafe ==
    ASSUME TaskInv, SafeInv, NEW t \in TCB, EnqueueNewTask(t)
    PROVE  SafeInv'
<1>1. PICK x \in Task : x = arg[t]
  BY DoingArg DEF EnqueueNewTask, Step
<1>2. /\ Thread(t) /\ todo[t] # <<>> /\ Head(todo[t]) = "enqueue"
      /\ kernel' = OsSchedTaskEnQueue(kernel, x) /\ handles' = handles \cup {x}
      /\ todo' = [todo EXCEPT ![t] = IF kernel.started THEN <<"schedule">> ELSE <<>>]
      /\ arg' = [arg EXCEPT ![t] = NoArg]
  BY <1>1 DEF EnqueueNewTask, Doing
<1>3. todo[t] = <<"enqueue">> /\ Creating(t, x)
  <2>1. todo[t] = <<"enqueue">>
    BY <1>2, RestSteps DEF SafeInv
  <2> QED BY <1>1, <2>1 DEF Creating
<1>4. /\ todo'[t] \in Plain
      /\ \A u \in TCB : u # t => todo'[u] = todo[u] /\ arg'[u] = arg[u]
  BY <1>2 DEF Plain, TaskInv, TaskTypeOK
<1>5. /\ Loose(kernel, x) /\ x # kernel.run
      /\ \A u \in TCB : ~Joins(u, x)
      /\ \A u \in Task : x \notin Waits(kernel, u)
      /\ kernel.status[x] \subseteq {"SUSPEND", "JOINABLE", "STACK_FREE"}
      /\ "STACK_FREE" \in kernel.status[x]
  BY <1>1, <1>3, NewAtRest DEF SafeInv, CreateInv
<1>6. /\ Only(kernel, kernel', x) /\ SameWaits(kernel, kernel', x)
      /\ SamePool(kernel, kernel', x) /\ SameTime(kernel, kernel', x)
      /\ kernel'.status[x] = EnQueued(kernel.status[x])
      /\ kernel'.priority[x] = kernel.priority[x] /\ Queues(kernel', x) = {kernel.priority[x]}
  BY <1>1, <1>2, <1>5, SafeKernel, EnQueueRow DEF Loose
<1>7. Placed(kernel', x) /\ {"READY", "STACK_FREE"} \subseteq kernel'.status[x]
  <2>1. /\ {"READY", "STACK_FREE"} \subseteq kernel'.status[x]
        /\ kernel'.status[x] \cap (Blocking \cup {"RUNNING", "PEND_TIME"}) = {}
    BY <1>5, <1>6 DEF EnQueued, Blocking
  <2>2. /\ Waits(kernel', x) = {} /\ ~Contains(kernel'.free, x) /\ ~Contains(kernel'.recycle, x)
        /\ ~Contains(kernel'.sortLink, x)
    BY <1>5, <1>6 DEF Loose, SameWaits, SamePool, SameTime
  <2> QED BY <1>6, <2>1, <2>2 DEF Placed, Blocking
<1>8. Sound(kernel')
  BY <1>1, <1>5, <1>6, <1>7, SafeKernel, SoundStep
<1>9. /\ kernel'.run = kernel.run
      /\ \A z \in Task : z # x => kernel'.status[z] = kernel.status[z]
      /\ \A z \in Task : Waits(kernel', z) = Waits(kernel, z)
  BY <1>5, <1>6 DEF Only, SameControl, SameRow, SameFlags, SameWaits
<1>10. SwitchComes'
  <2>1. kernel.run \in Task => kernel.status[kernel.run] \cap Blocking = {}
    <3>1. t = kernel.run /\ Head(todo[t]) # "schedule"
      BY <1>2 DEF Thread
    <3> QED BY <1>2, <3>1, ThreadFree
  <2> QED BY <1>5, <1>9, <2>1, NothingToCome
<1>11. /\ FewerCalls
       /\ \A z \in Task : ~Creating(t, z)' /\ ~Joins(t, z)' /\ ~Reclaims(t, z)'
       /\ \A u \in TCB, z \in Task : u # t => (Reclaims(u, z)' <=> Reclaims(u, z))
  BY <1>4, CallEnds
<1>12. ASSUME NEW z \in Task PROVE Fine(z)
  <2>1. CASE z = x
    <3>1. \A u \in TCB : ~Creating(u, x)' /\ ~Joins(u, x)'
      <4>1. \A u \in TCB : Creating(u, x)' => Creating(u, x) /\ u # t
        BY <1>1, <1>11 DEF FewerCalls
      <4>2. \A u \in TCB : Creating(u, x) => u = t
        BY <1>1, <1>3 DEF SafeInv, CreateInv
      <4>3. \A u \in TCB : Joins(u, x)' => Joins(u, x)
        BY <1>1, <1>11 DEF FewerCalls
      <4> QED BY <1>5, <4>1, <4>2, <4>3
    <3> QED BY <1>5, <1>7, <1>9, <2>1, <3>1 DEF Fine
  <2>2. CASE z # x
    <3>1. \A u \in Task : Reclaims(u, z) => Reclaims(u, z)'
      <4>1. ~Reclaims(t, z)
        BY <1>3 DEF Reclaims
      <4> QED BY <1>11, <4>1 DEF TCB
    <3> QED BY <1>2, <1>9, <1>11, <2>2, <3>1, FineOther
  <2> QED BY <2>1, <2>2
<1>13. handles \subseteq handles' /\ handles' \subseteq Task
  BY <1>1, <1>2, NamedIsTask
<1>14. Untimed
  BY <1>6, <1>9 DEF Untimed, EnQueued
<1>15. ResultInv'
  <2>1. \A o \in WaitObj : ~Results(t, o)
    BY <1>3 DEF Results
  <2>2. t \in Task => Waits(kernel', t) \cap WaitObj = {}
    BY <1>9, <2>1 DEF SafeInv, ResultInv
  <2> QED BY <1>4, <1>9, <2>2, ResultsStay DEF TCB
<1> QED BY <1>8, <1>10, <1>11, <1>12, <1>13, <1>14, <1>15, CallsStep

\* The joiner runs again and puts the TCB of the task that has exited on the
\* free or recycle list.
LEMMA JoinReclaimSafe ==
    ASSUME TaskInv, SafeInv, NEW t \in TCB, JoinReclaim(t)
    PROVE  SafeInv' /\ \E x \in Task : "EXIT" \in kernel.status[x] /\ Freed(x)
<1>1. PICK x \in Task : x = arg[t]
  BY DoingArg DEF JoinReclaim, Step
<1> DEFINE S == kernel.status[x] \ {"JOINABLE"}
           m == [kernel EXCEPT !.status[x] = S]
<1>2. /\ Thread(t) /\ todo[t] # <<>> /\ Head(todo[t]) = "joinReclaim"
      /\ Continue(t, OsRecycleTaskResources(m, x))
  BY <1>1 DEF JoinReclaim, Doing
<1>3. todo[t] = <<"joinReclaim">> /\ Tail(todo[t]) = <<>>
  BY <1>2, RestSteps DEF SafeInv
<1>4. Reclaims(t, x) /\ Joins(t, x)
  BY <1>1, <1>3 DEF Reclaims, Joins
<1>5. /\ kernel' = OsRecycleTaskResources(m, x) /\ handles' = handles /\ todo'[t] = <<>>
      /\ \A u \in TCB : u # t => todo'[u] = todo[u] /\ arg'[u] = arg[u]
  <2> HIDE DEF m
  <2> QED BY <1>2, <1>3, TailStep
<1>6. /\ t \in Task /\ t # x /\ "UNUSED" \notin kernel.status[x]
      /\ "EXIT" \in kernel.status[x] \/ x \in Waits(kernel, t)
      /\ \A u \in TCB : Joins(u, x) => u = t
  BY <1>1, <1>4 DEF SafeInv, JoinInv
<1>7. /\ t = kernel.run /\ kernel.status[t] \cap Blocking = {} /\ Waits(kernel, t) = {}
  <2>1. t = kernel.run /\ kernel.status[t] \cap Blocking = {}
    BY <1>2, <1>6, ThreadFree
  <2> QED BY <1>6, <2>1, SafeKernel DEF Placed, Blocking
<1>8. "EXIT" \in kernel.status[x]
  BY <1>6, <1>7
<1>9. \A u \in Task : x \notin Waits(kernel, u)
  BY <1>1, <1>8 DEF SafeInv, JoinInv
<1>10. kernel.pend[x] = <<>>
  BY <1>1, <1>9, NobodyWaits
<1>11. /\ Queues(kernel, x) = {} /\ Waits(kernel, x) = {} /\ ~Contains(kernel.free, x)
       /\ ~Contains(kernel.recycle, x) /\ ~Contains(kernel.sortLink, x)
  <2>1. kernel.status[x] \cap {"READY", "PEND", "DELAY", "UNUSED"} = {}
    BY <1>1, <1>6, <1>8, SafeKernel DEF Placed, Blocking
  <2> QED BY <1>1, <2>1, SafeKernel, AtRest
<1>12. Fits(x, S)
  <2>1. kernel.status[x] \in SUBSET Flag /\ x # Idle /\ x # Boot
    BY <1>1, SafeKernel, SchedAssumption DEF WellFormed, SchedState, TCB
  <2> QED BY <2>1 DEF Fits
<1>13. "JOINABLE" \notin S
  OBVIOUS
<1> HIDE DEF S
<1>14. /\ Only(kernel, m, x) /\ SamePlace(kernel, m, x) /\ m.status[x] = S
  BY <1>1, <1>12, SafeKernel, StatusRow
<1>15. m.pend = kernel.pend
  BY SafeKernel DEF WellFormed, SchedState
<1> HIDE DEF m
<1>16. Loose(m, x) /\ "JOINABLE" \notin m.status[x] /\ WellFormed(m) /\ Tidy(m)
  BY <1>10, <1>11, <1>13, <1>14, <1>15
     DEF Loose, SamePlace, SameQueues, SameWaits, SamePool, SameTime, Only
<1>17. /\ Only(m, kernel', x) /\ Placed(kernel', x) /\ Waits(kernel', x) = {}
       /\ kernel'.status[x] = {"UNUSED"}
  BY <1>1, <1>5, <1>16, RecycleRow
<1>18. Only(kernel, kernel', x)
  BY <1>14, <1>17, OnlyTrans
<1>19. Sound(kernel')
  BY <1>1, <1>6, <1>7, <1>17, <1>18, SafeKernel, SoundStep
<1>20. /\ kernel'.run = kernel.run
       /\ \A z \in Task : z # x => kernel'.status[z] = kernel.status[z]
       /\ \A z \in Task : Waits(kernel', z) = Waits(kernel, z)
  BY <1>11, <1>17, <1>18 DEF Only, SameControl, SameRow, SameFlags, SameWaits
<1>21. SwitchComes'
  BY <1>6, <1>7, <1>20, NothingToCome
<1>22. /\ FewerCalls
       /\ \A z \in Task : ~Creating(t, z)' /\ ~Joins(t, z)' /\ ~Reclaims(t, z)'
       /\ \A u \in TCB, z \in Task : u # t => (Reclaims(u, z)' <=> Reclaims(u, z))
  BY <1>5, CallEnds DEF Plain
<1>23. ASSUME NEW z \in Task PROVE Fine(z)
  <2>1. CASE z = x
    <3>1. \A u \in TCB : ~Creating(u, x)'
      <4>1. \A u \in TCB : Creating(u, x)' => Creating(u, x)
        BY <1>1, <1>22 DEF FewerCalls
      <4> QED BY <1>1, <1>8, <4>1 DEF SafeInv, CreateInv
    <3>2. \A u \in TCB : ~Joins(u, x)'
      <4>1. \A u \in TCB : Joins(u, x)' => Joins(u, x) /\ u # t
        BY <1>1, <1>22 DEF FewerCalls
      <4> QED BY <1>6, <4>1
    <3> QED BY <1>9, <1>17, <1>20, <2>1, <3>1, <3>2 DEF Fine
  <2>2. CASE z # x
    <3>1. \A u \in Task : Reclaims(u, z) => Reclaims(u, z)'
      <4>1. ~Reclaims(t, z)
        BY <1>1, <2>2 DEF Reclaims
      <4> QED BY <1>22, <4>1 DEF TCB
    <3> QED BY <1>5, <1>20, <1>22, <2>2, <3>1, FineOther
  <2> QED BY <2>1, <2>2
<1>24. handles \subseteq handles' /\ handles' \subseteq Task
  BY <1>5, NamedIsTask
<1>25. Untimed
  BY <1>17, <1>20 DEF Untimed
<1>26. ResultInv'
  BY <1>5, <1>7, <1>20, ResultsStay DEF TCB
<1>27. SafeInv'
  BY <1>19, <1>21, <1>22, <1>23, <1>24, <1>25, <1>26, CallsStep
<1> QED BY <1>1, <1>8, <1>17, <1>20, <1>27 DEF Freed

\* LOS_TaskCreate takes a TCB: nobody knows of x, and t has begun to create it.
LEMMA TakeTcbCalls ==
    ASSUME TaskInv, SafeInv, NEW t \in TCB, NEW x \in Task, x # t, todo[t] = <<"take">>,
           "UNUSED" \in kernel.status[x],
           NEW rest \in {<<>>, <<"enqueue">>, <<"noStack">>},
           todo'[t] = rest, todo'[x] = <<>>, arg'[x] = NoArg,
           arg'[t] = IF rest = <<>> THEN NoArg ELSE x,
           \A u \in TCB : u # t /\ u # x => todo'[u] = todo[u] /\ arg'[u] = arg[u]
    PROVE  /\ todo'[t] = rest /\ \A u \in TCB : todo'[u] \in Rest
           /\ \A u \in TCB, z \in Task : Creating(u, z)' =>
                 \/ u = t /\ z = x /\ rest # <<>>
                 \/ u # t /\ u # x /\ z # x /\ Creating(u, z) /\ todo'[u] = todo[u]
           /\ \A u \in TCB, z \in Task : Joins(u, z)' => u # t /\ u # x /\ z # x /\ Joins(u, z)
           /\ \A u \in TCB, z \in Task : u # x /\ Reclaims(u, z) => Reclaims(u, z)'
<1>1. /\ todo'[t] = rest /\ todo'[x] = <<>> /\ arg'[x] = NoArg
      /\ arg'[t] = IF rest = <<>> THEN NoArg ELSE x
      /\ \A u \in TCB : u # t /\ u # x => todo'[u] = todo[u] /\ arg'[u] = arg[u]
  OBVIOUS
<1>2. \A u \in TCB : todo'[u] \in Rest
  BY <1>1 DEF SafeInv, Rest
<1>3. ASSUME NEW u \in TCB, NEW z \in Task, Creating(u, z)'
      PROVE  \/ u = t /\ z = x /\ rest # <<>>
             \/ u # t /\ u # x /\ z # x /\ Creating(u, z) /\ todo'[u] = todo[u]
  <2>1. CASE u = t
    BY <1>1, <1>3, <2>1 DEF Creating
  <2>2. CASE u = x
    BY <1>1, <1>3, <2>2 DEF Creating
  <2>3. CASE u # t /\ u # x
    <3>1. Creating(u, z) /\ todo'[u] = todo[u]
      BY <1>1, <1>3, <2>3 DEF Creating
    <3>2. z # x
      BY <3>1 DEF SafeInv, CreateInv
    <3> QED BY <2>3, <3>1, <3>2
  <2> QED BY <2>1, <2>2, <2>3
<1>4. ASSUME NEW u \in TCB, NEW z \in Task, Joins(u, z)'
      PROVE  u # t /\ u # x /\ z # x /\ Joins(u, z)
  <2>1. u # t /\ u # x
    <3>1. /\ rest \notin {<<"schedule", "joinReclaim">>, <<"joinReclaim">>, <<"join">>}
          /\ <<>> \notin {<<"schedule", "joinReclaim">>, <<"joinReclaim">>, <<"join">>}
      OBVIOUS
    <3>2. todo'[u] \in {<<"schedule", "joinReclaim">>, <<"joinReclaim">>, <<"join">>}
      BY <1>4 DEF Joins, Reclaims
    <3> QED BY <1>1, <3>1, <3>2
  <2>2. Joins(u, z)
    BY <1>1, <1>4, <2>1 DEF Joins, Reclaims
  <2>3. z # x
    BY <2>2 DEF SafeInv, JoinInv
  <2> QED BY <2>1, <2>2, <2>3
<1>5. ASSUME NEW u \in TCB, NEW z \in Task, u # x, Reclaims(u, z)
      PROVE  Reclaims(u, z)'
  <2>1. u # t
    BY <1>5 DEF Reclaims
  <2> QED BY <1>1, <1>5, <2>1 DEF Reclaims
<1> QED BY <1>1, <1>2, <1>3, <1>4, <1>5

\* t has taken the free TCB x for a new task.
TcbTaken(t, x) ==
    /\ "UNUSED" \in kernel.status[x] /\ x # t
    /\ kernel'.status[x] \subseteq {"SUSPEND", "JOINABLE", "STACK_FREE"}
    /\ \A z \in Task : z # x => kernel'.status[z] = kernel.status[z]
    /\ todo[t] = <<"take">> /\ todo'[t] \in {<<>>, <<"enqueue">>, <<"noStack">>}
    /\ todo'[x] = <<>> /\ (todo'[t] # <<>> => arg'[t] = x)
    /\ \A u \in TCB : u # t /\ u # x => todo'[u] = todo[u] /\ arg'[u] = arg[u]

\* A free TCB becomes a new task, which no handle names.
LEMMA TakeTcbSafe ==
    ASSUME TaskInv, SafeInv, NEW t \in TCB, TakeTcb(t)
    PROVE  SafeInv' /\ \E x \in Task : TcbTaken(t, x)
<1> DEFINE h == Head(kernel.free)
           m == [kernel EXCEPT !.free = Tail(@)]
<1>1. /\ Thread(t) /\ todo[t] # <<>> /\ Head(todo[t]) = "take" /\ kernel.free # <<>>
  BY DEF TakeTcb, Doing
<1>2. PICK p \in CreatePrio, j \in BOOLEAN, rest \in {<<>>, <<"enqueue">>, <<"noStack">>} :
        /\ kernel' = [OsNewTaskInit(m, h, p, j) EXCEPT !.status[h] =
                        IF rest = <<"noStack">> THEN @ ELSE @ \cup {"STACK_FREE"}]
        /\ todo' = [todo EXCEPT ![t] = rest, ![h] = <<>>]
        /\ arg' = [arg EXCEPT ![t] = IF rest = <<>> THEN NoArg ELSE h, ![h] = NoArg]
        /\ handles' = IF rest = <<>> THEN handles \cup {h} ELSE handles \ {h}
  BY ZenonT(30) DEF TakeTcb
<1>3. /\ h \in Task /\ Contains(kernel.free, h)
      /\ Only(kernel, m, h) /\ SameQueues(kernel, m, h) /\ SameWaits(kernel, m, h)
      /\ SameTime(kernel, m, h) /\ SameFlags(kernel, m, h)
      /\ ~Contains(m.free, h) /\ m.recycle = kernel.recycle /\ m.pend = kernel.pend
  BY <1>1, SafeKernel, FreeTailRow
<1>4. PICK x \in Task : x = h
  BY <1>3
<1>5. /\ "UNUSED" \in kernel.status[x] /\ ~Contains(kernel.recycle, x)
      /\ Queues(kernel, x) = {} /\ Waits(kernel, x) = {} /\ ~Contains(kernel.sortLink, x)
  BY <1>3, <1>4, SafeKernel DEF Placed, Blocking
<1>6. x # kernel.run /\ x # t
  BY <1>1, <1>5 DEF SafeInv, Sound, Runs, Thread
<1> DEFINE N == {"SUSPEND"} \cup (IF j THEN {"JOINABLE"} ELSE {})
           S == IF rest = <<"noStack">> THEN N ELSE N \cup {"STACK_FREE"}
<1>7. WellFormed(m) /\ Tidy(m) /\ ~Contains(m.sortLink, x)
  BY <1>3, <1>4, <1>5 DEF Only, SameTime
<1>8. kernel' = FilledIn(m, x, S, p)
  <2>1. m \in SchedState /\ x \in TCB
    BY <1>7 DEF WellFormed, TCB
  <2> HIDE DEF m
  <2>2. kernel' = [OsNewTaskInit(m, x, p, j) EXCEPT !.status[x] =
                      IF rest = <<"noStack">> THEN @ ELSE @ \cup {"STACK_FREE"}]
    BY <1>2, <1>4
  <2>3. OsNewTaskInit(m, x, p, j).status[x] = N
    BY <2>1 DEF OsNewTaskInit, SchedState
  <2>4. kernel' = [OsNewTaskInit(m, x, p, j) EXCEPT !.status[x] = S]
    BY <2>2, <2>3
  <2> HIDE DEF S
  <2>5. OsNewTaskInit(m, x, p, j) = FilledIn(m, x, N, p)
    BY DEF OsNewTaskInit, FilledIn
  <2> HIDE DEF N
  <2>6. [FilledIn(m, x, N, p) EXCEPT !.status[x] = S] = FilledIn(m, x, S, p)
    <3>1. [[m.status EXCEPT ![x] = N] EXCEPT ![x] = S] = [m.status EXCEPT ![x] = S]
      BY <2>1 DEF SchedState
    <3>2. FilledIn(m, x, N, p).status = [m.status EXCEPT ![x] = N]
      BY <2>1 DEF FilledIn, SchedState
    <3>3. [FilledIn(m, x, N, p) EXCEPT !.status[x] = S] =
          [FilledIn(m, x, N, p) EXCEPT !.status = [m.status EXCEPT ![x] = S]]
      BY <3>1, <3>2
    <3> DEFINE Filled(s) == [m EXCEPT !.status = s, !.priority = [m.priority EXCEPT ![x] = p],
                                      !.timeSlice = [m.timeSlice EXCEPT ![x] = 0],
                                      !.waitTimes = [m.waitTimes EXCEPT ![x] = 0],
                                      !.due = [m.due EXCEPT ![x] = NoTime]]
    <3>4. /\ FilledIn(m, x, N, p) = Filled([m.status EXCEPT ![x] = N])
          /\ FilledIn(m, x, S, p) = Filled([m.status EXCEPT ![x] = S])
      BY DEF FilledIn
    <3>5. \A s, u : [Filled(s) EXCEPT !.status = u] = Filled(u)
      BY <2>1, StatusLast
    <3> HIDE DEF Filled
    <3> QED BY <3>3, <3>4, <3>5
  <2> QED BY <2>4, <2>5, <2>6
<1>9. /\ S \subseteq {"SUSPEND", "JOINABLE", "STACK_FREE"}
      /\ rest # <<"noStack">> => "STACK_FREE" \in S
      /\ "STACK_FREE" \in S \/ S \subseteq {"SUSPEND", "JOINABLE"}
  OBVIOUS
<1>11. WellFormed(kernel')
  BY TakeTcbStep DEF TaskInv, TaskTypeOK, WellFormed, BitmapMatchesQueues
<1> HIDE DEF S, m, h
<1>12. /\ Only(m, kernel', x) /\ SameQueues(m, kernel', x) /\ SameWaits(m, kernel', x)
       /\ SamePool(m, kernel', x) /\ ~Contains(kernel'.sortLink, x)
       /\ kernel'.status[x] = S
  BY <1>4, <1>7, <1>8, <1>11, NewTaskRow
<1>13. Only(kernel, kernel', x)
  BY <1>3, <1>4, <1>12, OnlyTrans
<1>14. /\ Queues(kernel', x) = {} /\ Waits(kernel', x) = {} /\ ~Contains(kernel'.free, x)
       /\ ~Contains(kernel'.recycle, x)
  BY <1>3, <1>4, <1>5, <1>12 DEF SameQueues, SameWaits, SamePool
<1>15. Placed(kernel', x)
  BY <1>9, <1>12, <1>14 DEF Placed
<1>16. Sound(kernel')
  BY <1>6, <1>13, <1>15, SafeKernel, SoundStep
<1>17. /\ kernel'.run = kernel.run
       /\ \A z \in Task : z # x => kernel'.status[z] = kernel.status[z]
       /\ \A z \in Task : Waits(kernel', z) = Waits(kernel, z)
  BY <1>5, <1>13, <1>14 DEF Only, SameControl, SameRow, SameFlags, SameWaits
<1>18. SwitchComes'
  <2>1. kernel.run \in Task => kernel.status[kernel.run] \cap Blocking = {}
    <3>1. t = kernel.run /\ Head(todo[t]) # "schedule"
      BY <1>1 DEF Thread
    <3> QED BY <1>1, <3>1, ThreadFree
  <2> QED BY <1>6, <1>17, <2>1, NothingToCome
<1>19. todo[t] = <<"take">>
  BY <1>1, RestSteps DEF SafeInv
<1>20. /\ todo' = [todo EXCEPT ![t] = rest, ![x] = <<>>]
       /\ arg' = [arg EXCEPT ![t] = IF rest = <<>> THEN NoArg ELSE x, ![x] = NoArg]
       /\ handles' = IF rest = <<>> THEN handles \cup {x} ELSE handles \ {x}
  BY <1>2, <1>4
<1>21. /\ todo'[t] = rest /\ \A u \in TCB : todo'[u] \in Rest
       /\ \A u \in TCB, z \in Task : Creating(u, z)' =>
             \/ u = t /\ z = x /\ rest # <<>>
             \/ u # t /\ u # x /\ z # x /\ Creating(u, z) /\ todo'[u] = todo[u]
       /\ \A u \in TCB, z \in Task : Joins(u, z)' => u # t /\ u # x /\ z # x /\ Joins(u, z)
       /\ \A u \in TCB, z \in Task : u # x /\ Reclaims(u, z) => Reclaims(u, z)'
  <2>1. /\ todo'[t] = rest /\ todo'[x] = <<>> /\ arg'[x] = NoArg
        /\ arg'[t] = IF rest = <<>> THEN NoArg ELSE x
        /\ \A u \in TCB : u # t /\ u # x => todo'[u] = todo[u] /\ arg'[u] = arg[u]
    BY <1>6, <1>20 DEF TaskInv, TaskTypeOK, TCB
  <2> QED BY <1>5, <1>6, <1>19, <2>1, TakeTcbCalls
<1>22. CreateInv'
  <2>1. SUFFICES ASSUME NEW u \in TCB, NEW z \in Task, Creating(u, z)'
                 PROVE  /\ kernel'.status[z] \subseteq {"SUSPEND", "JOINABLE", "STACK_FREE"}
                        /\ todo'[u] = <<"enqueue">> => "STACK_FREE" \in kernel'.status[z]
                        /\ z \notin handles'
                        /\ \A v \in TCB : Creating(v, z)' => v = u
    BY DEF CreateInv
  <2>2. CASE u = t /\ z = x /\ rest # <<>>
    <3>1. \A v \in TCB : Creating(v, z)' => v = u
      BY <1>21, <2>2
    <3>2. todo'[u] = <<"enqueue">> => "STACK_FREE" \in S
      BY <1>9, <1>21, <2>2
    <3> QED BY <1>9, <1>12, <1>20, <2>2, <3>1, <3>2
  <2>3. CASE u # t /\ u # x /\ z # x /\ Creating(u, z) /\ todo'[u] = todo[u]
    <3>1. /\ kernel.status[z] \subseteq {"SUSPEND", "JOINABLE", "STACK_FREE"}
          /\ todo[u] = <<"enqueue">> => "STACK_FREE" \in kernel.status[z]
          /\ z \notin handles
          /\ \A v \in TCB : Creating(v, z) => v = u
      BY <2>3 DEF SafeInv, CreateInv
    <3>2. \A v \in TCB : Creating(v, z)' => v = u
      BY <1>21, <2>3, <3>1
    <3> QED BY <1>17, <1>20, <2>3, <3>1, <3>2
  <2> QED BY <1>21, <2>1, <2>2, <2>3
<1>23. JoinInv'
  <2>1. ASSUME NEW z \in Task, NEW u \in Task, z \in Waits(kernel', u)
        PROVE  /\ Reclaims(u, z)' /\ "JOINABLE" \in kernel'.status[z] /\ "EXIT" \notin kernel'.status[z]
               /\ "PEND_TIME" \notin kernel'.status[u]
    <3>1. z \in Waits(kernel, u) /\ u # x /\ u \in TCB
      BY <1>14, <1>17, <2>1 DEF TCB
    <3>2. /\ Reclaims(u, z) /\ "JOINABLE" \in kernel.status[z] /\ "EXIT" \notin kernel.status[z]
          /\ "PEND_TIME" \notin kernel.status[u]
      BY <3>1 DEF SafeInv, JoinInv
    <3>3. z # x
      BY <1>5, <3>1, <3>2 DEF SafeInv, JoinInv, Joins
    <3> QED BY <1>17, <1>21, <3>1, <3>2, <3>3
  <2>2. ASSUME NEW z \in Task, NEW u \in TCB, Joins(u, z)'
        PROVE  /\ u \in Task /\ u # z /\ z \in handles' /\ "UNUSED" \notin kernel'.status[z]
               /\ "EXIT" \in kernel'.status[z] \/ z \in Waits(kernel', u)
               /\ \A v \in TCB : Joins(v, z)' => v = u
    <3>1. z # x /\ Joins(u, z) /\ \A v \in TCB : Joins(v, z)' => Joins(v, z)
      BY <1>21, <2>2
    <3>2. /\ u \in Task /\ u # z /\ z \in handles /\ "UNUSED" \notin kernel.status[z]
          /\ "EXIT" \in kernel.status[z] \/ z \in Waits(kernel, u)
          /\ \A v \in TCB : Joins(v, z) => v = u
      BY <3>1 DEF SafeInv, JoinInv
    <3> QED BY <1>17, <1>20, <3>1, <3>2
  <2> QED BY <2>1, <2>2 DEF JoinInv
<1>24. HandleInv'
  <2>1. SUFFICES ASSUME NEW z \in handles'
                 PROVE  ~(kernel'.status[z] \subseteq {"SUSPEND", "JOINABLE"})
    BY DEF HandleInv
  <2>2. CASE z = x
    <3>1. "STACK_FREE" \in S
      BY <1>9, <1>20, <2>2
    <3> QED BY <1>12, <2>2, <3>1
  <2>3. CASE z # x
    <3>1. z \in handles /\ z \in Task
      BY <1>20, <2>3, NamedIsTask
    <3> QED BY <1>17, <2>3, <3>1 DEF SafeInv, HandleInv
  <2> QED BY <2>2, <2>3
<1>25. ResultInv'
  <2>1. \A u \in TCB : u # t /\ u # x => todo'[u] = todo[u] /\ arg'[u] = arg[u]
    BY <1>6, <1>20 DEF TaskInv, TaskTypeOK, TCB
  <2>2. \A o \in WaitObj : ~Results(t, o)
    BY <1>19 DEF Results
  <2>3. t \in Task => Waits(kernel', t) \cap WaitObj = {}
    BY <1>17, <2>2 DEF SafeInv, ResultInv
  <2> QED BY <1>14, <1>17, <2>1, <2>3, ResultsStay DEF TCB
<1>26. SafeInv'
  BY <1>16, <1>18, <1>21, <1>22, <1>23, <1>24, <1>25 DEF SafeInv
<1>27. TcbTaken(t, x)
  <2>1. kernel'.status[x] \subseteq {"SUSPEND", "JOINABLE", "STACK_FREE"}
    BY <1>9, <1>12
  <2>2. /\ todo'[t] = rest /\ todo'[x] = <<>> /\ arg'[t] = IF rest = <<>> THEN NoArg ELSE x
        /\ \A u \in TCB : u # t /\ u # x => todo'[u] = todo[u] /\ arg'[u] = arg[u]
    BY <1>6, <1>20 DEF TaskInv, TaskTypeOK, TCB
  <2> QED BY <1>5, <1>6, <1>17, <1>19, <2>1, <2>2 DEF TcbTaken
<1> QED BY <1>26, <1>27

-----------------------------------------------------------------------------
(* Joining.                                                                *)

JoinSteps == {<<"schedule", "joinReclaim">>, <<"joinReclaim">>, <<"join">>}

\* The call of t goes on to join x, whom nobody else joins.
LEMMA JoinBegins ==
    ASSUME TaskInv, SafeInv, NEW t \in Task, NEW x \in Task, x # t, x \in handles,
           \A u \in TCB : Joins(u, x) => u = t,
           \A z \in Task : z \notin Waits(kernel, t),
           todo'[t] \in JoinSteps, arg'[t] = x, handles' = handles,
           \A u \in TCB : u # t => todo'[u] = todo[u] /\ arg'[u] = arg[u],
           Sound(kernel'), SwitchComes',
           kernel'.status[t] = kernel.status[t] \/ (NotNew(t) /\ Kept(kernel, kernel', t)),
           "PEND_TIME" \notin kernel.status[t],
           \A z \in Task : z # t => /\ kernel'.status[z] = kernel.status[z]
                                    /\ SameWaits(kernel, kernel', z),
           "UNUSED" \notin kernel.status[x],
           "EXIT" \in kernel.status[x] \/ x \in Waits(kernel', t),
           \A z \in Waits(kernel', t) :
              /\ z = x /\ "JOINABLE" \in kernel.status[x] /\ "EXIT" \notin kernel.status[x]
              /\ todo'[t] # <<"join">>
    PROVE  SafeInv'
<1>1. /\ t \in TCB
      /\ \A z \in Task : (Joins(t, z)' <=> z = x) /\ ~Creating(t, z)'
      /\ todo'[t] # <<"join">> => Reclaims(t, x)'
  <2>1. /\ <<"enqueue">> \notin JoinSteps /\ <<"noStack">> \notin JoinSteps
    BY DEF JoinSteps
  <2>2. \A z \in Task : ~Creating(t, z)'
    BY <2>1 DEF Creating
  <2> QED BY <2>2 DEF Joins, Reclaims, JoinSteps, TCB
<1>2. \A u \in TCB, z \in Task : u # t =>
         /\ Creating(u, z)' <=> Creating(u, z)
         /\ Reclaims(u, z)' <=> Reclaims(u, z)
         /\ Joins(u, z)' <=> Joins(u, z)
  BY DEF Creating, Reclaims, Joins
<1>3. \A u \in TCB : todo'[u] \in Rest
  BY DEF SafeInv, JoinSteps, Rest
<1>4. ASSUME NEW z \in Task, NEW u \in Task, z \in Waits(kernel', u)
      PROVE  (u # t /\ z \in Waits(kernel, u)) \/ (u = t /\ z = x)
  <2>1. u = t => z = x
    BY <1>4
  <2>2. u # t => SameWaits(kernel, kernel', u)
    OBVIOUS
  <2> QED BY <1>4, <2>1, <2>2 DEF SameWaits
<1>5. \A z \in Task : kernel'.status[z] = kernel.status[z] \/ (NotNew(z) /\ Kept(kernel, kernel', z))
  OBVIOUS
<1>6. \A z \in Task : \/ kernel'.status[z] = kernel.status[z]
                      \/ "JOINABLE" \in kernel.status[z] <=> "JOINABLE" \in kernel'.status[z]
  BY <1>5 DEF Kept
<1>7. \A z \in Task : /\ "JOINABLE" \in kernel.status[z] <=> "JOINABLE" \in kernel'.status[z]
                      /\ "EXIT" \in kernel.status[z] <=> "EXIT" \in kernel'.status[z]
                      /\ "UNUSED" \in kernel.status[z] <=> "UNUSED" \in kernel'.status[z]
                      /\ "STACK_FREE" \in kernel.status[z] <=> "STACK_FREE" \in kernel'.status[z]
  BY <1>5 DEF Kept
<1>8. CreateInv'
  <2>1. SUFFICES ASSUME NEW u \in TCB, NEW z \in Task, Creating(u, z)'
                 PROVE  /\ kernel'.status[z] \subseteq {"SUSPEND", "JOINABLE", "STACK_FREE"}
                        /\ todo'[u] = <<"enqueue">> => "STACK_FREE" \in kernel'.status[z]
                        /\ z \notin handles'
                        /\ \A v \in TCB : Creating(v, z)' => v = u
    BY DEF CreateInv
  <2>2. u # t /\ Creating(u, z) /\ todo'[u] = todo[u]
    BY <1>1, <1>2, <2>1
  <2>3. /\ kernel.status[z] \subseteq {"SUSPEND", "JOINABLE", "STACK_FREE"}
        /\ todo[u] = <<"enqueue">> => "STACK_FREE" \in kernel.status[z]
        /\ z \notin handles
        /\ \A v \in TCB : Creating(v, z) => v = u
    BY <2>2 DEF SafeInv, CreateInv
  <2>4. \A v \in TCB : Creating(v, z)' => v = u
    BY <1>1, <1>2, <2>3
  <2>5. kernel'.status[z] = kernel.status[z]
    BY <1>5, <2>3 DEF NotNew
  <2> QED BY <2>2, <2>3, <2>4, <2>5
<1>9. JoinInv'
  <2>1. ASSUME NEW z \in Task, NEW u \in Task, z \in Waits(kernel', u)
        PROVE  /\ Reclaims(u, z)' /\ "JOINABLE" \in kernel'.status[z] /\ "EXIT" \notin kernel'.status[z]
               /\ "PEND_TIME" \notin kernel'.status[u]
    <3>1. CASE u = t /\ z = x
      BY <1>1, <1>7, <2>1, <3>1 DEF Kept
    <3>2. CASE u # t /\ z \in Waits(kernel, u)
      <4>1. /\ Reclaims(u, z) /\ "JOINABLE" \in kernel.status[z] /\ "EXIT" \notin kernel.status[z]
            /\ "PEND_TIME" \notin kernel.status[u]
        BY <3>2 DEF SafeInv, JoinInv
      <4> QED BY <1>2, <1>7, <3>2, <4>1 DEF TCB
    <3> QED BY <1>4, <2>1, <3>1, <3>2
  <2>2. ASSUME NEW z \in Task, NEW u \in TCB, Joins(u, z)'
        PROVE  /\ u \in Task /\ u # z /\ z \in handles' /\ "UNUSED" \notin kernel'.status[z]
               /\ "EXIT" \in kernel'.status[z] \/ z \in Waits(kernel', u)
               /\ \A v \in TCB : Joins(v, z)' => v = u
    <3>1. CASE u = t
      <4>1. z = x
        BY <1>1, <2>2, <3>1
      <4>2. \A v \in TCB : Joins(v, x)' => v = t
        BY <1>2
      <4> QED BY <1>7, <3>1, <4>1, <4>2
    <3>2. CASE u # t
      <4>1. Joins(u, z)
        BY <1>2, <2>2, <3>2
      <4>2. z # x
        BY <3>2, <4>1
      <4>3. /\ u \in Task /\ u # z /\ z \in handles /\ "UNUSED" \notin kernel.status[z]
            /\ "EXIT" \in kernel.status[z] \/ z \in Waits(kernel, u)
            /\ \A v \in TCB : Joins(v, z) => v = u
        BY <4>1 DEF SafeInv, JoinInv
      <4>4. \A v \in TCB : Joins(v, z)' => v = u
        BY <1>1, <1>2, <4>2, <4>3
      <4>5. SameWaits(kernel, kernel', u)
        BY <3>2, <4>3
      <4> QED BY <1>7, <4>3, <4>4, <4>5 DEF SameWaits
    <3> QED BY <3>1, <3>2
  <2> QED BY <2>1, <2>2 DEF JoinInv
<1>10. HandleInv'
  <2>1. SUFFICES ASSUME NEW z \in handles
                 PROVE  ~(kernel'.status[z] \subseteq {"SUSPEND", "JOINABLE"})
    BY DEF HandleInv
  <2>2. z \in Task /\ Placed(kernel, z)
    BY NamedIsTask, SafeKernel
  <2>3. ~(kernel.status[z] \subseteq {"SUSPEND", "JOINABLE"})
    BY DEF SafeInv, HandleInv
  <2>4. "STACK_FREE" \in kernel.status[z] \/ kernel.status[z] \cap {"UNUSED", "EXIT"} # {}
    BY <2>2, <2>3 DEF Placed
  <2> QED BY <1>7, <2>2, <2>4
<1>11. ResultInv'
  <2>1. Waits(kernel', t) \cap WaitObj = {}
    BY SchedAssumption DEF WaitList
  <2> QED BY <2>1, ResultsStay DEF SameWaits, TCB
<1> QED BY <1>3, <1>8, <1>9, <1>10, <1>11 DEF SafeInv

\* One who is to reclaim a TCB is joining it, as the guards of the model say it.
LEMMA JoinsIsJoining ==
    ASSUME NEW u, NEW x, Joins(u, x)
    PROVE  Joining(u, x)
<1>1. arg[u] = x /\ todo[u] \in JoinSteps
  BY DEF Joins, Reclaims, JoinSteps
<1>2. CASE todo[u] = <<"schedule", "joinReclaim">>
  <2>1. 2 \in 1 .. Len(todo[u]) /\ todo[u][2] = "joinReclaim"
    BY <1>2
  <2> QED BY <1>1, <2>1 DEF Joining, Contains
<1>3. CASE todo[u] = <<"joinReclaim">> \/ todo[u] = <<"join">>
  <2>1. 1 \in 1 .. Len(todo[u]) /\ todo[u][1] \in {"joinReclaim", "join"}
    BY <1>3
  <2> QED BY <1>1, <2>1 DEF Joining, Contains
<1> QED BY <1>1, <1>2, <1>3 DEF JoinSteps

\* LOS_TaskJoin or LOS_TaskDetach of a task that has exited.
LEMMA JoinExited ==
    ASSUME TaskInv, SafeInv, NEW t \in Task, NEW x \in Task, x # t, x \in handles,
           \A u \in TCB : Joins(u, x) => u = t,
           t = kernel.run, kernel.status[t] \cap Blocking = {},
           "EXIT" \in kernel.status[x], "UNUSED" \notin kernel.status[x],
           NEW s \in JoinSteps, Call(t, kernel, s, x)
    PROVE  SafeInv'
<1>1. /\ kernel' = kernel /\ handles' = handles /\ todo'[t] = s /\ arg'[t] = x
      /\ \A u \in TCB : u # t => todo'[u] = todo[u] /\ arg'[u] = arg[u]
  <2>0. s # <<>>
    BY DEF JoinSteps
  <2>1. s # <<>> /\ t \in TCB
    BY <2>0 DEF TCB
  <2>2. /\ kernel' = kernel /\ todo' = [todo EXCEPT ![t] = s]
        /\ arg' = [arg EXCEPT ![t] = x] /\ handles' = handles
    BY <2>1 DEF Call
  <2>3. todo \in [TCB -> Seq(Step)] /\ arg \in [TCB -> WaitList \cup {NoArg}]
    BY DEF TaskInv, TaskTypeOK
  <2> QED BY <2>1, <2>2, <2>3
<1>2. \A z : z \notin Waits(kernel, t)
  BY SafeKernel DEF Placed, Blocking
<1>3. Sound(kernel') /\ kernel'.status = kernel.status
  BY <1>1, SafeKernel
<1>4. \A z \in Task : SameWaits(kernel, kernel', z)
  BY <1>1 DEF SameWaits
<1>5. SwitchComes'
  BY <1>1, NothingToCome
<1>6. /\ \A z \in Waits(kernel', t) : /\ z = x /\ "JOINABLE" \in kernel.status[x]
                                      /\ "EXIT" \notin kernel.status[x]
                                      /\ todo'[t] # <<"join">>
      /\ \A z \in Task : z \notin Waits(kernel, t)
  BY <1>1, <1>2
<1>7. /\ kernel'.status[t] = kernel.status[t]
      /\ \A z \in Task : z # t => /\ kernel'.status[z] = kernel.status[z]
                                /\ SameWaits(kernel, kernel', z)
  BY <1>3, <1>4
<1>8. todo'[t] \in JoinSteps /\ "PEND_TIME" \notin kernel.status[t]
  BY <1>1, SafeKernel DEF Placed, Blocking
<1> QED BY <1>1, <1>3, <1>5, <1>6, <1>7, <1>8, JoinBegins

\* LOS_TaskJoin of a task that has not: the running task waits on its list.
LEMMA JoinWaits ==
    ASSUME TaskInv, SafeInv, NEW t \in Task, NEW x \in Task, x # t, x \in handles,
           t = kernel.run, kernel.lock = 0, kernel.status[t] \cap Blocking = {},
           {"RUNNING", "STACK_FREE"} \subseteq kernel.status[t], "READY" \notin kernel.status[t],
           "JOINABLE" \in kernel.status[x], "EXIT" \notin kernel.status[x],
           "UNUSED" \notin kernel.status[x], kernel.pend[x] = <<>>,
           Call(t, OsSchedTaskWait(kernel, x, NoTime), <<"schedule", "joinReclaim">>, x)
    PROVE  SafeInv'
<1> DEFINE m == OsSchedTaskWait(kernel, x, NoTime)
<1>1. /\ kernel' = m /\ handles' = handles /\ todo'[t] = <<"schedule", "joinReclaim">>
      /\ arg'[t] = x
      /\ \A u \in TCB : u # t => todo'[u] = todo[u] /\ arg'[u] = arg[u]
  <2> HIDE DEF m
  <2> QED BY DEF Call, TaskInv, TaskTypeOK, TCB, m
<1>2. /\ \A z : z \notin Waits(kernel, t)
      /\ Waits(kernel, t) = {} /\ Queues(kernel, t) = {} /\ x \in WaitList
  BY SafeKernel DEF Placed, Blocking, WaitList
<1>3. /\ Only(kernel, m, t) /\ SameQueues(kernel, m, t) /\ SamePool(kernel, m, t)
      /\ SameTime(kernel, m, t) /\ m.status[t] = kernel.status[t] \cup {"PEND"}
      /\ Waits(m, t) = {x}
  BY <1>2, SafeKernel, WaitRow
<1> HIDE DEF m
<1>4. Placed(m, t)
  <2>1. Placed(kernel, t)
    BY SafeKernel
  <2>2. m.run = t
    BY <1>3 DEF Only, SameControl
  <2> QED BY <1>3, <2>1, <2>2 DEF Placed, SameQueues, SamePool, SameTime, Blocking
<1>5. Sound(kernel')
  BY <1>1, <1>3, <1>4, SafeKernel, SoundStep DEF Blocking
<1>6. SwitchComes'
  <2>1. kernel'.run = t /\ kernel'.lock = 0
    BY <1>1, <1>3 DEF Only, SameControl
  <2>2. todo'[t] # <<>> /\ Head(todo'[t]) = "schedule"
    BY <1>1
  <2> QED BY <2>1, <2>2 DEF SwitchComes
<1>7. \A z \in Task : z # t => /\ kernel'.status[z] = kernel.status[z]
                               /\ SameWaits(kernel, kernel', z)
  BY <1>1, <1>3 DEF Only, SameRow, SameFlags
<1>8. NotNew(t) /\ Kept(kernel, kernel', t)
  BY <1>1, <1>3 DEF NotNew, Kept
<1>9. \A u \in TCB : ~Joins(u, x)
  <2>1. ASSUME NEW u \in TCB, Joins(u, x)
        PROVE  FALSE
    <3>1. x \in Waits(kernel, u)
      BY <2>1 DEF SafeInv, JoinInv
    <3> QED BY <3>1 DEF Waits, Contains
  <2> QED BY <2>1
<1>10. todo'[t] \in JoinSteps /\ todo'[t] # <<"join">>
  BY <1>1 DEF JoinSteps
<1>11. /\ x \in Waits(kernel', t)
       /\ \A z \in Waits(kernel', t) : /\ z = x /\ "JOINABLE" \in kernel.status[x]
                                       /\ "EXIT" \notin kernel.status[x]
                                       /\ todo'[t] # <<"join">>
       /\ \A z \in Task : z \notin Waits(kernel, t)
  BY <1>1, <1>2, <1>3, <1>10
<1>12. \A u \in TCB : Joins(u, x) => u = t
  BY <1>9
<1>13. /\ handles' = handles /\ arg'[t] = x /\ todo'[t] \in JoinSteps
       /\ \A u \in TCB : u # t => todo'[u] = todo[u] /\ arg'[u] = arg[u]
  BY <1>1, <1>10
<1>14. "PEND_TIME" \notin kernel.status[t]
  BY SafeKernel DEF Placed, Blocking
<1> QED BY <1>5, <1>6, <1>7, <1>8, <1>11, <1>12, <1>13, <1>14, JoinBegins

\* LOS_TaskJoin: it waits for the exit, or takes the TCB of a task that has
\* exited.
LEMMA JoinSafe ==
    ASSUME Unprotected = {}, TaskInv, SafeInv, NEW t \in TCB, NEW x \in Task, TaskJoin(t, x)
    PROVE  SafeInv'
<1>1. CASE App(t, "join") /\ MayJoin(t, x) /\ Created(x)
  <2>1. /\ t \in Task /\ todo[t] \in Plain /\ t = kernel.run
        /\ kernel.status[t] \cap Blocking = {} /\ "READY" \notin kernel.status[t]
        /\ {"RUNNING", "STACK_FREE"} \subseteq kernel.status[t]
    BY <1>1, AppFree
  <2>2. /\ x # t /\ kernel.lock = 0 /\ x \in handles /\ "UNUSED" \notin kernel.status[x]
        /\ Has(kernel, x, {"EXIT"}) => \A u \in TCB \ {t} : ~Joining(u, x)
    BY <1>1 DEF MayJoin, Named, Created
  <2>3. JoinPend(t, x)
    BY <1>1 DEF TaskJoin
  <2>4. CASE "EXIT" \in kernel.status[x]
    <3>1. Call(t, kernel, <<"schedule", "joinReclaim">>, x)
      BY <2>3, <2>4 DEF JoinPend, Has
    <3>2. \A u \in TCB : Joins(u, x) => u = t
      BY <2>2, <2>4, JoinsIsJoining DEF Has
    <3>3. <<"schedule", "joinReclaim">> \in JoinSteps
      BY DEF JoinSteps
    <3> QED BY <2>1, <2>2, <2>4, <3>1, <3>2, <3>3, JoinExited
  <2>5. CASE "EXIT" \notin kernel.status[x] /\ "JOINABLE" \in kernel.status[x]
                /\ kernel.pend[x] = <<>>
    <3>1. Call(t, OsSchedTaskWait(kernel, x, NoTime), <<"schedule", "joinReclaim">>, x)
      BY <2>3, <2>5 DEF JoinPend, Has
    <3> QED BY <2>1, <2>2, <2>5, <3>1, JoinWaits
  <2>6. CASE "EXIT" \notin kernel.status[x]
                /\ ~("JOINABLE" \in kernel.status[x] /\ kernel.pend[x] = <<>>)
    <3>1. Call(t, kernel, <<>>, x)
      BY <2>3, <2>6 DEF JoinPend, Has
    <3>2. SameCalls /\ kernel' = kernel
      BY <2>1, <3>1, AppCalls DEF Plain
    <3>3. SwitchComes'
      BY <2>1, <3>2, NothingToCome
    <3> QED BY <3>2, <3>3, CalmStep DEF SameLists
  <2> QED BY <2>4, <2>5, <2>6
<1>2. CASE Doing(t, "join") /\ arg[t] = x /\ t \in Task
  <2>1. todo[t] = <<"join">> /\ Thread(t) /\ Head(todo[t]) = "join"
    BY <1>2, RestSteps DEF SafeInv, Doing
  <2>2. Joins(t, x)
    BY <1>2, <2>1 DEF Joins
  <2>3. /\ t # x /\ x \in handles /\ "UNUSED" \notin kernel.status[x]
        /\ "EXIT" \in kernel.status[x] \/ x \in Waits(kernel, t)
        /\ \A u \in TCB : Joins(u, x) => u = t
    BY <2>2 DEF SafeInv, JoinInv
  <2>4. t = kernel.run /\ kernel.status[t] \cap Blocking = {}
    <3>1. Head(todo[t]) # "schedule"
      BY <2>1
    <3> QED BY <1>2, <2>1, <3>1, ThreadFree
  <2>5. "EXIT" \in kernel.status[x]
    BY <1>2, <2>3, <2>4, SafeKernel DEF Placed, Blocking
  <2>6. Call(t, kernel, <<"schedule", "joinReclaim">>, x)
    BY <2>3, <2>5 DEF TaskJoin, JoinPend, Created, Has
  <2>7. <<"schedule", "joinReclaim">> \in JoinSteps
    BY DEF JoinSteps
  <2> QED BY <1>2, <2>3, <2>4, <2>5, <2>6, <2>7, JoinExited
<1> QED BY <1>1, <1>2 DEF TaskJoin

\* LOS_TaskDetach: the task is not joinable any more, or its TCB is taken when
\* it has exited.
LEMMA DetachSafe ==
    ASSUME Unprotected = {}, TaskInv, SafeInv, NEW t \in TCB, NEW x \in Task, TaskDetach(t, x)
    PROVE  SafeInv'
<1>1. /\ App(t, "join") /\ x \in handles /\ "UNUSED" \notin kernel.status[x]
  BY DEF TaskDetach, Created, Named
<1>2. /\ t \in Task /\ todo[t] \in Plain /\ t = kernel.run /\ todo[t] = <<>>
      /\ kernel.status[t] \cap Blocking = {} /\ "READY" \notin kernel.status[t]
      /\ {"RUNNING", "STACK_FREE"} \subseteq kernel.status[t]
  BY <1>1, AppFree
<1>3. CASE "EXIT" \in kernel.status[x]
  <2>1. MayJoin(t, x) /\ Call(t, kernel, <<"join">>, x)
    BY <1>3 DEF TaskDetach, Has
  <2>2. x # t /\ \A u \in TCB \ {t} : ~Joining(u, x)
    BY <1>3, <2>1 DEF MayJoin, Has
  <2>3. \A u \in TCB : Joins(u, x) => u = t
    BY <2>2, JoinsIsJoining
  <2>4. <<"join">> \in JoinSteps
    BY DEF JoinSteps
  <2> QED BY <1>1, <1>2, <1>3, <2>1, <2>2, <2>3, <2>4, JoinExited
<1>4. CASE "EXIT" \notin kernel.status[x]
  <2> DEFINE S == kernel.status[x] \ {"JOINABLE"}
  <2>1. /\ kernel.pend[x] = <<>> /\ "JOINABLE" \in kernel.status[x]
        /\ Call(t, Mark(kernel, x, S), <<>>, x)
    BY <1>4 DEF TaskDetach, Has, Mark
  <2>2. "STACK_FREE" \in S /\ "STACK_FREE" \in kernel.status[x]
    BY <1>1, <1>4, SafeKernel DEF Named, Created, SafeInv, HandleInv, Placed
  <2>3. Fits(x, S)
    <3>1. kernel.status[x] \in SUBSET Flag /\ x # Idle /\ x # Boot
      BY SafeKernel, SchedAssumption DEF WellFormed, SchedState, TCB
    <3> QED BY <3>1 DEF Fits
  <2>4. \A f : f # "JOINABLE" => (f \in S <=> f \in kernel.status[x])
    OBVIOUS
  <2>5. S \subseteq kernel.status[x] /\ "JOINABLE" \notin S
    OBVIOUS
  <2> HIDE DEF S
  <2>6. /\ kernel' = Mark(kernel, x, S) /\ handles' = handles /\ todo'[t] = <<>>
        /\ \A u \in TCB : u # t => todo'[u] = todo[u] /\ arg'[u] = arg[u]
    <3> DEFINE m == Mark(kernel, x, S)
    <3>1. Call(t, m, <<>>, x)
      BY <2>1
    <3> HIDE DEF m
    <3>2. kernel' = m /\ handles' = handles /\ todo'[t] = <<>>
          /\ \A u \in TCB : u # t => todo'[u] = todo[u] /\ arg'[u] = arg[u]
      BY <3>1 DEF Call, TaskInv, TaskTypeOK
    <3> QED BY <3>2 DEF m
  <2>7. Only(kernel, kernel', x) /\ SamePlace(kernel, kernel', x) /\ kernel'.status[x] = S
    BY <2>3, <2>6, SafeKernel, MarkRow
  <2>8. Placed(kernel', x)
    <3>1. Placed(kernel, x)
      BY SafeKernel
    <3>2. kernel'.run = kernel.run /\ kernel'.priority[x] = kernel.priority[x]
      BY <2>3, <2>6, SafeKernel, MarkRow DEF Only, SameControl
    <3>3. /\ Queues(kernel', x) = Queues(kernel, x) /\ Waits(kernel', x) = Waits(kernel, x)
          /\ Contains(kernel'.free, x) <=> Contains(kernel.free, x)
          /\ Contains(kernel'.recycle, x) <=> Contains(kernel.recycle, x)
          /\ Contains(kernel'.sortLink, x) <=> Contains(kernel.sortLink, x)
          /\ kernel'.due[x] = NoTime <=> kernel.due[x] = NoTime
      BY <2>7 DEF SamePlace, SameQueues, SameWaits, SamePool, SameTime
    <3> QED BY <2>2, <2>4, <2>5, <2>7, <3>1, <3>2, <3>3 DEF Placed, Blocking
  <2>9. Sound(kernel')
    <3>1. x = kernel.run => /\ {"RUNNING", "STACK_FREE"} \subseteq kernel'.status[x]
                            /\ kernel'.status[x] \cap {"UNUSED", "READY"} = {}
      BY <1>1, <1>2, <2>4, <2>7
    <3> QED BY <2>7, <2>8, <3>1, SafeKernel, SoundStep
  <2>10. SwitchComes'
    <3>1. kernel'.run = t
      BY <1>2, <2>7 DEF Only, SameControl
    <3>2. kernel'.status[t] \subseteq kernel.status[t]
      BY <1>2, <2>5, <2>7 DEF Only, SameRow, SameFlags
    <3> QED BY <1>2, <3>1, <3>2, NothingToCome
  <2>11. /\ FewerCalls
         /\ \A z \in Task : ~Creating(t, z)' /\ ~Joins(t, z)' /\ ~Reclaims(t, z)'
         /\ \A u \in TCB, z \in Task : u # t => (Reclaims(u, z)' <=> Reclaims(u, z))
    BY <2>6, CallEnds DEF Plain
  <2>12. /\ \A z \in Task : Waits(kernel', z) = Waits(kernel, z)
         /\ \A z \in Task : z # x => kernel'.status[z] = kernel.status[z]
    BY <2>7 DEF Only, SameRow, SameWaits, SamePlace, SameFlags
  <2>13. \A u \in TCB : x \notin Waits(kernel, u)
    BY <2>1 DEF Waits, Contains
  <2>14. ASSUME NEW z \in Task PROVE Fine(z)
    <3>1. CASE z = x
      <4>1. \A u \in TCB : ~Joins(u, x)'
        <5>1. \A u \in TCB : Joins(u, x)' => Joins(u, x)
          BY <2>11 DEF FewerCalls
        <5>2. \A u \in TCB : ~Joins(u, x)
          BY <1>4, <2>13 DEF SafeInv, JoinInv
        <5> QED BY <5>1, <5>2
      <4>2. \A u \in TCB : ~Creating(u, x)'
        <5>1. \A u \in TCB : Creating(u, x)' => Creating(u, x)
          BY <2>11 DEF FewerCalls
        <5> QED BY <1>1, <5>1 DEF SafeInv, CreateInv
      <4>3. \A u \in Task : x \notin Waits(kernel', u)
        BY <2>12, <2>13 DEF TCB
      <4> QED BY <2>2, <2>7, <3>1, <4>1, <4>2, <4>3 DEF Fine
    <3>2. CASE z # x
      <4>1. \A u \in Task : Reclaims(u, z) => Reclaims(u, z)'
        <5>1. ~Reclaims(t, z)
          BY <1>2 DEF Reclaims
        <5> QED BY <2>11, <5>1 DEF TCB
      <4> QED BY <2>6, <2>11, <2>12, <3>2, <4>1, FineOther
    <3> QED BY <3>1, <3>2
  <2>15. handles \subseteq handles' /\ handles' \subseteq Task
    BY <2>6, NamedIsTask
  <2>16. Untimed
    BY <2>5, <2>7, <2>12 DEF Untimed
  <2>17. ResultInv'
    <3>1. Waits(kernel', t) = {}
      BY <1>2, <2>12, SafeKernel DEF Placed, Blocking
    <3> QED BY <2>6, <2>12, <3>1, ResultsStay DEF TCB
  <2> QED BY <2>9, <2>10, <2>11, <2>14, <2>15, <2>16, <2>17, CallsStep
<1> QED BY <1>3, <1>4

-----------------------------------------------------------------------------
(* The end of a task.                                                      *)

\* The task that joins x waits on its list; there is at most one.
LEMMA JoinerOf ==
    ASSUME TaskInv, SafeInv, NEW x \in Task, kernel.pend[x] # <<>>,
           NEW w, w = Head(kernel.pend[x])
    PROVE  /\ w \in Task /\ w # x /\ x \in Waits(kernel, w) /\ "PEND" \in kernel.status[w]
           /\ "JOINABLE" \in kernel.status[x]
           /\ \A y \in Task : x \in Waits(kernel, y) => y = w
<1>1. kernel.pend[x] \in Seq(Task) /\ x \in WaitList
  BY SafeKernel DEF WellFormed, SchedState, WaitList
<1>2. w \in Task /\ Contains(kernel.pend[x], w)
  <2>1. w \in Task /\ Len(kernel.pend[x]) > 0 /\ w = kernel.pend[x][1]
    BY <1>1
  <2> QED BY <1>1, <2>1 DEF Contains
<1>3. x \in Waits(kernel, w)
  BY <1>1, <1>2 DEF Waits
<1>4. Reclaims(w, x) /\ "JOINABLE" \in kernel.status[x]
  BY <1>2, <1>3 DEF SafeInv, JoinInv
<1>5. w # x
  BY <1>2, <1>4 DEF SafeInv, JoinInv, Joins, TCB
<1>6. ASSUME NEW y \in Task, x \in Waits(kernel, y) PROVE y = w
  <2>1. Joins(y, x) /\ Joins(w, x) /\ y \in TCB /\ w \in TCB
    BY <1>2, <1>4, <1>6 DEF SafeInv, JoinInv, Joins, TCB
  <2> QED BY <2>1 DEF SafeInv, JoinInv
<1>7. "PEND" \in kernel.status[w]
  BY <1>2, <1>3, SafeKernel DEF Placed
<1> QED BY <1>2, <1>3, <1>4, <1>5, <1>6, <1>7

\* What the end of x does to another task: nothing, or it wakes the task that joins x.
JoinerWoken(k, r, x, z) ==
    \/ r.status[z] = k.status[z] /\ Waits(r, z) = Waits(k, z)
    \/ /\ SameLife(k, r, z) /\ Waits(r, z) = {} /\ x \in Waits(k, z)
       /\ "TIMEOUT" \in r.status[z] <=> "TIMEOUT" \in k.status[z]

\* OsTaskJoinPostUnsafe: nobody waits for x any more.
LEMMA JoinPostRow ==
    ASSUME TaskInv, SafeInv, NEW x \in Task, kernel.run \in Task,
           kernel.status[kernel.run] \cap Blocking = {},
           NEW k, WellFormed(k), Sound(k), SameLists(k, kernel), k.status = kernel.status,
           k.run = kernel.run,
           NEW j, j = OsTaskJoinPostUnsafe(k, x)
    PROVE  /\ WellFormed(j) /\ Sound(j) /\ SameControl(k, j)
           /\ j.status[x] = kernel.status[x]
           /\ \A z \in Task : z # x => JoinerWoken(kernel, j, x, z)
           /\ \A y \in Task : y # x => x \notin Waits(j, y)
<1> DEFINE w == Head(kernel.pend[x])
<1>1. k.pend = kernel.pend /\ \A z : Waits(k, z) = Waits(kernel, z)
  BY DEF SameLists, Waits
<1>2. CASE kernel.pend[x] = <<>>
  <2>1. j = k
    BY <1>1, <1>2 DEF OsTaskJoinPostUnsafe
  <2>2. \A y : x \notin Waits(kernel, y)
    BY <1>2 DEF Waits, Contains
  <2> QED BY <1>1, <2>1, <2>2 DEF JoinerWoken, SameControl
<1>3. CASE kernel.pend[x] # <<>>
  <2>1. /\ w \in Task /\ w # x /\ x \in Waits(kernel, w) /\ "PEND" \in kernel.status[w]
        /\ "JOINABLE" \in kernel.status[x]
        /\ \A y \in Task : x \in Waits(kernel, y) => y = w
    BY <1>3, JoinerOf
  <2>2. j = OsSchedTaskWake(k, w)
    BY <1>1, <1>3, <2>1 DEF OsTaskJoinPostUnsafe, Has
  <2> HIDE DEF w
  <2>3. Tidy(k) /\ Placed(k, w) /\ Placed(k, x)
    BY <2>1 DEF Sound
  <2>4. /\ Only(k, j, w) /\ Placed(j, w) /\ Waits(j, w) = {} /\ SameLife(k, j, w)
        /\ "TIMEOUT" \in j.status[w] <=> "TIMEOUT" \in k.status[w]
    BY <2>1, <2>2, <2>3, TaskWakeRow
  <2>5. w # k.run
    BY <2>1 DEF Blocking
  <2>6. Sound(j)
    BY <2>1, <2>4, <2>5, SoundStep
  <2>7. \A z \in Task : z # w => j.status[z] = kernel.status[z] /\ Waits(j, z) = Waits(kernel, z)
    BY <1>1, <2>4 DEF Only, SameRow, SameFlags, SameWaits
  <2>8. SameLife(kernel, j, w)
    BY <2>4 DEF SameLife
  <2>9. \A z \in Task : z # x => JoinerWoken(kernel, j, x, z)
    BY <2>1, <2>4, <2>7, <2>8 DEF JoinerWoken
  <2>10. \A y \in Task : y # x => x \notin Waits(j, y)
    BY <2>1, <2>4, <2>7
  <2> QED BY <2>1, <2>4, <2>6, <2>7, <2>9, <2>10 DEF Only
<1> QED BY <1>2, <1>3

\* What OsTaskExit does to the lists: the task leaves them, and its joiner is
\* woken.
LEMMA ExitedRow ==
    ASSUME TaskInv, SafeInv, NEW x \in Task, kernel.run \in Task,
           kernel.status[kernel.run] \cap Blocking = {},
           "UNUSED" \notin kernel.status[x], NEW e, e = Exited(x)
    PROVE  /\ WellFormed(e) /\ Sound(e) /\ e.run = kernel.run /\ e.started = kernel.started
           /\ e.pendSV = kernel.pendSV /\ (x = kernel.run => e.lock = 0)
           /\ Waits(e, x) = {} /\ Placed(e, x)
           /\ e.status[x] = (kernel.status[x] \ {"READY", "PEND", "DELAY", "PEND_TIME"}) \cup {"EXIT"}
           /\ \A z \in Task : z # x => JoinerWoken(kernel, e, x, z)
           /\ \A y \in Task : x \notin Waits(e, y)
<1> DEFINE k == IF Has(kernel, x, {"RUNNING"}) THEN [kernel EXCEPT !.lock = 0] ELSE kernel
           j == OsTaskJoinPostUnsafe(k, x)
<1>1. /\ WellFormed(kernel) /\ Sound(kernel)
      /\ x = kernel.run => "RUNNING" \in kernel.status[x]
  BY SafeKernel DEF Sound, Runs
<1>2. /\ WellFormed(k) /\ SameLists(k, kernel) /\ SameLists(kernel, k) /\ k.status = kernel.status
      /\ k.run = kernel.run
      /\ k.priority = kernel.priority /\ k.started = kernel.started /\ k.panic = kernel.panic
      /\ k.pendSV = kernel.pendSV /\ (x = kernel.run => k.lock = 0)
  <2>1. WellFormed([kernel EXCEPT !.lock = 0])
    BY <1>1, LockKeeps, KeepsWellFormed
  <2>2. CASE Has(kernel, x, {"RUNNING"})
    BY <1>1, <2>1, <2>2 DEF SameLists, WellFormed, SchedState
  <2>3. CASE ~Has(kernel, x, {"RUNNING"})
    BY <1>1, <2>3 DEF SameLists, Has
  <2> QED BY <2>2, <2>3
<1>3. e = OsSchedTaskExit(j, x)
  BY DEF Exited
<1> HIDE DEF k
<1>4. Sound(k)
  <2>1. k.run # Boot
    BY <1>2, SchedAssumption
  <2> QED BY <1>1, <1>2, <2>1, SoundSame
<1>5. /\ WellFormed(j) /\ Sound(j) /\ SameControl(k, j)
      /\ j.status[x] = kernel.status[x]
      /\ \A z \in Task : z # x => JoinerWoken(kernel, j, x, z)
      /\ \A y \in Task : y # x => x \notin Waits(j, y)
  BY <1>2, <1>4, JoinPostRow
<1> HIDE DEF j
<1>6. /\ Only(j, e, x) /\ Placed(e, x) /\ Waits(e, x) = {}
      /\ e.status[x] = (j.status[x] \ {"READY", "PEND", "DELAY", "PEND_TIME"}) \cup {"EXIT"}
  <2>1. Tidy(j) /\ Placed(j, x)
    BY <1>5 DEF Sound
  <2> QED BY <1>3, <1>5, <2>1, TaskExitRow
<1>7. /\ e.run = kernel.run /\ e.started = kernel.started /\ e.pendSV = kernel.pendSV
      /\ (x = kernel.run => e.lock = 0)
      /\ j.run = kernel.run
  BY <1>2, <1>5, <1>6 DEF Only, SameControl
<1>8. Sound(e)
  <2>1. x = j.run => /\ {"RUNNING", "STACK_FREE"} \subseteq e.status[x]
                     /\ e.status[x] \cap {"UNUSED", "READY"} = {}
    <3>1. x = kernel.run => {"RUNNING", "STACK_FREE"} \subseteq kernel.status[x]
      BY <1>1 DEF Sound, Runs
    <3> QED BY <1>5, <1>6, <1>7, <3>1
  <2> QED BY <1>5, <1>6, <2>1, SoundStep
<1>9. \A z \in Task : z # x => e.status[z] = j.status[z] /\ Waits(e, z) = Waits(j, z)
  BY <1>6 DEF Only, SameRow, SameFlags, SameWaits
<1>10. \A z \in Task : z # x => JoinerWoken(kernel, e, x, z)
  BY <1>5, <1>9 DEF JoinerWoken, SameLife
<1>11. \A y \in Task : x \notin Waits(e, y)
  BY <1>5, <1>6, <1>9
<1> QED BY <1>5, <1>6, <1>7, <1>8, <1>10, <1>11 DEF Only

\* Whatever becomes of the TCB of x, the others know what they must.
LEMMA EndStep ==
    ASSUME TaskInv, SafeInv, NEW x \in Task, "EXIT" \notin kernel.status[x],
           \A u \in TCB : ~Creating(u, x),
           \A z \in Task : z # x => JoinerWoken(kernel, kernel', x, z),
           \A y \in Task : x \notin Waits(kernel', y),
           Waits(kernel', x) = {},
           "UNUSED" \in kernel'.status[x] \/ "EXIT" \in kernel'.status[x],
           "JOINABLE" \in kernel.status[x] =>
              "UNUSED" \notin kernel'.status[x] /\ "EXIT" \in kernel'.status[x],
           Sound(kernel'), SwitchComes', handles' = handles,
           NEW v \in {x, Boot}, todo'[v] \in Plain,
           \A u \in TCB : u # v => todo'[u] = todo[u] /\ arg'[u] = arg[u],
           v # x => Waits(kernel, x) = {}
    PROVE  SafeInv'
<1>1. v \in TCB /\ x \in TCB /\ \A u \in Task : u # x => u # v
  BY SchedAssumption DEF TCB
<1>2. /\ FewerCalls
      /\ \A z \in Task : ~Joins(v, z)'
      /\ \A u \in TCB, z \in Task : u # v => (Reclaims(u, z)' <=> Reclaims(u, z))
  BY <1>1, CallEnds
<1>3. Fine(x)
  <2>1. \A u \in TCB : ~Creating(u, x)'
    BY <1>2 DEF FewerCalls
  <2>2. ASSUME NEW u \in TCB, Joins(u, x)'
        PROVE  "UNUSED" \notin kernel'.status[x] /\ "EXIT" \in kernel'.status[x]
    <3>1. Joins(u, x)
      BY <1>2, <2>2 DEF FewerCalls
    <3>2. u \in Task /\ x \in Waits(kernel, u)
      BY <3>1 DEF SafeInv, JoinInv
    <3>3. "JOINABLE" \in kernel.status[x]
      BY <3>2 DEF SafeInv, JoinInv
    <3> QED BY <3>3
  <2>3. x \in handles' => ~(kernel'.status[x] \subseteq {"SUSPEND", "JOINABLE"})
    OBVIOUS
  <2> QED BY <2>1, <2>2, <2>3 DEF Fine
<1>4. ASSUME NEW z \in Task, z # x PROVE Fine(z)
  <2>1. kernel'.status[z] = kernel.status[z] \/ (NotNew(z) /\ Kept(kernel, kernel', z))
    <3>1. CASE kernel'.status[z] = kernel.status[z]
      BY <3>1
    <3>2. CASE SameLife(kernel, kernel', z) /\ x \in Waits(kernel, z)
      <4>1. "PEND" \in kernel.status[z]
        BY <3>2, SafeKernel DEF Placed
      <4> QED BY <3>2, <4>1 DEF NotNew, Kept, SameLife
    <3> QED BY <1>4, <3>1, <3>2 DEF JoinerWoken
  <2>2. ASSUME NEW u \in Task, z \in Waits(kernel', u)
        PROVE  z \in Waits(kernel, u) /\ (Reclaims(u, z) => Reclaims(u, z)')
    <3>1. u # x
      BY <2>2
    <3>2. z \in Waits(kernel, u)
      BY <2>2, <3>1 DEF JoinerWoken
    <3> QED BY <1>1, <1>2, <3>1, <3>2 DEF TCB
  <2>3. ASSUME NEW u \in Task, Joins(u, z)', z \in Waits(kernel, u)
        PROVE  z \in Waits(kernel', u)
    <3>1. u # x
      BY <1>2, <2>3
    <3>2. ~(x \in Waits(kernel, u))
      <4>1. Placed(kernel, u)
        BY SafeKernel
      <4> QED BY <1>4, <2>3, <4>1 DEF Placed
    <3> QED BY <2>3, <3>1, <3>2 DEF JoinerWoken
  <2> QED BY <1>2, <2>1, <2>2, <2>3, FineOther
<1>5. handles \subseteq handles' /\ handles' \subseteq Task
  BY NamedIsTask
<1>6. Untimed
  <2>1. "PEND_TIME" \notin kernel'.status[x]
    <3>1. Placed(kernel', x)
      BY DEF Sound
    <3> QED BY <3>1 DEF Placed
  <2> QED BY <2>1 DEF Untimed, JoinerWoken, SameLife
<1>7. ResultInv'
  <2>1. ASSUME NEW u \in Task, u # x PROVE Waits(kernel', u) \subseteq Waits(kernel, u)
    BY <2>1 DEF JoinerWoken
  <2>2. \A u \in Task : u # x => todo'[u] = todo[u] /\ arg'[u] = arg[u]
    BY <1>1 DEF TCB
  <2>3. Waits(kernel', x) \cap WaitObj = {}
    OBVIOUS
  <2> QED BY <2>1, <2>2, <2>3, ResultsStay
<1> QED BY <1>2, <1>3, <1>4, <1>5, <1>6, <1>7, CallsStep

\* x has ended, and has woken nobody but the task that joins it.
HasEnded(x) ==
    /\ "EXIT" \in kernel'.status[x] \/ kernel'.status[x] = {"UNUSED"}
    /\ \A z \in Task : z # x => JoinerWoken(kernel, kernel', x, z)
    /\ \A u \in TCB : ~Creating(u, x)

\* LOS_TaskDelete on another task.
LEMMA DeleteOtherSafe ==
    ASSUME Unprotected = {}, TaskInv, SafeInv, NEW t \in TCB, NEW x \in Task, DeleteOther(t, x)
    PROVE  SafeInv' /\ HasEnded(x)
<1> DEFINE e == Exited(x)
<1>1. /\ App(t, "delete") /\ x # t /\ x \in handles
      /\ "UNUSED" \notin kernel.status[x] /\ "EXIT" \notin kernel.status[x]
      /\ kernel' = OsRecycleTaskResources(e, x) /\ handles' = handles
      /\ todo' = [todo EXCEPT ![x] = <<>>] /\ arg' = [arg EXCEPT ![x] = NoArg]
  BY DEF DeleteOther, MayDelete, Created, Named, Has
<1>2. /\ t \in Task /\ t = kernel.run /\ kernel.status[t] \cap Blocking = {}
      /\ kernel.run \in Task /\ kernel.status[kernel.run] \cap Blocking = {}
  BY <1>1, AppFree
<1>3. /\ WellFormed(e) /\ Sound(e) /\ e.run = kernel.run
      /\ Waits(e, x) = {} /\ Placed(e, x)
      /\ e.status[x] = (kernel.status[x] \ {"READY", "PEND", "DELAY", "PEND_TIME"}) \cup {"EXIT"}
      /\ \A z \in Task : z # x => JoinerWoken(kernel, e, x, z)
      /\ \A y \in Task : x \notin Waits(e, y)
  BY <1>1, <1>2, ExitedRow
<1> HIDE DEF e
<1>4. /\ Only(e, kernel', x) /\ Placed(kernel', x) /\ Waits(kernel', x) = {}
      /\ "UNUSED" \in kernel'.status[x] \/ "EXIT" \in kernel'.status[x]
      /\ "JOINABLE" \in kernel.status[x] =>
            "UNUSED" \notin kernel'.status[x] /\ "EXIT" \in kernel'.status[x]
      /\ "EXIT" \in kernel'.status[x] \/ kernel'.status[x] = {"UNUSED"}
  <2>1. Tidy(e)
    BY <1>3 DEF Sound
  <2>2. CASE "JOINABLE" \in kernel.status[x]
    <3>1. /\ "JOINABLE" \in e.status[x] /\ "EXIT" \in e.status[x]
          /\ "UNUSED" \notin e.status[x] /\ "RUNNING" \notin e.status[x]
      BY <1>1, <1>2, <1>3, <2>2 DEF Placed
    <3>2. /\ Only(e, kernel', x) /\ Placed(kernel', x) /\ SameWaits(e, kernel', x)
          /\ kernel'.status[x] = e.status[x] \ {"STACK_FREE"}
      BY <1>1, <1>3, <2>1, <3>1, RecycleJoinableRow
    <3> QED BY <1>3, <3>1, <3>2 DEF SameWaits
  <2>3. CASE "JOINABLE" \notin kernel.status[x]
    <3>1. "JOINABLE" \notin e.status[x] /\ e.status[x] \cap {"READY", "PEND", "DELAY", "UNUSED"} = {}
      BY <1>1, <1>3, <2>3
    <3>2. e.pend[x] = <<>>
      <4>1. e.pend[x] \in Seq(Task) /\ x \in WaitList
        BY <1>3 DEF WellFormed, SchedState, WaitList
      <4>2. SUFFICES ASSUME e.pend[x] # <<>> PROVE FALSE
        OBVIOUS
      <4>3. Head(e.pend[x]) \in Task /\ Contains(e.pend[x], Head(e.pend[x]))
        BY <4>1, <4>2, EmptyList
      <4> QED BY <1>3, <4>1, <4>3 DEF Waits
    <3>3. Loose(e, x)
      BY <1>3, <3>1, <3>2, AtRest DEF Loose
    <3>4. /\ Only(e, kernel', x) /\ Placed(kernel', x) /\ Waits(kernel', x) = {}
          /\ kernel'.status[x] = {"UNUSED"}
      BY <1>1, <1>3, <2>1, <3>1, <3>3, RecycleRow
    <3> QED BY <2>3, <3>4
  <2> QED BY <2>2, <2>3
<1>5. Sound(kernel')
  BY <1>1, <1>2, <1>3, <1>4, SoundStep
<1>6. \A z \in Task : z # x => kernel'.status[z] = e.status[z] /\ Waits(kernel', z) = Waits(e, z)
  BY <1>4 DEF Only, SameRow, SameFlags, SameWaits
<1>7. \A z \in Task : z # x => JoinerWoken(kernel, kernel', x, z)
  BY <1>3, <1>6 DEF JoinerWoken, SameLife
<1>8. \A y \in Task : x \notin Waits(kernel', y)
  BY <1>3, <1>4, <1>6
<1>9. SwitchComes'
  <2>1. Waits(kernel, t) = {}
    BY <1>2, SafeKernel DEF Placed, Blocking
  <2>2. kernel'.run = t
    BY <1>2, <1>3, <1>4 DEF Only, SameControl
  <2>3. JoinerWoken(kernel, kernel', x, t)
    BY <1>1, <1>2, <1>7
  <2>4. kernel'.status[t] = kernel.status[t]
    BY <2>1, <2>3 DEF JoinerWoken
  <2> QED BY <1>2, <2>2, <2>4, NothingToCome
<1>10. \A u \in TCB : ~Creating(u, x)
  BY <1>1 DEF SafeInv, CreateInv
<1>11. /\ todo'[x] \in Plain
       /\ \A u \in TCB : u # x => todo'[u] = todo[u] /\ arg'[u] = arg[u]
  BY <1>1 DEF TaskInv, TaskTypeOK, TCB, Plain
<1>12. SafeInv'
  BY <1>1, <1>4, <1>5, <1>7, <1>8, <1>9, <1>10, <1>11, EndStep
<1> QED BY <1>4, <1>7, <1>10, <1>12 DEF HasEnded

\* LOS_TaskDelete on the task that runs, or the return of its entry function.
LEMMA DeleteSelfSafe ==
    ASSUME Unprotected = {}, TaskInv, SafeInv, NEW t \in TCB, DeleteSelf(t)
    PROVE  SafeInv' /\ HasEnded(t)
<1> DEFINE e == Exited(t)
<1>1. /\ App(t, "delete") /\ t \in handles
      /\ "UNUSED" \notin kernel.status[t] /\ "EXIT" \notin kernel.status[t]
  BY DEF DeleteSelf, MayDelete, Created, Named, Has
<1>2. /\ t \in Task /\ t = kernel.run /\ kernel.status[t] \cap Blocking = {}
      /\ kernel.run \in Task /\ kernel.status[kernel.run] \cap Blocking = {}
      /\ {"RUNNING", "STACK_FREE"} \subseteq kernel.status[t]
  BY <1>1, AppFree
<1>3. /\ WellFormed(e) /\ Sound(e) /\ e.run = t /\ e.lock = 0
      /\ Waits(e, t) = {} /\ Placed(e, t)
      /\ e.status[t] = (kernel.status[t] \ {"READY", "PEND", "DELAY", "PEND_TIME"}) \cup {"EXIT"}
      /\ \A z \in Task : z # t => JoinerWoken(kernel, e, t, z)
      /\ \A y \in Task : t \notin Waits(e, y)
  BY <1>1, <1>2, ExitedRow
<1>4. IF "JOINABLE" \in e.status[t]
      THEN Call(t, e, <<"schedule">>, NoArg)
      ELSE Call(Boot, OsRunningTaskDelete(e, t), <<"schedule">>, NoArg)
  BY DEF DeleteSelf, Has
<1> HIDE DEF e
<1>5. \A u \in TCB : ~Creating(u, t)
  BY <1>1, <1>2 DEF SafeInv, CreateInv
<1>6. CASE "JOINABLE" \in e.status[t]
  <2>1. /\ kernel' = e /\ handles' = handles /\ todo'[t] = <<"schedule">>
        /\ \A u \in TCB : u # t => todo'[u] = todo[u] /\ arg'[u] = arg[u]
    BY <1>4, <1>6 DEF Call, TaskInv, TaskTypeOK
  <2>2. SwitchComes'
    <3>1. todo'[t] # <<>> /\ Head(todo'[t]) = "schedule"
      BY <2>1
    <3> QED BY <1>3, <2>1, <3>1 DEF SwitchComes
  <2>3. "EXIT" \in kernel'.status[t] /\ "UNUSED" \notin kernel'.status[t]
    BY <1>1, <1>3, <2>1
  <2>4. todo'[t] \in Plain
    BY <2>1 DEF Plain
  <2>5. SafeInv'
    BY <1>1, <1>2, <1>3, <1>5, <2>1, <2>2, <2>3, <2>4, EndStep
  <2> QED BY <1>3, <1>5, <2>1, <2>3, <2>5 DEF HasEnded
<1>7. CASE "JOINABLE" \notin e.status[t]
  <2> DEFINE r == OsRunningTaskDelete(e, t)
  <2>1. Call(Boot, r, <<"schedule">>, NoArg)
    BY <1>4, <1>7
  <2> HIDE DEF r
  <2>2. /\ kernel' = r /\ handles' = handles /\ todo'[Boot] = <<"schedule">>
        /\ \A u \in TCB : u # Boot => todo'[u] = todo[u] /\ arg'[u] = arg[u]
    BY <2>1 DEF Call, TaskInv, TaskTypeOK, TCB
  <2>3. /\ Tidy(e) /\ ~Contains(e.recycle, t) /\ ~Contains(e.free, t) /\ Queues(e, t) = {}
        /\ ~Contains(e.sortLink, t)
    BY <1>1, <1>3 DEF Sound, Placed
  <2>4. /\ Tidy(r) /\ r.run = Boot /\ r.lock = e.lock /\ r.panic = e.panic
        /\ \A z \in Task : z # t => SameRow(e, r, z)
        /\ SameQueues(e, r, t) /\ SameWaits(e, r, t) /\ SameTime(e, r, t)
        /\ Contains(r.free, t) <=> Contains(e.free, t)
        /\ Contains(r.recycle, t)
        /\ r.status[t] = e.status[t] \cup {"UNUSED"} /\ r.status[Idle] = e.status[Idle]
    BY <1>2, <1>3, <2>3, RunningDeleteRow DEF r
  <2>5. Placed(r, t)
    <3>1. /\ Queues(r, t) = {} /\ Waits(r, t) = {} /\ ~Contains(r.free, t)
          /\ ~Contains(r.sortLink, t)
      BY <1>3, <2>3, <2>4 DEF SameQueues, SameWaits, SameTime
    <3>2. /\ r.status[t] \cap {"READY", "PEND", "DELAY", "JOINABLE", "PEND_TIME"} = {}
          /\ "UNUSED" \in r.status[t]
      BY <1>3, <1>7, <2>4 DEF Placed
    <3> QED BY <2>4, <3>1, <3>2 DEF Placed
  <2>6. ASSUME NEW z \in Task, z # t PROVE Placed(r, z)
    <3>1. Placed(e, z) /\ SameRow(e, r, z)
      BY <1>3, <2>4, <2>6 DEF Sound
    <3>2. "RUNNING" \in r.status[z] => Contains(r.recycle, z)
      BY <1>3, <2>6, <3>1 DEF Placed, SameRow, SameFlags, SamePool
    <3> QED BY <3>1, <3>2
            DEF Placed, SameRow, SameQueues, SameWaits, SamePool, SameTime, SameFlags
  <2>7. Runs(r)
    BY <1>2, <1>3, <2>4, SchedAssumption DEF Sound, Runs
  <2>8. Sound(kernel')
    BY <2>2, <2>4, <2>5, <2>6, <2>7 DEF Sound
  <2>9. SwitchComes'
    <3>1. kernel'.run \notin Task
      BY <2>2, <2>4, SchedAssumption
    <3> QED BY <3>1, NothingToCome
  <2>10. \A z \in Task : z # t => kernel'.status[z] = e.status[z] /\ Waits(kernel', z) = Waits(e, z)
    BY <2>2, <2>4 DEF SameRow, SameFlags, SameWaits
  <2>11. \A z \in Task : z # t => JoinerWoken(kernel, kernel', t, z)
    BY <1>3, <2>10 DEF JoinerWoken, SameLife
  <2>12. Waits(kernel', t) = {} /\ \A y \in Task : t \notin Waits(kernel', y)
    BY <1>3, <2>2, <2>4, <2>10 DEF SameWaits
  <2>13. Waits(kernel, t) = {}
    BY <1>2, SafeKernel DEF Placed, Blocking
  <2>14. "UNUSED" \in kernel'.status[t] /\ "JOINABLE" \notin kernel.status[t]
    BY <1>3, <1>7, <2>2, <2>4
  <2>15. todo'[Boot] \in Plain
    BY <2>2 DEF Plain
  <2>16. SafeInv'
    BY <1>1, <1>2, <1>5, <2>2, <2>8, <2>9, <2>11, <2>12, <2>13, <2>14, <2>15, EndStep
  <2>17. "EXIT" \in kernel'.status[t]
    BY <1>3, <2>2, <2>4
  <2> QED BY <1>5, <2>11, <2>16, <2>17 DEF HasEnded
<1> QED BY <1>6, <1>7

-----------------------------------------------------------------------------
(* Every step, and the initial states.                                     *)

\* A step of a task.
LEMMA TaskSafe ==
    ASSUME Unprotected = {}, TaskInv, ControlInv, SafeInv, NEW t \in TCB, TaskStep(t)
    PROVE  SafeInv'
<1>1. CASE \/ OsRecycleFinishedTask(t) \/ TaskCreate(t) \/ NothingToRecycle(t)
           \/ TakeTcb(t) \/ NoTcb(t) \/ NoStack(t) \/ EnqueueNewTask(t) \/ Schedule(t)
  BY <1>1, RecycleSafe, CreateSafe, NoTcbSafe, TakeTcbSafe, NoStackSafe, EnqueueSafe, ScheduleSafe
<1>2. CASE JoinReclaim(t) \/ DeleteSelf(t) \/ TaskYield(t) \/ TaskLock(t) \/ TaskUnlock(t)
  BY <1>2, JoinReclaimSafe, DeleteSelfSafe, YieldSafe, LockSafe
<1>3. CASE \E d \in Delay : TaskDelay(t, d)
  BY <1>3, DelaySafe
<1>4. ASSUME NEW x \in Task,
             \/ TaskResume(t, x) \/ TaskSuspend(t, x) \/ TaskJoin(t, x)
             \/ TaskDetach(t, x) \/ DeleteOther(t, x)
             \/ \E p \in CreatePrio : TaskPriSet(t, x, p)
      PROVE  SafeInv'
  BY <1>4, ResumeSafe, SuspendSafe, JoinSafe, DetachSafe, DeleteOtherSafe, PriSetSafe
<1> QED BY <1>1, <1>2, <1>3, <1>4 DEF TaskStep

\* A step of the kernel.
LEMMA NextSafe ==
    ASSUME Unprotected = {}, TaskInv, ControlInv, SafeInv, [TaskNext]_taskVars
    PROVE  SafeInv'
<1>1. CASE UNCHANGED taskVars
  <2>1. kernel' = kernel /\ UNCHANGED <<todo, arg, handles>>
    BY <1>1 DEF taskVars
  <2>2. SameCalls
    BY <2>1, UnchangedCalls
  <2>3. SwitchComes'
    BY <2>1 DEF SafeInv, SwitchComes
  <2> QED BY <2>1, <2>2, <2>3, CalmStep DEF SameLists
<1>2. CASE TimerStep
  BY <1>2, TickStartSafe, TickScanSafe, TickEndSafe, SliceEndSafe DEF TimerStep
<1>3. CASE IsrStep
  BY <1>3, IsrSafe DEF IsrStep
<1>4. CASE Start \/ PendSV
  BY <1>4, StartSafe, PendSVSafe
<1> QED BY <1>1, <1>2, <1>3, <1>4, TaskSafe DEF TaskNext

\* Every TCB is on the free list, once.
LEMMA AllFree ==
    ASSUME NEW s \in [1 .. Cardinality(Task) -> Task], IsInjective(s)
    PROVE  s \in Seq(Task) /\ \A x \in Task : Contains(s, x)
<1> DEFINE n == Cardinality(Task)
<1>1. n \in Nat /\ IsFiniteSet(Task)
  BY FS_CardinalityType, SchedAssumption
<1>2. s \in Injection(1 .. n, Task)
  BY DEF Injection, IsInjective
<1>3. IsFiniteSet(1 .. n) /\ Cardinality(1 .. n) = n
  BY <1>1, FS_Interval
<1>4. s \in Surjection(1 .. n, Task)
  BY <1>1, <1>2, <1>3, FS_Injection
<1>5. s \in Seq(Task) /\ Len(s) = n
  BY <1>1
<1> QED BY <1>4, <1>5 DEF Surjection, Contains

\* After OsTaskInit and OsIdleTaskCreate all TCBs are free.
LEMMA InitSafe == Init => SafeInv
<1> SUFFICES ASSUME Init PROVE SafeInv
  OBVIOUS
<1>1. /\ \A t \in TCB : todo[t] = <<>>
      /\ handles = {}
  BY DEF Init
<1>2. /\ \A p \in Prio : kernel.ready[p] = <<>>
      /\ \A o \in WaitList : kernel.pend[o] = <<>>
      /\ kernel.recycle = <<>> /\ kernel.sortLink = <<>>
      /\ kernel.run = Boot /\ ~kernel.started /\ ~kernel.panic
      /\ \A x \in Task : kernel.status[x] = {"UNUSED"}
      /\ kernel.status[Idle] = {"READY", "STACK_FREE"}
  BY SchedAssumption DEF Init, TCB
<1>3. IsInjective(kernel.free) /\ \A x \in Task : Contains(kernel.free, x)
  <2>1. PICK s \in [1 .. Cardinality(Task) -> Task] : IsInjective(s) /\ kernel.free = s
    BY DEF Init
  <2> QED BY <2>1, AllFree
<1>4. \A x : Queues(kernel, x) = {} /\ Waits(kernel, x) = {} /\ ~Contains(kernel.recycle, x)
             /\ ~Contains(kernel.sortLink, x)
  BY <1>2 DEF Queues, Waits, Contains
<1>5. Tidy(kernel)
  BY <1>2, <1>3 DEF Tidy, IsInjective
<1>6. Runs(kernel)
  BY <1>2, SchedAssumption DEF Runs
<1>7. \A x \in Task : Placed(kernel, x)
  BY <1>2, <1>3, <1>4 DEF Placed, Blocking
<1>8. SwitchComes
  BY <1>2, SchedAssumption DEF SwitchComes
<1>9. \A t \in TCB, x \in Task : ~Creating(t, x) /\ ~Joins(t, x)
  BY <1>1 DEF Creating, Joins, Reclaims
<1>10. CreateInv /\ JoinInv /\ ResultInv /\ HandleInv
  BY <1>1, <1>4, <1>9 DEF CreateInv, JoinInv, ResultInv, HandleInv
<1>11. \A t \in TCB : todo[t] \in Rest
  BY <1>1 DEF Rest
<1> QED BY <1>5, <1>6, <1>7, <1>8, <1>10, <1>11 DEF SafeInv, Sound

ListInv == TaskInv /\ ControlInv /\ SafeInv

\* The invariant holds in every behaviour.
LEMMA ListInvHolds ==
    ASSUME Unprotected = {}
    PROVE  TaskSpec => []ListInv
<1>1. Init => ListInv
  BY InitInv, InitControl, InitSafe DEF ListInv
<1>2. ListInv /\ [TaskNext]_taskVars => ListInv'
  BY NextInv, StutterInv, NextControl, NextSafe DEF ListInv
<1> QED BY <1>1, <1>2, PTL DEF TaskSpec

-----------------------------------------------------------------------------
(* What follows.                                                           *)

\* OsSchedTaskEnQueue asserts that the task is not READY, so that its node is
\* not linked a second time: no LOS_ASSERT ever fails.
THEOREM NoAssertEverFails ==
    ASSUME Unprotected = {}
    PROVE  TaskSpec => []NoAssertFails
<1>1. ListInv => NoAssertFails
  BY SafeKernel DEF ListInv, NoAssertFails
<1> QED BY <1>1, ListInvHolds, PTL

\* Where Placed says that the node of t is.
LEMMA OnOneList ==
    ASSUME ListInv, NEW t \in Task
    PROVE  LET on == OnLists(t) IN
           /\ Cardinality(on) <= 1
           /\ Has(kernel, t, {"READY"}) <=> <<"ready", kernel.priority[t]>> \in on
           /\ Has(kernel, t, {"PEND"}) <=> \E o \in WaitList : <<"pend", o>> \in on
           /\ Has(kernel, t, {"UNUSED"}) <=> on \cap {<<"free">>, <<"recycle">>} # {}
<1> DEFINE S == kernel.status[t]
           on == OnLists(t)
           R == {<<"ready", p>> : p \in Queues(kernel, t)}
           W == {<<"pend", o>> : o \in Waits(kernel, t)}
           F == IF Contains(kernel.free, t) THEN {<<"free">>} ELSE {}
           C == IF Contains(kernel.recycle, t) THEN {<<"recycle">>} ELSE {}
<1>1. on = R \cup W \cup F \cup C
  BY DEF OnLists, Queues, Waits
<1>2. Placed(kernel, t) /\ kernel.priority[t] \in Prio
  BY SafeKernel DEF ListInv, TaskInv, TaskTypeOK, SpecialTasks
<1>3. /\ Queues(kernel, t) = IF "READY" \in S THEN {kernel.priority[t]} ELSE {}
      /\ Waits(kernel, t) # {} <=> "PEND" \in S
      /\ \A o, q \in Waits(kernel, t) : o = q
      /\ "UNUSED" \in S <=> Contains(kernel.free, t) \/ Contains(kernel.recycle, t)
      /\ ~(Contains(kernel.free, t) /\ Contains(kernel.recycle, t))
      /\ "READY" \in S => "PEND" \notin S /\ "UNUSED" \notin S
      /\ "UNUSED" \in S => "PEND" \notin S
      /\ Waits(kernel, t) \subseteq WaitList
  BY <1>2 DEF Placed, Blocking, Waits
<1> HIDE DEF on, S
<1>4. on = {} \/ \E a : on = {a}
  <2>1. CASE "READY" \in S
    <3>1. on = {<<"ready", kernel.priority[t]>>}
      BY <1>1, <1>3, <2>1
    <3> QED BY <3>1
  <2>2. CASE "PEND" \in S
    <3>1. PICK o \in WaitList : Waits(kernel, t) = {o}
      BY <1>3, <2>2
    <3>2. on = {<<"pend", o>>}
      BY <1>1, <1>3, <2>2, <3>1
    <3> QED BY <3>2
  <2>3. CASE "READY" \notin S /\ "PEND" \notin S
    BY <1>1, <1>3, <2>3
  <2> QED BY <2>1, <2>2, <2>3
<1>5. Cardinality(on) <= 1
  <2>1. CASE on = {}
    BY <2>1, FS_EmptySet
  <2>2. CASE \E a : on = {a}
    <3>1. PICK a : on = {a}
      BY <2>2
    <3>2. Cardinality({a}) = 1
      BY FS_Singleton
    <3> QED BY <3>1, <3>2
  <2> QED BY <1>4, <2>1, <2>2
<1>6. "READY" \in S <=> <<"ready", kernel.priority[t]>> \in on
  BY <1>1, <1>3
<1>7. "PEND" \in S <=> \E o \in WaitList : <<"pend", o>> \in on
  BY <1>1, <1>3
<1>8. "UNUSED" \in S <=> on \cap {<<"free">>, <<"recycle">>} # {}
  <2>1. \A e \in R \cup W : e \notin {<<"free">>, <<"recycle">>}
    <3>1. \A a, b : <<a, b>> # <<"free">> /\ <<a, b>> # <<"recycle">>
      OBVIOUS
    <3> QED BY <3>1
  <2> HIDE DEF R, W
  <2>2. on \cap {<<"free">>, <<"recycle">>} = F \cup C
    BY <1>1, <2>1
  <2> QED BY <1>3, <2>2
<1> QED BY <1>5, <1>6, <1>7, <1>8 DEF Has, S, on

\* The one node of a TCB (pendList) is on at most one list, once, and on the
\* list that taskStatus names: LOS_ListDelete and the insertions never meet a
\* node that is elsewhere.
THEOREM ListsAreRight ==
    ASSUME Unprotected = {}
    PROVE  TaskSpec => []ListsMatchStatus
<1>1. ListInv => ListsMatchStatus
  <2>1. SUFFICES ASSUME ListInv PROVE ListsMatchStatus
    OBVIOUS
  <2>2. Tidy(kernel)
    BY <2>1, SafeKernel DEF ListInv
  <2> QED BY <2>1, <2>2, OnOneList DEF ListsMatchStatus, Tidy
<1> QED BY <1>1, ListInvHolds, PTL

\* A task is on the sort link of delays exactly when it is delayed and switched
\* out, and the sort link is in the order of the response times, which
\* OsSchedScanTimerList relies on.
THEOREM SortLinkIsRight ==
    ASSUME Unprotected = {}
    PROVE  TaskSpec => []SortLinkMatchesStatus
<1>1. ListInv => SortLinkMatchesStatus
  <2>1. SUFFICES ASSUME ListInv PROVE SortLinkMatchesStatus
    OBVIOUS
  <2>2. Tidy(kernel) /\ kernel.sortLink \in Seq(Task) /\ \A x \in Task : Placed(kernel, x)
    BY <2>1, SafeKernel DEF ListInv, WellFormed, SchedState
  <2>3. DOMAIN kernel.sortLink = 1 .. Len(kernel.sortLink)
    BY <2>2
  <2>4. ASSUME NEW i \in DOMAIN kernel.sortLink, NEW j \in DOMAIN kernel.sortLink, i < j
        PROVE  /\ kernel.sortLink[i] # kernel.sortLink[j]
               /\ kernel.due[kernel.sortLink[i]] <= kernel.due[kernel.sortLink[j]]
    <3>1. kernel.sortLink[i] # kernel.sortLink[j]
      BY <2>2, <2>3, <2>4 DEF Tidy, IsInjective
    <3> QED BY <2>2, <2>3, <2>4, <3>1 DEF Tidy
  <2>5. ASSUME NEW t \in Task
        PROVE  Contains(kernel.sortLink, t) <=>
                  Has(kernel, t, {"DELAY", "PEND_TIME"}) /\ ~Has(kernel, t, {"RUNNING"})
    BY <2>2 DEF Placed, Has
  <2> QED BY <2>4, <2>5 DEF SortLinkMatchesStatus
<1> QED BY <1>1, ListInvHolds, PTL

\* Between two context switches the one task with OS_TASK_STATUS_RUNNING that is
\* not dead is g_losTask.runTask.
THEOREM OneTaskAlwaysRuns ==
    ASSUME Unprotected = {}
    PROVE  TaskSpec => []OneTaskRuns
<1>1. ListInv => OneTaskRuns
  <2>1. SUFFICES ASSUME ListInv, kernel.started
                 PROVE  /\ kernel.run = Boot => kernel.lock = 0
                        /\ {t \in TCB \ {Boot} : Has(kernel, t, {"RUNNING"})
                                                 /\ ~Contains(kernel.recycle, t)}
                              = {kernel.run} \ {Boot}
    BY DEF OneTaskRuns
  <2>2. /\ Runs(kernel) /\ kernel.recycle \in Seq(Task) /\ kernel.run \in TCB
        /\ \A x \in Task : Placed(kernel, x)
    BY <2>1, SafeKernel DEF ListInv, Sound, WellFormed, SchedState
  <2>3. ~Contains(kernel.recycle, Idle)
    BY <2>2, SchedAssumption DEF Contains
  <2>4. ASSUME NEW t \in Task
        PROVE  ("RUNNING" \in kernel.status[t] /\ ~Contains(kernel.recycle, t)) <=> t = kernel.run
    <3>1. "RUNNING" \in kernel.status[t] /\ ~Contains(kernel.recycle, t) => t = kernel.run
      BY <2>2 DEF Placed
    <3>2. t = kernel.run => "RUNNING" \in kernel.status[t] /\ ~Contains(kernel.recycle, t)
      BY <2>2 DEF Placed, Runs
    <3> QED BY <3>1, <3>2
  <2>5. "RUNNING" \in kernel.status[Idle] <=> kernel.run = Idle
    BY <2>2 DEF Runs
  <2>6. kernel.run = Boot => kernel.lock = 0
    BY <2>1, <2>2 DEF Runs
  <2> QED BY <2>2, <2>3, <2>4, <2>5, <2>6, SchedAssumption DEF TCB, Has
<1> QED BY <1>1, ListInvHolds, PTL

\* A task that LOS_TaskDelete or its own return has ended never becomes ready
\* again, and the task that runs has not had its stack freed.
THEOREM ExitedTaskIsOver ==
    ASSUME Unprotected = {}
    PROVE  TaskSpec => []ExitedIsOver
<1>1. ListInv => ExitedIsOver
  <2>1. SUFFICES ASSUME ListInv PROVE ExitedIsOver
    OBVIOUS
  <2>2. Runs(kernel) /\ \A x \in Task : Placed(kernel, x)
    BY <2>1, SafeKernel DEF ListInv, Sound
  <2>3. ASSUME NEW t \in Task, "EXIT" \in kernel.status[t]
        PROVE  "READY" \notin kernel.status[t]
    BY <2>2, <2>3 DEF Placed, Blocking
  <2>4. kernel.run \in Task => "STACK_FREE" \in kernel.status[kernel.run]
    BY <2>2 DEF Runs
  <2> QED BY <2>3, <2>4 DEF ExitedIsOver, Has
<1> QED BY <1>1, ListInvHolds, PTL

\* A task that comes back from LOS_TaskJoin frees the stack and the TCB of a
\* task that has exited, never of one that lives or of a TCB used anew.
THEOREM JoinedTaskIsOver ==
    ASSUME Unprotected = {}
    PROVE  TaskSpec => []JoinedTaskHasExited
<1>1. ListInv => JoinedTaskHasExited
  <2>1. SUFFICES ASSUME ListInv, NEW t \in Task, Doing(t, "joinReclaim")
                 PROVE  "EXIT" \in kernel.status[arg[t]]
    BY DEF JoinedTaskHasExited, Has
  <2>2. TaskInv /\ SafeInv /\ t \in TCB
    BY <2>1 DEF ListInv, TCB
  <2>3. PICK x \in Task : x = arg[t]
    BY <2>1, <2>2, DoingArg DEF Step
  <2>4. Thread(t) /\ todo[t] # <<>> /\ Head(todo[t]) = "joinReclaim"
    BY <2>1 DEF Doing
  <2>5. todo[t] = <<"joinReclaim">>
    BY <2>2, <2>4, RestSteps DEF SafeInv
  <2>6. Joins(t, x)
    BY <2>3, <2>5 DEF Joins, Reclaims
  <2>7. "EXIT" \in kernel.status[x] \/ x \in Waits(kernel, t)
    BY <2>2, <2>6 DEF SafeInv, JoinInv
  <2>8. kernel.status[t] \cap Blocking = {}
    BY <2>2, <2>4, ThreadFree
  <2>9. Waits(kernel, t) = {}
    BY <2>2, <2>8, SafeKernel DEF Placed, Blocking
  <2> QED BY <2>3, <2>7, <2>9
<1> QED BY <1>1, ListInvHolds, PTL

-----------------------------------------------------------------------------
(* Who runs has the highest priority, as long as nobody joins: the end of  *)
(* a task wakes its joiner and does not ask for a switch.                  *)

\* No ready task has a higher priority than the one that runs.
NoneAbove(k) == \A p \in k.queueBitmap : k.priority[k.run] <= p

\* The next thing that t does is to ask for a switch.
AskAhead(t) == todo[t] # <<>> /\ Head(todo[t]) = "schedule"

\* Either none is above the running task, or the switch is on its way.
RankInv ==
    /\ kernel.started /\ kernel.lock = 0 =>
          NoneAbove(kernel) \/ kernel.pendSV \/ kernel.tick \/ AskAhead(kernel.run)
    /\ kernel.started /\ kernel.run = Boot => kernel.pendSV \/ AskAhead(Boot)

Simple == Plain \cup {<<"enqueue">>, <<"noStack">>, <<"schedule", "result">>, <<"result">>}

JoinFree == \A t \in TCB : todo[t] \in Simple

\* The running task stays where it is, and no queue becomes ready.
Calm(k, r) ==
    /\ SameControl(k, r) /\ r.tick = k.tick /\ r.queueBitmap \subseteq k.queueBitmap
    /\ r.priority[k.run] = k.priority[k.run]

\* Nothing that matters to the running task happens.
LEMMA CalmRank ==
    ASSUME RankInv, Calm(kernel, kernel'), AskAhead(kernel.run) => todo'[kernel.run] = todo[kernel.run]
    PROVE  RankInv'
  BY DEF RankInv, Calm, SameControl, NoneAbove, AskAhead

\* A switch is asked for: it comes now, or when the lock is opened.
LEMMA AskRank ==
    ASSUME TaskInv, SafeInv, NEW m \in SchedState, SameControl(kernel, m), kernel' = LOS_Schedule(m)
    PROVE  RankInv'
<1>1. kernel'.started = kernel.started /\ kernel'.lock = kernel.lock /\ kernel'.run = kernel.run
  BY DEF LOS_Schedule, SchedState, SameControl
<1>2. kernel.started /\ kernel.lock = 0 => kernel'.pendSV
  BY DEF LOS_Schedule, SchedState, SameControl
<1>3. kernel.started /\ kernel.run = Boot => kernel.lock = 0
  BY DEF SafeInv, Sound, Runs
<1> QED BY <1>1, <1>2, <1>3 DEF RankInv

\* A call goes on to ask for a switch.
LEMMA AheadRank ==
    ASSUME todo'[kernel'.run] = <<"schedule">>
    PROVE  RankInv'
  BY DEF RankInv, AskAhead

\* Whoever gets the processor is the first of the highest priority.
LEMMA TopRank ==
    ASSUME NEW k, WellFormed(k), \A x \in Task : Placed(k, x), NEW n, n = OsGetTopTask(k),
           NEW r, r.queueBitmap = Given(k, n).queueBitmap, r.priority = Given(k, n).priority, r.run = n
    PROVE  NoneAbove(r)
<1>1. r.queueBitmap \subseteq k.queueBitmap /\ r.priority = k.priority
  BY DEF Given, OsSchedTaskDeQueue, OsSchedPriQueueDelete, WellFormed, SchedState
<1>2. CASE k.queueBitmap = {}
  BY <1>1, <1>2 DEF NoneAbove
<1>3. CASE k.queueBitmap # {}
  <2>1. k.queueBitmap \subseteq Nat
    BY SchedAssumption DEF WellFormed, SchedState, Prio
  <2>2. PICK p \in k.queueBitmap : (\A q \in k.queueBitmap : p <= q) /\ n = Head(k.ready[p])
    BY <1>3, <2>1, MinOfNats DEF OsGetTopTask
  <2>3. p \in Prio /\ k.ready[p] \in Seq(Task) /\ k.ready[p] # <<>>
    BY <2>2 DEF WellFormed, SchedState, BitmapMatches
  <2>4. n \in Task /\ p \in Queues(k, n)
    BY <2>2, <2>3, EmptyList DEF Queues
  <2>5. k.priority[n] = p
    BY <2>4 DEF Placed
  <2> QED BY <1>1, <2>2, <2>5 DEF NoneAbove
<1> QED BY <1>2, <1>3

\* The rests of calls that are not joins, and what is left of them.
LEMMA SimpleRest ==
    /\ Simple \subseteq Rest
    /\ \A s \in Simple : s # <<>> => Tail(s) \in Simple /\ Head(s) \notin {"join", "joinReclaim"}
<1>1. Simple \subseteq Rest
  BY DEF Simple, Plain, Rest
<1>2. ASSUME NEW s \in Simple, s # <<>>
      PROVE  Tail(s) \in Simple /\ Head(s) \notin {"join", "joinReclaim"}
  <2>1. CASE s \in {<<"take">>, <<"schedule">>, <<"enqueue">>, <<"noStack">>, <<"eventRead">>,
                    <<"eventWrite">>, <<"result">>}
    <3> DEFINE E == {"take", "schedule", "enqueue", "noStack", "eventRead", "eventWrite", "result"}
    <3>1. \A e \in E : Tail(<<e>>) = <<>> /\ Head(<<e>>) = e
      OBVIOUS
    <3>2. PICK e \in E : s = <<e>>
      BY <2>1
    <3> QED BY <3>1, <3>2 DEF Simple, Plain
  <2>2. CASE s = <<"recycle", "take">>
    BY <2>2 DEF Simple, Plain
  <2>3. CASE s = <<"schedule", "result">>
    BY <2>3 DEF Simple
  <2> QED BY <1>2, <2>1, <2>2, <2>3 DEF Simple, Plain
<1> QED BY <1>1, <1>2

\* A call begins, or goes on, and is no join.
LEMMA SimpleCall ==
    ASSUME TaskInv, JoinFree, NEW t \in TCB, NEW k, NEW s \in Simple, NEW a, Call(t, k, s, a)
    PROVE  JoinFree'
  BY DEF Call, JoinFree, TaskInv, TaskTypeOK

\* A call that may ask for a switch.
LEMMA MaybeAsks ==
    ASSUME TaskInv, JoinFree, NEW t \in TCB, NEW k, NEW b \in BOOLEAN,
           Call(t, k, IF b THEN <<"schedule">> ELSE <<>>, NoArg)
    PROVE  JoinFree'
<1> DEFINE s == IF b THEN <<"schedule">> ELSE <<>>
<1>1. s \in Simple
  BY DEF Simple, Plain
<1> HIDE DEF s
<1>2. Call(t, k, s, NoArg)
  BY DEF s
<1> QED BY <1>1, <1>2, SimpleCall

\* Nobody ever joins when no task calls LOS_TaskJoin or LOS_TaskDetach.
LEMMA JoinFreeStep ==
    ASSUME "join" \notin Calls, TaskInv, JoinFree, [TaskNext]_taskVars
    PROVE  JoinFree'
<1>1. CASE UNCHANGED todo
  BY <1>1 DEF JoinFree
<1>2. ASSUME NEW t \in TCB, NEW step, Doing(t, step)
      PROVE  /\ todo[t] \in Simple /\ Tail(todo[t]) \in Simple
             /\ step \notin {"join", "joinReclaim"}
  BY <1>2, SimpleRest DEF Doing, JoinFree
<1>3. /\ {<<>>, <<"schedule">>, <<"recycle", "take">>, <<"enqueue">>, <<"noStack">>} \subseteq Simple
      /\ Boot \in TCB
  BY DEF Simple, Plain, TCB
<1>4. ASSUME NEW t \in TCB,
             \/ OsRecycleFinishedTask(t) \/ TaskCreate(t) \/ NothingToRecycle(t)
             \/ NoTcb(t) \/ NoStack(t) \/ Schedule(t)
             \/ JoinReclaim(t) \/ DeleteSelf(t) \/ TaskYield(t) \/ TaskLock(t) \/ TaskUnlock(t)
             \/ \E d \in Delay : TaskDelay(t, d)
      PROVE  JoinFree'
  <2>1. CASE OsRecycleFinishedTask(t) \/ TaskLock(t)
    BY <1>1, <2>1 DEF OsRecycleFinishedTask, TaskLock
  <2>2. CASE NothingToRecycle(t) \/ NoTcb(t) \/ NoStack(t) \/ Schedule(t)
    BY <1>2, <2>2, SimpleCall DEF NothingToRecycle, NoTcb, NoStack, Schedule, Continue
  <2>3. CASE JoinReclaim(t)
    BY <1>2, <2>3 DEF JoinReclaim
  <2>4. CASE TaskCreate(t)
    BY <1>3, <2>4, SimpleCall DEF TaskCreate
  <2>5. CASE DeleteSelf(t)
    BY <1>3, <2>5, SimpleCall DEF DeleteSelf
  <2>6. CASE TaskYield(t)
    BY <1>3, <2>6, SimpleCall DEF TaskYield
  <2>7. CASE \E d \in Delay : TaskDelay(t, d)
    BY <1>3, <2>7, SimpleCall DEF TaskDelay
  <2>8. CASE TaskUnlock(t)
    <3>1. (kernel.lock = 1) \in BOOLEAN
      OBVIOUS
    <3> QED BY <2>8, <3>1, MaybeAsks DEF TaskUnlock
  <2> QED BY <1>4, <2>1, <2>2, <2>3, <2>4, <2>5, <2>6, <2>7, <2>8
<1>5. ASSUME NEW t \in TCB, TakeTcb(t)
      PROVE  JoinFree'
  <2>1. PICK rest \in {<<>>, <<"enqueue">>, <<"noStack">>} :
           todo' = [todo EXCEPT ![t] = rest, ![Head(kernel.free)] = <<>>]
    BY <1>5 DEF TakeTcb
  <2> QED BY <1>3, <2>1 DEF JoinFree, TaskInv, TaskTypeOK
<1>6. ASSUME NEW t \in TCB, EnqueueNewTask(t)
      PROVE  JoinFree'
  BY <1>3, <1>6 DEF EnqueueNewTask, JoinFree, TaskInv, TaskTypeOK
<1>7. ASSUME NEW t \in TCB, NEW x \in Task,
             \/ TaskResume(t, x) \/ TaskSuspend(t, x) \/ TaskJoin(t, x)
             \/ TaskDetach(t, x) \/ DeleteOther(t, x)
             \/ \E p \in CreatePrio : TaskPriSet(t, x, p)
      PROVE  JoinFree'
  <2>1. CASE TaskJoin(t, x) \/ TaskDetach(t, x)
    BY <1>2, <2>1 DEF TaskJoin, TaskDetach, App
  <2>2. CASE DeleteOther(t, x)
    BY <1>3, <2>2 DEF DeleteOther, JoinFree, TaskInv, TaskTypeOK
  <2>3. CASE \/ TaskResume(t, x) \/ TaskSuspend(t, x) \/ \E p \in CreatePrio : TaskPriSet(t, x, p)
    <3>1. ResumeNeedSched(kernel, x) \in BOOLEAN /\ ModifyNeedSched(kernel, x) \in BOOLEAN
          /\ (x = t) \in BOOLEAN
      BY DEF ResumeNeedSched, ModifyNeedSched, Has
    <3>2. CASE TaskResume(t, x)
      BY <3>1, <3>2, MaybeAsks DEF TaskResume
    <3>3. CASE TaskSuspend(t, x)
      BY <3>1, <3>3, MaybeAsks DEF TaskSuspend
    <3>4. CASE \E p \in CreatePrio : TaskPriSet(t, x, p)
      BY <3>1, <3>4, MaybeAsks DEF TaskPriSet
    <3> QED BY <2>3, <3>2, <3>3, <3>4
  <2> QED BY <1>7, <2>1, <2>2, <2>3
<1>8. CASE Start \/ PendSV \/ TimerStep \/ IsrStep
  BY <1>1, <1>8 DEF Start, PendSV, TimerStep, TickStart, TickScan, TickEnd, SliceEnd, IsrStep,
                    IsrTaskResume, IsrTaskSuspend
<1>9. CASE UNCHANGED taskVars
  BY <1>1, <1>9 DEF taskVars
<1> QED BY <1>4, <1>5, <1>6, <1>7, <1>8, <1>9 DEF TaskNext, TaskStep

\* A step that leaves the state alone leaves the running task alone.
LEMMA CalmSelf == ASSUME NEW k PROVE Calm(k, k)
  BY DEF Calm, SameControl

\* Two functions in a row that leave the running task alone.
LEMMA CalmTrans ==
    ASSUME NEW k, NEW m, NEW r, Calm(k, m), Calm(m, r)
    PROVE  Calm(k, r)
  BY DEF Calm, SameControl

\* The functions that take tasks off lists, change flags, or free a TCB.
LEMMA CalmLists ==
    ASSUME NEW k \in SchedState, NEW t, NEW S
    PROVE  /\ Calm(k, [k EXCEPT !.status[t] = S])
           /\ Calm(k, OsSchedTaskDeQueue(k, t))
           /\ Calm(k, OsSchedSuspend(k, t))
           /\ Calm(k, OsDeleteSortLink(k, t))
           /\ Calm(k, LeaveWaitList(k, t))
           /\ Calm(k, [k EXCEPT !.recycle = S])
           /\ Calm(k, [k EXCEPT !.free = S])
<1>1. Calm(k, OsSchedTaskDeQueue(k, t)) /\ Calm(k, OsSchedSuspend(k, t))
  BY DEF Calm, SameControl, OsSchedSuspend, OsSchedTaskDeQueue, OsSchedPriQueueDelete, SchedState
<1>2. Calm(k, OsDeleteSortLink(k, t)) /\ Calm(k, LeaveWaitList(k, t))
  BY DEF Calm, SameControl, OsDeleteSortLink, OsDeleteNodeSortLink, LeaveWaitList, SchedState
<1>3. /\ Calm(k, [k EXCEPT !.status[t] = S]) /\ Calm(k, [k EXCEPT !.recycle = S])
      /\ Calm(k, [k EXCEPT !.free = S])
  BY DEF Calm, SameControl, SchedState
<1> QED BY <1>1, <1>2, <1>3

\* A TCB other than the running one is filled in or freed.
LEMMA CalmOther ==
    ASSUME NEW k \in SchedState, NEW x, x # k.run, NEW p, NEW j
    PROVE  /\ Calm(k, [k EXCEPT !.priority[x] = p])
           /\ Calm(k, OsNewTaskInit(k, x, p, j))
           /\ Calm(k, OsInsertTCBToFreeList(k, x))
           /\ Calm(k, OsRecycleTaskResources(k, x))
<1>1. Calm(k, [k EXCEPT !.priority[x] = p]) /\ Calm(k, OsNewTaskInit(k, x, p, j))
  BY DEF Calm, SameControl, OsNewTaskInit, SchedState
<1>2. Calm(k, OsInsertTCBToFreeList(k, x))
  BY DEF Calm, SameControl, OsInsertTCBToFreeList, SchedState
<1>3. Calm(k, OsRecycleTaskResources(k, x))
  BY DEF Calm, SameControl, OsRecycleTaskResources, OsInsertTCBToFreeList, SchedState
<1> QED BY <1>1, <1>2, <1>3

\* OsSchedTaskExit.
LEMMA CalmExit ==
    ASSUME NEW k, WellFormed(k), NEW t \in Task
    PROVE  Calm(k, OsSchedTaskExit(k, t))
<1> DEFINE m  == LeaveWaitList(k, t)
           w  == [m EXCEPT !.status[t] = @ \ {"PEND"}]
           d  == OsSchedTaskDeQueue(k, t)
           k1 == IF Has(k, t, {"READY"}) THEN d ELSE IF Has(k, t, {"PEND"}) THEN w ELSE k
           n  == OsDeleteSortLink(k1, t)
           v  == [n EXCEPT !.status[t] = @ \ {"DELAY", "PEND_TIME"}]
           k2 == IF Has(k1, t, {"DELAY", "PEND_TIME"}) THEN v ELSE k1
<1>1. OsSchedTaskExit(k, t) = [k2 EXCEPT !.status[t] = @ \cup {"EXIT"}]
  BY DEF OsSchedTaskExit
<1>2. Calm(k, w) /\ WellFormed(w)
  <2>1. WellFormed(m) /\ Calm(k, m)
    BY LeaveWaitListKeeps, KeepsWellFormed, CalmLists DEF WellFormed
  <2> HIDE DEF m
  <2>2. WellFormed(w) /\ Calm(m, w)
    BY <2>1, DropFlagsKeeps, KeepsWellFormed, CalmLists DEF WellFormed
  <2> QED BY <2>1, <2>2, CalmTrans
<1>3. Calm(k, d) /\ WellFormed(d)
  BY CalmLists, DeQueueKeeps, KeepsWellFormed DEF WellFormed
<1> HIDE DEF w, d
<1>4. Calm(k, k1) /\ WellFormed(k1)
  BY <1>2, <1>3, CalmSelf
<1> HIDE DEF k1
<1>5. Calm(k1, n) /\ WellFormed(n)
  BY <1>4, CalmLists, DeleteSortLinkKeeps, KeepsWellFormed DEF TCB, WellFormed
<1> HIDE DEF n
<1>6. Calm(n, v) /\ WellFormed(v)
  BY <1>5, DropFlagsKeeps, KeepsWellFormed, CalmLists DEF WellFormed
<1> HIDE DEF v
<1>7. Calm(k, k2) /\ WellFormed(k2)
  BY <1>4, <1>5, <1>6, CalmTrans
<1> HIDE DEF k2
<1>8. Calm(k2, [k2 EXCEPT !.status[t] = @ \cup {"EXIT"}])
  BY <1>7, CalmLists DEF WellFormed
<1> QED BY <1>1, <1>7, <1>8, CalmTrans

\* A timeout is handled in the tick interrupt, which has not ended.
LEMMA TickStays ==
    ASSUME NEW k, WellFormed(k), NEW t \in Task
    PROVE  OsSchedWakePendTimeTask(k, t).tick = k.tick
<1> DEFINE k1 == [k EXCEPT !.status[t] = @ \ {"PEND", "PEND_TIME", "DELAY"}]
           m  == LeaveWaitList(k1, t)
           w  == [m EXCEPT !.status[t] = @ \cup {"TIMEOUT"}]
           k2 == IF Has(k, t, {"PEND"}) THEN w ELSE k1
<1>1. OsSchedWakePendTimeTask(k, t) = IF ~Has(k, t, {"PEND", "DELAY"}) THEN k
                                      ELSE IF Has(k, t, {"SUSPEND"}) THEN k2
                                      ELSE OsSchedTaskEnQueue(k2, t)
  BY DEF OsSchedWakePendTimeTask
<1>2. WellFormed(k1) /\ k1.tick = k.tick
  <2>1. WellFormed(k1)
    BY DropFlagsKeeps, KeepsWellFormed
  <2> QED BY <2>1 DEF WellFormed, SchedState
<1> HIDE DEF k1
<1>3. WellFormed(m) /\ m.tick = k1.tick
  BY <1>2, LeaveWaitListKeeps, KeepsWellFormed, CalmLists DEF WellFormed, Calm
<1> HIDE DEF m
<1>4. WellFormed(w) /\ w.tick = m.tick
  <2>1. Calm(m, w)
    BY <1>3, CalmLists DEF WellFormed
  <2>2. {"TIMEOUT"} \subseteq Flag
    BY DEF Flag
  <2>3. WellFormed(w)
    BY <1>3, <2>2, AddFlagsKeeps, KeepsWellFormed DEF WellFormed
  <2> QED BY <2>1, <2>3 DEF Calm
<1> HIDE DEF w
<1>5. WellFormed(k2) /\ k2.tick = k.tick
  BY <1>2, <1>3, <1>4
<1> HIDE DEF k2
<1>6. OsSchedTaskEnQueue(k2, t).tick = k2.tick
  BY <1>5 DEF OsSchedTaskEnQueue, ReadyQueueIn, OsSchedPriQueueEnHead, OsSchedPriQueueEnTail,
              WellFormed, SchedState
<1> QED BY <1>1, <1>5, <1>6

\* No interrupt asks for less than it must.
LEMMA IsrRank ==
    ASSUME Unprotected = {}, TaskInv, SafeInv, RankInv, NEW x \in Task,
           IsrTaskResume(x) \/ IsrTaskSuspend(x)
    PROVE  RankInv'
<1>0. kernel \in SchedState /\ WellFormed(kernel)
  BY SafeKernel DEF WellFormed
<1>1. CASE IsrTaskResume(x)
  <2> DEFINE m == OsSchedResume(kernel, x)
  <2>1. /\ kernel' = IF ResumeNeedSched(kernel, x) THEN LOS_Schedule(m) ELSE m
        /\ UNCHANGED todo
    BY <1>1 DEF IsrTaskResume
  <2>2. CASE ResumeNeedSched(kernel, x)
    <3>1. WellFormed(m) /\ SameControl(kernel, m)
      BY <1>0, SuspendResumeControl, ResumeKeeps, KeepsWellFormed
    <3> HIDE DEF m
    <3> QED BY <2>1, <2>2, <3>1, AskRank DEF WellFormed
  <2>3. CASE ~ResumeNeedSched(kernel, x)
    <3>1. kernel' = [kernel EXCEPT !.status[x] = kernel.status[x] \ {"SUSPEND"}]
      BY <2>1, <2>3 DEF OsSchedResume
    <3>2. Calm(kernel, kernel')
      BY <1>0, <3>1, CalmLists
    <3> QED BY <2>1, <3>2, CalmRank
  <2> QED BY <2>2, <2>3
<1>2. CASE IsrTaskSuspend(x)
  <2> DEFINE m == OsSchedSuspend(kernel, x)
  <2>1. (kernel' = m \/ kernel' = LOS_Schedule(m)) /\ UNCHANGED todo
    BY <1>2 DEF IsrTaskSuspend
  <2>2. WellFormed(m) /\ SameControl(kernel, m) /\ Calm(kernel, m)
    BY <1>0, SuspendResumeControl, SuspendKeeps, KeepsWellFormed, CalmLists
  <2> HIDE DEF m
  <2> QED BY <2>1, <2>2, AskRank, CalmRank DEF WellFormed
<1> QED BY <1>1, <1>2

\* Until the tick interrupt has ended, none is above by definition; its end
\* asks for a switch.
LEMMA TickingRank ==
    ASSUME RankInv, SameControl(kernel, kernel'), kernel'.tick, UNCHANGED todo
    PROVE  RankInv'
  BY DEF RankInv, SameControl, AskAhead

\* The tick interrupt, and the end of a slice.
LEMMA TimerRank ==
    ASSUME TaskInv, SafeInv, RankInv, TimerStep
    PROVE  RankInv'
<1>0. kernel \in SchedState /\ WellFormed(kernel)
  BY SafeKernel DEF WellFormed
<1>1. CASE TickStart
  <2>1. SameControl(kernel, kernel') /\ kernel'.tick /\ UNCHANGED todo
    BY <1>0, <1>1 DEF TickStart, Elapse, SameControl, SchedState
  <2> QED BY <2>1, TickingRank
<1>2. CASE TickScan
  <2> DEFINE t == Head(kernel.sortLink)
             n == OsDeleteNodeSortLink(kernel, t)
  <2>1. t \in Task /\ t \in TCB
    <3>1. kernel.sortLink \in Seq(Task) /\ kernel.sortLink # <<>>
      BY <1>0, <1>2 DEF SchedState, TickScan, Expired
    <3> QED BY <3>1, EmptyList DEF TCB
  <2>2. kernel' = OsSchedWakePendTimeTask(n, t) /\ kernel.tick /\ UNCHANGED todo
    BY <1>2 DEF TickScan
  <2> HIDE DEF t
  <2>3. WellFormed(n)
    BY <1>0, <2>1, DeleteNodeSortLinkKeeps, KeepsWellFormed
  <2>4. SameControl(kernel, n) /\ n.tick = kernel.tick
    BY <1>0, SortLinkControl DEF OsDeleteNodeSortLink, SchedState
  <2> HIDE DEF n
  <2>5. SameControl(n, kernel') /\ kernel'.tick = n.tick
    BY <2>1, <2>2, <2>3, WakePendTimeTaskControl, TickStays
  <2> QED BY <2>2, <2>4, <2>5, TickingRank DEF SameControl
<1>3. ASSUME NEW used \in Nat, NEW b \in BOOLEAN,
             kernel' = LOS_Schedule([OsTimeSliceUpdate(kernel, used) EXCEPT !.tick = b])
      PROVE  RankInv'
  <2> DEFINE u == OsTimeSliceUpdate(kernel, used)
             m == [u EXCEPT !.tick = b]
  <2>1. WellFormed(u) /\ SameControl(kernel, u)
    BY <1>0, TimeSliceSame, TimeControl
  <2> HIDE DEF u
  <2>2. m \in SchedState /\ SameControl(u, m)
    BY <2>1 DEF WellFormed, SchedState, SameControl
  <2>3. kernel' = LOS_Schedule(m)
    BY <1>3 DEF u
  <2> HIDE DEF m
  <2> QED BY <2>1, <2>2, <2>3, AskRank DEF SameControl
<1>4. CASE TickEnd
  <2>1. PICK used \in 0 .. 1 :
          kernel' = LOS_Schedule([OsTimeSliceUpdate(kernel, used) EXCEPT !.tick = FALSE])
    BY <1>4 DEF TickEnd
  <2>2. used \in Nat /\ FALSE \in BOOLEAN
    OBVIOUS
  <2> QED BY <1>3, <2>1, <2>2, Zenon
<1>5. CASE SliceEnd
  <2> DEFINE used == kernel.timeSlice[kernel.run]
             u == OsTimeSliceUpdate(kernel, used)
  <2>1. used \in Nat
    BY <1>0 DEF SchedState
  <2>2. WellFormed(u) /\ SameControl(kernel, u) /\ kernel' = LOS_Schedule(u)
    BY <1>0, <1>5, <2>1, TimeSliceSame, TimeControl DEF SliceEnd
  <2> HIDE DEF u
  <2> QED BY <2>2, AskRank DEF WellFormed
<1> QED BY <1>1, <1>2, <1>4, <1>5 DEF TimerStep

\* The context switch picks one that none is above, and so does LOS_Start.
LEMMA SwitchRank ==
    ASSUME TaskInv, ControlInv, SafeInv, Start \/ PendSV
    PROVE  RankInv'
<1>0. /\ WellFormed(kernel) /\ Sound(kernel) /\ \A x \in Task : Placed(kernel, x)
  BY SafeKernel
<1>1. ASSUME NEW k, WellFormed(k), \A x \in Task : Placed(k, x),
             NEW n, n = OsGetTopTask(k), NEW d, d = Given(k, n),
             kernel'.queueBitmap = d.queueBitmap, kernel'.priority = d.priority, kernel'.run = n
      PROVE  RankInv'
  <2>1. NoneAbove(kernel')
    BY <1>1, TopRank
  <2>2. n # Boot
    BY <1>1, TopTaskType, SchedAssumption
  <2> QED BY <1>1, <2>1, <2>2 DEF RankInv
<1>2. CASE Start
  <2> DEFINE n == OsGetTopTask(kernel)
             d == Given(kernel, n)
  <2>1. kernel' = [d EXCEPT !.started = TRUE]
    BY <1>2 DEF Start, OsSchedStart, Given
  <2>2. n \in Task \cup {Idle}
    BY <1>0, TopTaskType
  <2>3. n \in Task => Queues(kernel, n) = IF "READY" \in kernel.status[n] THEN {kernel.priority[n]} ELSE {}
    BY <1>0 DEF Placed
  <2>4. d = Given(kernel, n) /\ n = OsGetTopTask(kernel)
    OBVIOUS
  <2> HIDE DEF n, d
  <2>5. WellFormed(d) /\ d.run = n
    BY <1>0, <2>2, <2>3, <2>4, GiveRow DEF Sound
  <2>6. kernel'.queueBitmap = d.queueBitmap /\ kernel'.priority = d.priority /\ kernel'.run = n
    BY <2>1, <2>5 DEF WellFormed, SchedState
  <2> QED BY <1>0, <1>1, <2>4, <2>6
<1>3. CASE PendSV
  <2>1. PICK used \in 0 .. 1 : kernel' = OsSchedTaskSwitch(OsTimeSliceUpdate(kernel, used))
    BY <1>3 DEF PendSV
  <2> DEFINE u == OsTimeSliceUpdate(kernel, used)
             m == PutBack(u)
             r == Mark(m, u.run, m.status[u.run] \ {"RUNNING"})
             n == OsGetTopTask(m)
             d == Given(r, n)
  <2>2. kernel' = IF m.panic THEN m ELSE [d EXCEPT !.pendSV = FALSE]
    BY <2>1 DEF OsSchedTaskSwitch, Given, Mark
  <2>3. /\ WellFormed(u) /\ SameLists(kernel, u) /\ u.status = kernel.status
        /\ u.priority = kernel.priority /\ u.run = kernel.run /\ u.started = kernel.started
        /\ u.panic = kernel.panic /\ u.lock = 0
    BY <1>0, <1>3, TimeSliceSame DEF ControlInv, PendSV
  <2> HIDE DEF u
  <2>4. Sound(u)
    BY <1>0, <2>3, SoundSame DEF Sound, Runs
  <2>5. /\ WellFormed(r) /\ Tidy(r) /\ ~m.panic
        /\ r.ready = m.ready /\ r.queueBitmap = m.queueBitmap
        /\ \A x \in Task : Placed(r, x)
    <3>1. u.run \in TCB /\ m = PutBack(u) /\ r = Mark(m, u.run, m.status[u.run] \ {"RUNNING"})
      BY <2>3 DEF WellFormed, SchedState
    <3> HIDE DEF m, r
    <3> QED BY <2>3, <2>4, <3>1, PutBackSound
  <2> HIDE DEF m, r
  <2>6. n = OsGetTopTask(r) /\ d = Given(r, n)
    BY <2>5, SameTop
  <2> HIDE DEF n, d
  <2>7. n \in Task \cup {Idle}
    BY <2>5, <2>6, TopTaskType
  <2>8. n \in Task => Queues(r, n) = IF "READY" \in r.status[n] THEN {r.priority[n]} ELSE {}
    BY <2>5 DEF Placed
  <2>9. WellFormed(d) /\ d.run = n
    BY <2>5, <2>6, <2>7, <2>8, GiveRow
  <2>10. kernel'.queueBitmap = d.queueBitmap /\ kernel'.priority = d.priority /\ kernel'.run = n
    BY <2>2, <2>5, <2>9 DEF WellFormed, SchedState
  <2> QED BY <1>1, <2>5, <2>6, <2>10
<1> QED BY <1>2, <1>3

\* The running task does something that is not about what is ready.
LEMMA ThreadRank ==
    ASSUME RankInv, NEW t, Thread(t), todo[t] = <<>> \/ Head(todo[t]) # "schedule",
           Calm(kernel, kernel')
    PROVE  RankInv'
<1>1. ~AskAhead(kernel.run)
  BY DEF AskAhead, Thread
<1> QED BY <1>1, CalmRank

\* Nothing of a task that is freed, or taken, concerns the one that runs.
LEMMA CreationRank ==
    ASSUME TaskInv, SafeInv, RankInv, NEW t \in TCB,
           \/ OsRecycleFinishedTask(t) \/ TaskCreate(t) \/ NothingToRecycle(t)
           \/ TakeTcb(t) \/ NoTcb(t) \/ NoStack(t)
    PROVE  RankInv'
<1>0. /\ WellFormed(kernel) /\ kernel \in SchedState
      /\ \A x \in Task : Placed(kernel, x)
  BY SafeKernel DEF WellFormed
<1>1. Thread(t)
  BY DEF OsRecycleFinishedTask, TaskCreate, NothingToRecycle, TakeTcb, NoTcb, NoStack, Doing, App
<1>2. ASSUME NEW x \in Task, "UNUSED" \in kernel.status[x]
      PROVE  x # kernel.run
  BY <1>2 DEF SafeInv, Sound, Runs
<1>3. CASE OsRecycleFinishedTask(t)
  <2> DEFINE x == Head(kernel.recycle)
             m == [kernel EXCEPT !.recycle = Tail(@)]
  <2>1. kernel.recycle # <<>> /\ kernel' = OsRecycleTaskResources(m, x) /\ UNCHANGED todo
    BY <1>3 DEF OsRecycleFinishedTask
  <2>2. x \in Task /\ Contains(kernel.recycle, x)
    BY <1>0, <2>1, EmptyList DEF SchedState
  <2> HIDE DEF x
  <2>3. x # kernel.run
    BY <1>0, <1>2, <2>2 DEF Placed
  <2>4. WellFormed(m) /\ m \in SchedState /\ Calm(kernel, m) /\ m.run = kernel.run
    <3>1. WellFormed(m) /\ m.run = kernel.run
      BY <1>0, <2>1, SafeKernel, RecycleTailRow DEF Only, SameControl
    <3>2. Calm(kernel, m)
      BY <1>0, CalmLists
    <3> QED BY <3>1, <3>2 DEF WellFormed
  <2> HIDE DEF m
  <2>5. Calm(m, kernel')
    BY <2>1, <2>3, <2>4, CalmOther
  <2> QED BY <2>1, <2>4, <2>5, CalmTrans, CalmRank
<1>4. CASE TaskCreate(t)
  <2>1. kernel' = kernel /\ (todo[t] = <<>> \/ Head(todo[t]) # "schedule")
    BY <1>4 DEF TaskCreate, Call, App
  <2> QED BY <1>1, <2>1, CalmSelf, ThreadRank
<1>5. CASE NothingToRecycle(t) \/ NoTcb(t)
  <2>1. kernel' = kernel /\ (todo[t] = <<>> \/ Head(todo[t]) # "schedule")
    BY <1>5 DEF NothingToRecycle, NoTcb, Continue, Call, Doing
  <2> QED BY <1>1, <2>1, CalmSelf, ThreadRank
<1>6. CASE TakeTcb(t)
  <2> DEFINE x == Head(kernel.free)
             m == [kernel EXCEPT !.free = Tail(@)]
  <2>1. /\ kernel.free # <<>> /\ Head(todo[t]) # "schedule"
        /\ \E p \in CreatePrio, j \in BOOLEAN : \E S :
              kernel' = [OsNewTaskInit(m, x, p, j) EXCEPT !.status[x] = S]
    <3>1. PICK p \in CreatePrio, j \in BOOLEAN, rest \in {<<>>, <<"enqueue">>, <<"noStack">>} :
            kernel' = [OsNewTaskInit(m, x, p, j) EXCEPT !.status[x] =
                            IF rest = <<"noStack">> THEN @ ELSE @ \cup {"STACK_FREE"}]
      BY <1>6, ZenonT(30) DEF TakeTcb
    <3> QED BY <1>6, <3>1 DEF TakeTcb, Doing
  <2>2. x \in Task /\ Contains(kernel.free, x)
    BY <1>0, <2>1, EmptyList DEF SchedState
  <2> HIDE DEF x
  <2>3. x # kernel.run
    BY <1>0, <1>2, <2>2 DEF Placed
  <2>4. WellFormed(m) /\ m \in SchedState /\ Calm(kernel, m) /\ m.run = kernel.run
    <3>1. WellFormed(m) /\ m.run = kernel.run
      BY <1>0, <2>1, SafeKernel, FreeTailRow DEF Only, SameControl
    <3>2. Calm(kernel, m)
      BY <1>0, CalmLists
    <3> QED BY <3>1, <3>2 DEF WellFormed
  <2> HIDE DEF m
  <2>5. PICK p \in CreatePrio, j \in BOOLEAN : \E S :
           kernel' = [OsNewTaskInit(m, x, p, j) EXCEPT !.status[x] = S]
    BY <2>1
  <2> DEFINE n == OsNewTaskInit(m, x, p, j)
  <2>6. Calm(m, n)
    BY <2>3, <2>4, CalmOther
  <2>7. PICK S : kernel' = [n EXCEPT !.status[x] = S]
    BY <2>5
  <2>8. Calm(n, kernel')
    <3>1. n \in SchedState
      BY <2>2, <2>4, NewTaskInitKeeps, KeepsWellFormed DEF WellFormed
    <3> HIDE DEF n
    <3> QED BY <2>7, <3>1, CalmLists
  <2> HIDE DEF n
  <2>9. Calm(kernel, kernel')
    BY <2>4, <2>6, <2>8, CalmTrans
  <2> QED BY <1>1, <2>1, <2>9, ThreadRank
<1>7. CASE NoStack(t)
  <2>1. /\ Head(todo[t]) = "noStack" /\ todo[t] # <<>>
        /\ kernel' = OsInsertTCBToFreeList(kernel, arg[t])
    BY <1>7 DEF NoStack, Doing, Continue, Call
  <2>2. PICK x \in Task : x = arg[t]
    BY <1>7, DoingArg DEF NoStack, Step
  <2>3. Creating(t, x)
    BY <2>1, <2>2, RestSteps DEF SafeInv, Creating
  <2>4. x # kernel.run
    <3>1. kernel.status[x] \subseteq {"SUSPEND", "JOINABLE", "STACK_FREE"}
      BY <2>2, <2>3 DEF SafeInv, CreateInv
    <3> QED BY <3>1 DEF SafeInv, Sound, Runs
  <2>5. Calm(kernel, kernel')
    BY <1>0, <2>1, <2>2, <2>4, CalmOther
  <2> QED BY <1>1, <2>1, <2>5, ThreadRank
<1> QED BY <1>3, <1>4, <1>5, <1>6, <1>7

\* A new task is enqueued, a wait begins: the call goes on to ask for a switch.
LEMMA CallRank ==
    ASSUME NEW t, TaskInv, t \in TCB, NEW k, Call(t, k, <<"schedule">>, NoArg), k.run = t
    PROVE  RankInv'
<1>1. todo'[kernel'.run] = <<"schedule">>
  BY DEF Call, TaskInv, TaskTypeOK
<1> QED BY <1>1, AheadRank

\* A call that makes a task ready, or takes itself out, goes on to ask.
LEMMA AskingRank ==
    ASSUME TaskInv, SafeInv, RankInv, NEW t \in TCB,
           \/ EnqueueNewTask(t) \/ Schedule(t) \/ DeleteSelf(t) \/ TaskYield(t)
           \/ \E d \in Delay : TaskDelay(t, d)
    PROVE  RankInv'
<1>0. WellFormed(kernel) /\ kernel \in SchedState
  BY SafeKernel DEF WellFormed
<1>1. CASE EnqueueNewTask(t)
  <2>1. /\ t = kernel.run /\ kernel' = OsSchedTaskEnQueue(kernel, arg[t])
        /\ todo' = [todo EXCEPT ![t] = IF kernel.started THEN <<"schedule">> ELSE <<>>]
    BY <1>1 DEF EnqueueNewTask, Doing, Thread
  <2>2. SameControl(kernel, kernel')
    BY <1>0, <2>1, EnQueueControl
  <2>3. CASE kernel.started
    <3>1. todo'[kernel'.run] = <<"schedule">>
      BY <2>1, <2>2, <2>3 DEF TaskInv, TaskTypeOK, SameControl
    <3> QED BY <3>1, AheadRank
  <2>4. CASE ~kernel.started
    BY <2>2, <2>4 DEF RankInv, SameControl
  <2> QED BY <2>3, <2>4
<1>2. CASE Schedule(t)
  <2>1. kernel' = LOS_Schedule(kernel)
    BY <1>2 DEF Schedule, Continue, Call
  <2> QED BY <1>0, <2>1, AskRank DEF SameControl
<1>3. CASE DeleteSelf(t)
  <2>1. t \in Task /\ t = kernel.run
    BY <1>3 DEF DeleteSelf, App, Thread
  <2>2. Exited(t).run = t
    BY <1>0, <2>1, ExitedControl
  <2>3. CASE Has(Exited(t), t, {"JOINABLE"})
    <3>1. Call(t, Exited(t), <<"schedule">>, NoArg)
      BY <1>3, <2>3 DEF DeleteSelf
    <3> QED BY <2>2, <3>1, CallRank
  <2>4. CASE ~Has(Exited(t), t, {"JOINABLE"})
    <3>1. Call(Boot, OsRunningTaskDelete(Exited(t), t), <<"schedule">>, NoArg)
      BY <1>3, <2>4 DEF DeleteSelf
    <3>2. WellFormed(Exited(t))
      BY <1>0, <2>1, ExitedKeeps, KeepsWellFormed
    <3>3. OsRunningTaskDelete(Exited(t), t).run = Boot /\ Boot \in TCB
      BY <3>2 DEF OsRunningTaskDelete, WellFormed, SchedState, TCB
    <3> QED BY <3>1, <3>3, CallRank
  <2> QED BY <2>3, <2>4
<1>4. CASE TaskYield(t)
  <2>1. Call(t, OsSchedYield(kernel), <<"schedule">>, NoArg) /\ t = kernel.run
    BY <1>4 DEF TaskYield, App, Thread
  <2>2. OsSchedYield(kernel).run = t
    BY <1>0, <2>1, OwnControl DEF SameControl
  <2> QED BY <2>1, <2>2, CallRank
<1>5. CASE \E d \in Delay : TaskDelay(t, d)
  <2>1. PICK d \in Delay :
           /\ Call(t, IF d = 0 THEN OsSchedYield(kernel) ELSE OsSchedDelay(kernel, d),
                   <<"schedule">>, NoArg)
           /\ t = kernel.run
    BY <1>5 DEF TaskDelay, App, Thread
  <2>2. OsSchedYield(kernel).run = t /\ OsSchedDelay(kernel, d).run = t
    BY <1>0, <2>1, OwnControl DEF SameControl
  <2> QED BY <2>1, <2>2, CallRank
<1> QED BY <1>1, <1>2, <1>3, <1>4, <1>5

\* The scheduler's lock: its last opening asks for a switch.
LEMMA LockRank ==
    ASSUME TaskInv, NEW t \in TCB, TaskLock(t) \/ TaskUnlock(t)
    PROVE  RankInv'
<1>0. kernel \in SchedState /\ t = kernel.run /\ t # Boot
  BY SchedAssumption DEF TaskInv, TaskTypeOK, TaskLock, TaskUnlock, App, Thread
<1>1. CASE TaskLock(t)
  <2>1. kernel' = [kernel EXCEPT !.lock = @ + 1]
    BY <1>1 DEF TaskLock
  <2>2. kernel'.run = t /\ kernel'.lock # 0
    BY <1>0, <2>1 DEF SchedState
  <2> QED BY <1>0, <2>2 DEF RankInv
<1>2. CASE TaskUnlock(t)
  <2> DEFINE k == [kernel EXCEPT !.lock = @ - 1]
  <2>1. /\ Call(t, k, IF kernel.lock = 1 THEN <<"schedule">> ELSE <<>>, NoArg)
        /\ kernel.lock > 0
    BY <1>2 DEF TaskUnlock
  <2>2. k.run = t /\ (kernel.lock # 1 => k.lock # 0)
    BY <1>0, <2>1 DEF SchedState
  <2> HIDE DEF k
  <2>3. CASE kernel.lock = 1
    BY <2>1, <2>2, <2>3, CallRank
  <2>4. CASE kernel.lock # 1
    <3>1. kernel' = k
      BY <2>1 DEF Call
    <3> QED BY <1>0, <2>2, <2>4, <3>1 DEF RankInv
  <2> QED BY <2>3, <2>4
<1> QED BY <1>1, <1>2

\* What a task does to another: whatever becomes ready, a switch is asked for.
LEMMA OtherRank ==
    ASSUME Unprotected = {}, TaskInv, SafeInv, RankInv, NEW t \in TCB, NEW x \in Task,
           \/ TaskResume(t, x) \/ TaskSuspend(t, x)
           \/ \E p \in CreatePrio : TaskPriSet(t, x, p)
    PROVE  RankInv'
<1>0. WellFormed(kernel) /\ kernel \in SchedState
  BY SafeKernel DEF WellFormed
<1>1. Thread(t) /\ todo[t] = <<>> /\ t = kernel.run
  BY DEF TaskResume, TaskSuspend, TaskPriSet, App, Thread
<1>2. CASE TaskResume(t, x)
  <2> DEFINE m == OsSchedResume(kernel, x)
  <2>1. Call(t, m, IF ResumeNeedSched(kernel, x) THEN <<"schedule">> ELSE <<>>, NoArg)
    BY <1>2 DEF TaskResume
  <2>2. m.run = t
    BY <1>0, <1>1, SuspendResumeControl DEF SameControl
  <2>3. CASE ResumeNeedSched(kernel, x)
    <3> HIDE DEF m
    <3> QED BY <2>1, <2>2, <2>3, CallRank
  <2>4. CASE ~ResumeNeedSched(kernel, x)
    <3>1. kernel' = [kernel EXCEPT !.status[x] = kernel.status[x] \ {"SUSPEND"}]
      BY <2>1, <2>4 DEF Call, OsSchedResume
    <3>2. Calm(kernel, kernel')
      BY <1>0, <3>1, CalmLists
    <3> QED BY <1>1, <3>2, ThreadRank
  <2> QED BY <2>3, <2>4
<1>3. CASE TaskSuspend(t, x)
  <2>1. kernel' = OsSchedSuspend(kernel, x)
    BY <1>3 DEF TaskSuspend, Call
  <2>2. Calm(kernel, kernel')
    BY <1>0, <2>1, CalmLists
  <2> QED BY <1>1, <2>2, ThreadRank
<1>4. ASSUME NEW p \in CreatePrio, TaskPriSet(t, x, p) PROVE RankInv'
  <2> DEFINE m == OsSchedModifyTaskSchedParam(kernel, x, p)
  <2>0. p \in Prio
    BY SchedAssumption, TaskAssumption DEF Prio
  <2>1. Call(t, m, IF ModifyNeedSched(kernel, x) THEN <<"schedule">> ELSE <<>>, NoArg)
    BY <1>4 DEF TaskPriSet
  <2>2. m.run = t
    BY <1>0, <1>1, <2>0, ModifyControl DEF SameControl
  <2>3. CASE ModifyNeedSched(kernel, x)
    <3> HIDE DEF m
    <3> QED BY <2>1, <2>2, <2>3, CallRank
  <2>4. CASE ~ModifyNeedSched(kernel, x)
    <3>1. "READY" \notin kernel.status[x] /\ "RUNNING" \notin kernel.status[x]
      BY <2>4 DEF ModifyNeedSched, Has
    <3>2. x # kernel.run
      BY <3>1 DEF SafeInv, Sound, Runs
    <3>3. kernel' = [kernel EXCEPT !.priority[x] = p]
      BY <2>1, <3>1 DEF Call, OsSchedModifyTaskSchedParam
    <3>4. Calm(kernel, kernel')
      BY <1>0, <3>2, <3>3, CalmOther
    <3> QED BY <1>1, <3>4, ThreadRank
  <2> QED BY <2>3, <2>4
<1> QED BY <1>2, <1>3, <1>4

\* Deletion of another task, which nobody joins.
LEMMA DeleteOtherRank ==
    ASSUME Unprotected = {}, TaskInv, SafeInv, RankInv, JoinFree,
           NEW t \in TCB, NEW x \in Task, DeleteOther(t, x)
    PROVE  RankInv'
<1>0. WellFormed(kernel) /\ kernel \in SchedState /\ \A y \in Task : Placed(kernel, y)
  BY SafeKernel DEF WellFormed
<1>1. /\ Thread(t) /\ todo[t] = <<>> /\ t = kernel.run /\ x # kernel.run
      /\ Created(x) /\ Named(x) /\ kernel' = OsRecycleTaskResources(Exited(x), x)
  BY DEF DeleteOther, App, Thread, MayDelete
<1>2. kernel.pend[x] = <<>>
  <2>1. kernel.pend[x] \in Seq(Task) /\ x \in WaitList
    BY <1>0 DEF SchedState, WaitList
  <2> SUFFICES ASSUME kernel.pend[x] # <<>> PROVE FALSE
    OBVIOUS
  <2>2. PICK y \in Task : x \in Waits(kernel, y)
    BY <2>1, EmptyList DEF Waits
  <2>3. todo[y] \in {<<"schedule", "joinReclaim">>, <<"joinReclaim">>} /\ y \in TCB
    BY <2>2 DEF SafeInv, JoinInv, Reclaims, TCB
  <2> QED BY <2>3 DEF JoinFree, Simple, Plain
<1>3. "RUNNING" \notin kernel.status[x]
  BY <1>1, NamedFree
<1>4. Exited(x) = OsSchedTaskExit(kernel, x)
  BY <1>2, <1>3 DEF Exited, OsTaskJoinPostUnsafe, Has
<1> DEFINE e == OsSchedTaskExit(kernel, x)
<1>5. Calm(kernel, e) /\ e \in SchedState
  BY <1>0, CalmExit, TaskExitKeeps, KeepsWellFormed DEF WellFormed
<1> HIDE DEF e
<1>6. Calm(e, kernel')
  <2>1. kernel' = OsRecycleTaskResources(e, x) /\ x # e.run
    BY <1>1, <1>4, <1>5 DEF e, Calm, SameControl
  <2> QED BY <1>5, <2>1, CalmOther
<1> QED BY <1>1, <1>5, <1>6, CalmTrans, ThreadRank

\* No critical section of a call leaves a higher task ready without asking for a switch.
LEMMA TaskRank ==
    ASSUME Unprotected = {}, "join" \notin Calls, TaskInv, SafeInv, RankInv, JoinFree,
           NEW t \in TCB, TaskStep(t)
    PROVE  RankInv'
<1>1. ASSUME NEW step, Doing(t, step)
      PROVE  step \notin {"join", "joinReclaim"}
  BY <1>1, SimpleRest DEF Doing, JoinFree
<1>2. ~JoinReclaim(t) /\ \A x \in Task : ~TaskJoin(t, x) /\ ~TaskDetach(t, x)
  BY <1>1 DEF JoinReclaim, TaskJoin, TaskDetach, App
<1>3. CASE \/ OsRecycleFinishedTask(t) \/ TaskCreate(t) \/ NothingToRecycle(t)
           \/ TakeTcb(t) \/ NoTcb(t) \/ NoStack(t)
  BY <1>3, CreationRank
<1>4. CASE \/ EnqueueNewTask(t) \/ Schedule(t) \/ DeleteSelf(t) \/ TaskYield(t)
           \/ \E d \in Delay : TaskDelay(t, d)
  BY <1>4, AskingRank
<1>5. CASE TaskLock(t) \/ TaskUnlock(t)
  BY <1>5, LockRank
<1>6. ASSUME NEW x \in Task,
             \/ TaskResume(t, x) \/ TaskSuspend(t, x) \/ DeleteOther(t, x)
             \/ \E p \in CreatePrio : TaskPriSet(t, x, p)
      PROVE  RankInv'
  BY <1>6, OtherRank, DeleteOtherRank
<1> QED BY <1>2, <1>3, <1>4, <1>5, <1>6 DEF TaskStep

Ranked == RankInv /\ JoinFree

RankListInv == ListInv /\ Ranked

LEMMA TasksRank ==
    ASSUME Unprotected = {}, "join" \notin Calls, TaskInv, ControlInv, SafeInv, Ranked,
           [TaskNext]_taskVars
    PROVE  Ranked'
<1>0. RankInv /\ JoinFree
  BY DEF Ranked
<1>1. JoinFree'
  BY <1>0, JoinFreeStep
<1>2. ASSUME UNCHANGED taskVars PROVE RankInv'
  <2>1. kernel' = kernel /\ todo' = todo
    BY <1>2 DEF taskVars
  <2> QED BY <1>0, <2>1 DEF RankInv, NoneAbove, AskAhead
<1>3. ASSUME TaskNext PROVE RankInv'
  <2>1. CASE Start \/ PendSV \/ TimerStep
    BY <1>0, <2>1, SwitchRank, TimerRank
  <2>2. CASE IsrStep
    BY <1>0, <2>2, IsrRank DEF IsrStep
  <2>3. CASE \E t \in TCB : TaskStep(t)
    BY <1>0, <2>3, TaskRank
  <2> QED BY <1>3, <2>1, <2>2, <2>3 DEF TaskNext
<1> QED BY <1>1, <1>2, <1>3 DEF Ranked

LEMMA InitRank == Init => Ranked
<1>1. Init => ~kernel.started /\ JoinFree
  BY DEF Init, JoinFree, Simple, Plain
<1> QED BY <1>1 DEF Ranked, RankInv

\* The two invariants together are inductive.
LEMMA RankListHolds ==
    ASSUME Unprotected = {}, "join" \notin Calls
    PROVE  TaskSpec => []RankListInv
<1>1. Init => RankListInv
  BY InitInv, InitControl, InitSafe, InitRank DEF ListInv, RankListInv
<1>2. RankListInv /\ [TaskNext]_taskVars => RankListInv'
  <2>1. ListInv /\ [TaskNext]_taskVars => ListInv'
    BY NextInv, StutterInv, NextControl, NextSafe DEF ListInv
  <2> QED BY <2>1, TasksRank DEF ListInv, RankListInv
<1> QED BY <1>1, <1>2, PTL DEF TaskSpec

\* Where no switch is on its way none is above, and who runs is not blocked.
LEMMA RankShows ==
    ASSUME TaskInv, SafeInv, Ranked
    PROVE  HighestPriorityRuns
<1> SUFFICES ASSUME Thread(kernel.run), kernel.started, kernel.lock = 0, todo[kernel.run] = <<>>
             PROVE  /\ kernel.status[kernel.run] \cap
                          (OS_TASK_BLOCKED_STATUS \cup {"DELAY", "PEND_TIME"}) = {}
                    /\ NoneAbove(kernel)
  BY DEF HighestPriorityRuns, Has, NoneAbove
<1>1. ~kernel.pendSV /\ ~kernel.tick /\ ~AskAhead(kernel.run)
  BY DEF Thread, AskAhead
<1>2. kernel.run # Boot /\ NoneAbove(kernel)
  BY <1>1 DEF Ranked, RankInv
<1>3. CASE kernel.run \in Task
  <2>1. kernel.status[kernel.run] \cap Blocking = {}
    BY <1>1, <1>3 DEF SafeInv, SwitchComes
  <2>2. "PEND_TIME" \notin kernel.status[kernel.run]
    <3>1. Placed(kernel, kernel.run)
      BY <1>3, SafeKernel
    <3> QED BY <2>1, <3>1 DEF Placed, Blocking
  <2> QED BY <1>2, <2>1, <2>2 DEF Blocking, OS_TASK_BLOCKED_STATUS
<1>4. CASE kernel.run = Idle
  <2>1. kernel.status[Idle] \subseteq {"READY", "RUNNING", "STACK_FREE"}
    BY SafeKernel DEF WellFormed, SpecialTasks
  <2> QED BY <1>2, <1>4, <2>1 DEF OS_TASK_BLOCKED_STATUS
<1>5. kernel.run \in Task \cup {Idle, Boot}
  BY SafeKernel DEF WellFormed, SchedState, TCB
<1> QED BY <1>2, <1>3, <1>4, <1>5

\* While application code runs with the scheduler unlocked, no ready task has a
\* higher priority, and the one that runs is not blocked (HighestPriorityRuns):
\* every function of los_task.c that makes a task ready or changes a priority
\* goes on to LOS_Schedule, in an application that joins no task.  The joins are
\* excluded because LOS_TaskDelete of another joinable task wakes its joiner and
\* returns without LOS_Schedule (los_task.c:1176).
THEOREM HighestPriorityAlwaysRuns ==
    ASSUME Unprotected = {}, "join" \notin Calls
    PROVE  TaskSpec => []HighestPriorityRuns
<1>1. RankListInv => HighestPriorityRuns
  BY RankShows DEF RankListInv, ListInv
<1> QED BY <1>1, RankListHolds, PTL

\* The same of the calls on objects, which wake others or leave the ready tasks alone.
\* A call that asks for a switch next may do anything but give up the processor.
LEMMA CallRanked ==
    ASSUME TaskInv, Ranked, NEW t \in TCB, Thread(t), todo[t] = <<>> \/ Head(todo[t]) # "schedule",
           NEW k, NEW s \in Simple, NEW a, Call(t, k, s, a),
           \/ Calm(kernel, k)
           \/ s # <<>> /\ Head(s) = "schedule" /\ k.run = t
    PROVE  Ranked'
<1>0. RankInv /\ JoinFree /\ kernel' = k /\ todo'[t] = s
  BY DEF Ranked, Call, TaskInv, TaskTypeOK
<1>1. JoinFree'
  BY <1>0, SimpleCall
<1>2. ASSUME Calm(kernel, k) PROVE RankInv'
  BY <1>0, <1>2, ThreadRank
<1>3. ASSUME s # <<>> /\ Head(s) = "schedule" /\ k.run = t PROVE RankInv'
  BY <1>0, <1>3 DEF RankInv, AskAhead
<1> QED BY <1>1, <1>2, <1>3 DEF Ranked

\* An interrupt handler does anything to others and asks for a switch.
LEMMA AskRanked ==
    ASSUME TaskInv, SafeInv, Ranked, NEW m, WellFormed(m), SameControl(kernel, m),
           kernel' = LOS_Schedule(m), todo' = todo
    PROVE  Ranked'
<1>1. RankInv'
  BY AskRank DEF WellFormed
<1>2. JoinFree'
  BY DEF Ranked, JoinFree
<1> QED BY <1>1, <1>2 DEF Ranked

LEMMA SameRanked == ASSUME Ranked, kernel' = kernel, todo' = todo PROVE Ranked'
  BY DEF Ranked, RankInv, NoneAbove, AskAhead, JoinFree

-----------------------------------------------------------------------------
(* The calls on the IPC objects: tasks wait on an object, with a timeout   *)
(* or without, and are woken by another task or an interrupt.              *)

\* A task that runs application code, or comes back to a call, is in no wait.
LEMMA WorkFree ==
    ASSUME TaskInv, SafeInv, NEW t \in TCB, Thread(t),
           \/ todo[t] = <<>>
           \/ todo[t] # <<>> /\ Head(todo[t]) \in {"result", "eventRead", "eventWrite"}
    PROVE  /\ t = kernel.run /\ ~kernel.pendSV
           /\ todo[t] \in Plain \cup {<<"result">>}
           /\ todo[t] # <<"schedule">>
           /\ t \in Task => /\ {"RUNNING", "STACK_FREE"} \subseteq kernel.status[t]
                            /\ kernel.status[t] \cap Blocking = {}
                            /\ "READY" \notin kernel.status[t] /\ Waits(kernel, t) = {}
<1>1. t = kernel.run /\ ~kernel.pendSV
  BY DEF Thread
<1>2. todo[t] \in {<<>>, <<"result">>, <<"eventRead">>, <<"eventWrite">>}
  <2>1. todo[t] # <<>> => todo[t] \in Rest
    BY DEF SafeInv
  <2> QED BY <2>1, RestSteps
<1>3. \/ todo[t] = <<>>
      \/ todo[t] # <<>> /\ Head(todo[t]) # "schedule"
  OBVIOUS
<1>4. ASSUME t \in Task
      PROVE  /\ {"RUNNING", "STACK_FREE"} \subseteq kernel.status[t]
             /\ kernel.status[t] \cap Blocking = {}
             /\ "READY" \notin kernel.status[t] /\ Waits(kernel, t) = {}
  <2>1. /\ {"RUNNING", "STACK_FREE"} \subseteq kernel.status[t]
        /\ kernel.status[t] \cap Blocking = {} /\ "READY" \notin kernel.status[t]
    BY <1>3, <1>4, ThreadFree
  <2>2. "PEND" \notin kernel.status[t]
    BY <2>1 DEF Blocking
  <2> QED BY <1>4, <2>1, <2>2, SafeKernel DEF Placed
<1>5. /\ <<"result">> # <<"schedule">> /\ <<"eventRead">> # <<"schedule">>
      /\ <<"eventWrite">> # <<"schedule">>
  OBVIOUS
<1> QED BY <1>1, <1>2, <1>4, <1>5 DEF Plain

\* The call of such a task goes on to a plain rest.
LEMMA WorkCalls ==
    ASSUME TaskInv, SafeInv, NEW t \in TCB, Thread(t),
           \/ todo[t] = <<>>
           \/ todo[t] # <<>> /\ Head(todo[t]) \in {"result", "eventRead", "eventWrite"},
           NEW k, NEW s \in Plain, NEW a, Call(t, k, s, a)
    PROVE  SameCalls /\ kernel' = k /\ todo'[t] = s
<1>1. /\ todo' = [todo EXCEPT ![t] = s] /\ handles' = handles /\ kernel' = k
      /\ arg' = [arg EXCEPT ![t] = IF s = <<>> THEN NoArg ELSE a]
  BY DEF Call
<1>2. /\ todo'[t] = s /\ \A u \in TCB \ {t} : todo'[u] = todo[u] /\ arg'[u] = arg[u]
  BY <1>1 DEF TaskInv, TaskTypeOK
<1>3. todo[t] \in Plain \cup {<<"result">>} /\ (t \in Task => Waits(kernel, t) = {})
  BY WorkFree
<1>4. \A u \in TCB : todo'[u] \in Rest
  BY <1>2, PlainRest DEF SafeInv
<1>5. \A z \in Task : ~Creating(t, z) /\ ~Reclaims(t, z) /\ ~Joins(t, z)
  <2>1. CASE todo[t] \in Plain
    BY <2>1, PlainRest DEF Creating, Reclaims, Joins
  <2>2. CASE todo[t] = <<"result">>
    BY <2>2 DEF Creating, Reclaims, Joins
  <2> QED BY <1>3, <2>1, <2>2
<1>6. \A z \in Task : ~Creating(t, z)' /\ ~Reclaims(t, z)' /\ ~Joins(t, z)'
  BY <1>2, PlainRest DEF Creating, Reclaims, Joins
<1>7. \A u \in TCB \ {t}, z \in Task :
         /\ Creating(u, z)' <=> Creating(u, z)
         /\ Reclaims(u, z)' <=> Reclaims(u, z)
         /\ Joins(u, z)' <=> Joins(u, z)
  BY <1>2 DEF Creating, Reclaims, Joins
<1>8. ASSUME NEW u \in Task, NEW o \in WaitObj, o \in Waits(kernel, u)
      PROVE  Results(u, o)'
  <2>1. Results(u, o) /\ u \in TCB
    BY <1>8 DEF SafeInv, ResultInv, TCB
  <2>2. u # t
    BY <1>3, <1>8
  <2> QED BY <1>2, <2>1, <2>2 DEF Results
<1> QED BY <1>1, <1>2, <1>4, <1>5, <1>6, <1>7, <1>8 DEF SameCalls

\* A call that moves no task: on what the object itself counts.
LEMMA WorkSafe ==
    ASSUME TaskInv, SafeInv, NEW t \in TCB, Thread(t),
           \/ todo[t] = <<>>
           \/ todo[t] # <<>> /\ Head(todo[t]) \in {"result", "eventRead", "eventWrite"},
           NEW s \in Plain, NEW a, Call(t, kernel, s, a)
    PROVE  SafeInv'
<1>1. SameCalls /\ kernel' = kernel
  BY WorkCalls
<1>2. t = kernel.run /\ (t \in Task => kernel.status[t] \cap Blocking = {})
  BY WorkFree
<1>3. SwitchComes'
  BY <1>1, <1>2, NothingToCome
<1> QED BY <1>1, <1>3, CalmStep DEF SameLists

\* The end of a call that has waited: TIMEOUT is taken off the status.
LEMMA ResultEnds ==
    ASSUME TaskInv, SafeInv, NEW t \in TCB, Doing(t, "result"), NEW s \in Plain, NEW a,
           Call(t, [kernel EXCEPT !.status[t] = @ \ {"TIMEOUT"}], s, a)
    PROVE  SafeInv'
<1> DEFINE S == kernel.status[t] \ {"TIMEOUT"}
           m == [kernel EXCEPT !.status[t] = S]
<1>1. Thread(t) /\ todo[t] # <<>> /\ Head(todo[t]) \in {"result", "eventRead", "eventWrite"}
  BY DEF Doing
<1>2. SameCalls /\ kernel' = m
  BY <1>1, WorkCalls
<1>3. /\ t = kernel.run
      /\ t \in Task => /\ {"RUNNING", "STACK_FREE"} \subseteq kernel.status[t]
                       /\ kernel.status[t] \cap Blocking = {}
                       /\ "READY" \notin kernel.status[t]
  BY <1>1, WorkFree
<1>4. /\ SameLists(kernel, m) /\ m.priority = kernel.priority /\ m.run = kernel.run
      /\ m.started = kernel.started /\ m.panic = kernel.panic /\ m.lock = kernel.lock
      /\ m.status[t] = S /\ \A x \in TCB : x # t => m.status[x] = kernel.status[x]
  BY SafeKernel DEF WellFormed, SchedState, SameLists
<1> HIDE DEF m
<1>5. \A x \in TCB, f \in Flag \ {"TIMEOUT"} : f \in m.status[x] <=> f \in kernel.status[x]
  BY <1>4
<1>6. /\ Tidy(m)
      /\ \A x : SameQueues(kernel, m, x) /\ SameWaits(kernel, m, x)
                /\ SamePool(kernel, m, x) /\ SameTime(kernel, m, x)
  BY <1>4, SafeKernel, FlagsRow
<1>7. \A x \in Task : Placed(m, x)
  <2>1. SUFFICES ASSUME NEW x \in Task PROVE Placed(m, x)
    OBVIOUS
  <2>2. x \in TCB /\ Placed(kernel, x) /\ m.priority = kernel.priority
    BY <1>4, SafeKernel DEF TCB
  <2>3. CASE x # t
    BY <1>4, <1>6, <2>2, <2>3, SamePlaced DEF SameRow, SameFlags
  <2>4. CASE x = t
    <3>1. /\ {"RUNNING", "STACK_FREE"} \subseteq m.status[x]
          /\ m.status[x] \cap Blocking = {} /\ "READY" \notin m.status[x]
          /\ "PEND_TIME" \in m.status[x] <=> "PEND_TIME" \in kernel.status[x]
      BY <1>3, <1>4, <2>4
    <3>2. /\ {"RUNNING", "STACK_FREE"} \subseteq kernel.status[x]
          /\ kernel.status[x] \cap Blocking = {} /\ "READY" \notin kernel.status[x]
      BY <1>3, <2>4
    <3>3. "PEND" \notin kernel.status[x] /\ "PEND_TIME" \notin kernel.status[x]
      BY <2>2, <3>2 DEF Placed, Blocking
    <3>4. Queues(kernel, x) = {} /\ Waits(kernel, x) = {} /\ ~Contains(kernel.sortLink, x)
          /\ ~Contains(kernel.free, x) /\ ~Contains(kernel.recycle, x)
      BY <2>2, <3>2, <3>3 DEF Placed, Blocking
    <3>5. Queues(m, x) = {} /\ Waits(m, x) = {} /\ ~Contains(m.sortLink, x)
          /\ ~Contains(m.free, x) /\ ~Contains(m.recycle, x)
      BY <1>6, <3>4 DEF SameQueues, SameWaits, SamePool, SameTime
    <3>6. x = m.run
      BY <1>3, <1>4, <2>4
    <3> QED BY <3>1, <3>3, <3>5, <3>6 DEF Placed, Blocking
  <2> QED BY <2>3, <2>4
<1>8. Runs(m)
  <2>1. Runs(kernel) /\ {Idle, kernel.run} \subseteq TCB
    BY SafeKernel DEF Sound, WellFormed, SchedState, TCB
  <2>2. /\ kernel.run \in Task => /\ {"RUNNING", "STACK_FREE"} \subseteq m.status[kernel.run]
                                  /\ "UNUSED" \notin m.status[kernel.run]
    <3>1. /\ kernel.run \in Task => /\ "RUNNING" \in kernel.status[kernel.run]
                                    /\ "STACK_FREE" \in kernel.status[kernel.run]
          /\ kernel.run \in Task => "UNUSED" \notin kernel.status[kernel.run]
      BY <2>1 DEF Runs
    <3>2. {"RUNNING", "STACK_FREE", "UNUSED"} \subseteq Flag \ {"TIMEOUT"}
      BY DEF Flag
    <3> QED BY <1>5, <2>1, <3>1, <3>2
  <2>3. {"READY", "RUNNING"} \subseteq Flag \ {"TIMEOUT"}
    BY DEF Flag
  <2> QED BY <1>4, <1>5, <2>1, <2>2, <2>3 DEF Runs
<1>9. SwitchComes'
  BY <1>2, <1>3, <1>4, NothingToCome DEF Blocking
<1>10. \A x \in Task : \/ kernel'.status[x] = kernel.status[x]
                       \/ NotNew(x) /\ Kept(kernel, kernel', x)
  <2>1. SUFFICES ASSUME NEW x \in Task, x = t
                 PROVE  NotNew(x) /\ Kept(kernel, kernel', x)
    BY <1>2, <1>4 DEF TCB
  <2>2. {"JOINABLE", "EXIT", "UNUSED", "STACK_FREE", "PEND_TIME"} \subseteq Flag \ {"TIMEOUT"}
    BY DEF Flag
  <2>3. x \in TCB
    BY DEF TCB
  <2> QED BY <1>2, <1>3, <1>5, <2>1, <2>2, <2>3 DEF NotNew, Kept
<1>11. Sound(kernel') /\ \A x \in Task : SameWaits(kernel, kernel', x)
  BY <1>2, <1>6, <1>7, <1>8 DEF Sound
<1> QED BY <1>2, <1>9, <1>10, <1>11, MildStep

\* The running task waits, with a timeout or without.
LEMMA WaitTimedRow ==
    ASSUME NEW k, WellFormed(k), Tidy(k), k.run \in Task, Waits(k, k.run) = {},
           NEW list \in WaitList, NEW ticks \in (0 .. MaxDelay) \cup {NoTime}
    PROVE  LET r == OsSchedTaskWait(k, list, ticks) IN
           /\ Only(k, r, k.run) /\ SameQueues(k, r, k.run) /\ SamePool(k, r, k.run)
           /\ SameTime(k, r, k.run) /\ Waits(r, k.run) = {list}
           /\ r.status[k.run] = k.status[k.run] \cup (IF ticks = NoTime THEN {"PEND"}
                                                      ELSE {"PEND", "PEND_TIME"})
<1> DEFINE t == k.run
           w == OsSchedTaskWait(k, list, NoTime)
           r == OsSchedTaskWait(k, list, ticks)
<1>1. /\ Only(k, w, t) /\ SameQueues(k, w, t) /\ SamePool(k, w, t) /\ SameTime(k, w, t)
      /\ w.status[t] = k.status[t] \cup {"PEND"} /\ Waits(w, t) = {list}
  BY WaitRow
<1>2. WellFormed(r) /\ WellFormed(w)
  <2>1. WellFormed(r)
    BY TaskWaitKeeps
  <2> QED BY <1>1, <2>1 DEF Only
<1>3. CASE ticks = NoTime
  BY <1>1, <1>3
<1>4. CASE ticks # NoTime
  <2>1. r = [w EXCEPT !.status[t] = @ \cup {"PEND_TIME"}, !.waitTimes[t] = ticks]
    BY <1>4 DEF OsSchedTaskWait
  <2> HIDE DEF w, r
  <2>2. /\ SameLists(w, r) /\ SameControl(w, r) /\ r.panic = w.panic /\ r.priority = w.priority
        /\ r.status = [w.status EXCEPT ![t] = @ \cup {"PEND_TIME"}]
    BY <1>2, <2>1 DEF WellFormed, SchedState, SameLists, SameControl
  <2>3. /\ r.status[t] = w.status[t] \cup {"PEND_TIME"}
        /\ \A x \in TCB : x # t => r.status[x] = w.status[x]
    BY <1>2, <2>2 DEF WellFormed, SchedState, TCB
  <2>4. /\ Tidy(r)
        /\ \A x : SameQueues(w, r, x) /\ SameWaits(w, r, x) /\ SamePool(w, r, x) /\ SameTime(w, r, x)
    BY <1>1, <2>2, FlagsRow DEF Only
  <2>5. Only(w, r, t)
    BY <1>2, <2>2, <2>3, <2>4 DEF Only, SameRow, SameFlags, TCB
  <2>6. Only(k, r, t)
    BY <1>1, <2>5, OnlyTrans
  <2> QED BY <1>1, <1>4, <2>3, <2>4, <2>6
          DEF SameQueues, SameWaits, SamePool, SameTime, r
<1> QED BY <1>3, <1>4

\* k is the kernel's state, but for priorities and the order of the ready queues.
AsBefore(k) ==
    /\ WellFormed(k) /\ Sound(k) /\ SameControl(kernel, k)
    /\ \A x \in Task : k.status[x] = kernel.status[x] /\ SameWaits(kernel, k, x)

LEMMA SelfAsBefore == ASSUME TaskInv, SafeInv PROVE AsBefore(kernel)
  BY SafeKernel DEF AsBefore, SameControl, SameWaits

\* A task waits on an object: it asks for a switch, and then for the outcome.
LEMMA ObjWaits ==
    ASSUME TaskInv, SafeInv, NEW t \in Task, Thread(t), todo[t] \in {<<>>, <<"eventRead">>},
           kernel.lock = 0, NEW k, AsBefore(k), NEW o \in WaitObj,
           NEW ticks \in (0 .. MaxDelay) \cup {NoTime},
           Call(t, OsSchedTaskWait(k, o, ticks), <<"schedule", "result">>, o)
    PROVE  SafeInv'
<1> DEFINE m == OsSchedTaskWait(k, o, ticks)
<1>1. /\ kernel' = m /\ handles' = handles /\ todo'[t] = <<"schedule", "result">> /\ arg'[t] = o
      /\ \A u \in TCB : u # t => todo'[u] = todo[u] /\ arg'[u] = arg[u]
  <2> HIDE DEF m
  <2> QED BY DEF Call, TaskInv, TaskTypeOK, TCB, m
<1>2. /\ t = kernel.run /\ t \in TCB /\ {"RUNNING", "STACK_FREE"} \subseteq kernel.status[t]
      /\ kernel.status[t] \cap Blocking = {} /\ "READY" \notin kernel.status[t]
      /\ Waits(kernel, t) = {}
  <2>1. t \in TCB /\ (todo[t] = <<>> \/ (todo[t] # <<>> /\ Head(todo[t]) = "eventRead"))
    BY DEF TCB
  <2> QED BY <2>1, WorkFree
<1>3. /\ k.run = t /\ k.status[t] = kernel.status[t] /\ Waits(k, t) = {} /\ Tidy(k) /\ WellFormed(k)
      /\ Placed(k, t) /\ Queues(k, t) = {} /\ o \in WaitList /\ o \notin Task /\ k.lock = 0
  <2>1. /\ k.run = t /\ k.status[t] = kernel.status[t] /\ Waits(k, t) = {} /\ Tidy(k)
        /\ Placed(k, t) /\ k.lock = 0
    BY <1>2 DEF AsBefore, Sound, SameControl, SameWaits
  <2>2. Queues(k, t) = {}
    BY <1>2, <2>1 DEF Placed
  <2>3. o \in WaitList /\ o \notin Task
    BY SchedAssumption DEF WaitList
  <2> QED BY <2>1, <2>2, <2>3 DEF AsBefore
<1>4. /\ Only(k, m, t) /\ SameQueues(k, m, t) /\ SamePool(k, m, t) /\ SameTime(k, m, t)
      /\ m.status[t] = k.status[t] \cup (IF ticks = NoTime THEN {"PEND"} ELSE {"PEND", "PEND_TIME"})
      /\ Waits(m, t) = {o}
  BY <1>3, WaitTimedRow
<1> HIDE DEF m
<1>5. /\ m.run = t /\ m.lock = 0
      /\ \A x \in Task : x # t => m.status[x] = kernel.status[x] /\ Waits(m, x) = Waits(kernel, x)
      /\ kernel.status[t] \subseteq m.status[t]
      /\ m.status[t] \subseteq kernel.status[t] \cup {"PEND", "PEND_TIME"}
  BY <1>3, <1>4 DEF Only, SameControl, SameRow, SameFlags, SameWaits, AsBefore
<1>6. Placed(m, t)
  <2>1. "PEND_TIME" \notin k.status[t] /\ "DELAY" \notin k.status[t]
    BY <1>2, <1>3 DEF Placed, Blocking
  <2>2. Queues(m, t) = {} /\ ~Contains(m.free, t) /\ ~Contains(m.recycle, t) /\ ~Contains(m.sortLink, t)
    BY <1>2, <1>3, <1>4, <2>1 DEF Placed, SameQueues, SamePool, SameTime, Blocking
  <2>3. /\ "PEND" \in m.status[t] /\ {"RUNNING", "STACK_FREE"} \subseteq m.status[t]
        /\ m.status[t] \cap {"UNUSED", "EXIT", "DELAY", "READY"} = {}
    BY <1>2, <1>3, <1>4, <1>5 DEF Blocking
  <2> QED BY <1>4, <1>5, <2>2, <2>3 DEF Placed
<1>7. Sound(m)
  <2>1. {"RUNNING", "STACK_FREE"} \subseteq m.status[t] /\ m.status[t] \cap {"UNUSED", "READY"} = {}
    BY <1>2, <1>5 DEF Blocking
  <2> QED BY <1>4, <1>6, <2>1, SoundStep DEF AsBefore
<1>8. SwitchComes'
  <2>1. todo'[t] # <<>> /\ Head(todo'[t]) = "schedule"
    BY <1>1
  <2> QED BY <1>1, <1>5, <2>1 DEF SwitchComes
<1>9. \A x \in Task : /\ ~Creating(t, x)' /\ ~Reclaims(t, x)' /\ ~Joins(t, x)'
                      /\ ~Creating(t, x) /\ ~Reclaims(t, x) /\ ~Joins(t, x)
  BY <1>1 DEF Creating, Reclaims, Joins
<1>10. \A u \in TCB, x \in Task : u # t => /\ Creating(u, x)' <=> Creating(u, x)
                                           /\ Reclaims(u, x)' <=> Reclaims(u, x)
                                           /\ Joins(u, x)' <=> Joins(u, x)
  BY <1>1 DEF Creating, Reclaims, Joins
<1>11. CreateInv'
  <2>1. SUFFICES ASSUME NEW u \in TCB, NEW x \in Task, Creating(u, x)'
                 PROVE  /\ kernel'.status[x] \subseteq {"SUSPEND", "JOINABLE", "STACK_FREE"}
                        /\ todo'[u] = <<"enqueue">> => "STACK_FREE" \in kernel'.status[x]
                        /\ x \notin handles'
                        /\ \A v \in TCB : Creating(v, x)' => v = u
    BY DEF CreateInv
  <2>2. u # t /\ Creating(u, x) /\ todo'[u] = todo[u]
    BY <1>1, <1>9, <1>10, <2>1
  <2>3. /\ kernel.status[x] \subseteq {"SUSPEND", "JOINABLE", "STACK_FREE"}
        /\ todo[u] = <<"enqueue">> => "STACK_FREE" \in kernel.status[x]
        /\ x \notin handles
        /\ \A v \in TCB : Creating(v, x) => v = u
    BY <2>2 DEF SafeInv, CreateInv
  <2>4. x # t
    BY <1>2, <2>3
  <2> QED BY <1>1, <1>5, <1>9, <1>10, <2>2, <2>3, <2>4
<1>12. JoinInv'
  <2>1. ASSUME NEW x \in Task, NEW u \in Task, x \in Waits(kernel', u)
        PROVE  /\ Reclaims(u, x)' /\ "JOINABLE" \in kernel'.status[x] /\ "EXIT" \notin kernel'.status[x]
               /\ "PEND_TIME" \notin kernel'.status[u]
    <3>1. u # t /\ u \in TCB /\ x \in Waits(kernel, u) /\ kernel'.status[u] = kernel.status[u]
      BY <1>1, <1>3, <1>4, <1>5, <2>1 DEF TCB
    <3>2. /\ Reclaims(u, x) /\ "JOINABLE" \in kernel.status[x] /\ "EXIT" \notin kernel.status[x]
          /\ "PEND_TIME" \notin kernel.status[u]
      BY <3>1 DEF SafeInv, JoinInv
    <3> QED BY <1>1, <1>5, <1>10, <3>1, <3>2
  <2>2. ASSUME NEW x \in Task, NEW u \in TCB, Joins(u, x)'
        PROVE  /\ u \in Task /\ u # x /\ x \in handles' /\ "UNUSED" \notin kernel'.status[x]
               /\ "EXIT" \in kernel'.status[x] \/ x \in Waits(kernel', u)
               /\ \A v \in TCB : Joins(v, x)' => v = u
    <3>1. u # t /\ Joins(u, x)
      BY <1>9, <1>10, <2>2
    <3>2. /\ u \in Task /\ u # x /\ x \in handles /\ "UNUSED" \notin kernel.status[x]
          /\ "EXIT" \in kernel.status[x] \/ x \in Waits(kernel, u)
          /\ \A v \in TCB : Joins(v, x) => v = u
      BY <3>1 DEF SafeInv, JoinInv
    <3>3. /\ "UNUSED" \notin kernel'.status[x]
          /\ "EXIT" \in kernel'.status[x] \/ x \in Waits(kernel', u)
      BY <1>1, <1>5, <3>1, <3>2
    <3> QED BY <1>1, <1>9, <1>10, <3>2, <3>3
  <2> QED BY <2>1, <2>2 DEF JoinInv
<1>13. ResultInv'
  <2>1. SUFFICES ASSUME NEW u \in Task, NEW p \in WaitObj, p \in Waits(kernel', u)
                 PROVE  Results(u, p)'
    BY DEF ResultInv
  <2>2. CASE u = t
    BY <1>1, <1>4, <2>1, <2>2 DEF Results
  <2>3. CASE u # t
    <3>1. u \in TCB /\ p \in Waits(kernel, u)
      BY <1>1, <1>5, <2>1, <2>3 DEF TCB
    <3>2. Results(u, p)
      BY <3>1 DEF SafeInv, ResultInv
    <3> QED BY <1>1, <2>3, <3>1, <3>2 DEF Results
  <2> QED BY <2>2, <2>3
<1>14. HandleInv'
  <2>1. \A x \in handles : kernel.status[x] \subseteq kernel'.status[x]
    BY <1>1, <1>5 DEF TaskInv, TaskTypeOK
  <2> QED BY <1>1, <2>1 DEF SafeInv, HandleInv
<1>15. \A u \in TCB : todo'[u] \in Rest
  BY <1>1 DEF SafeInv, Rest
<1> QED BY <1>1, <1>7, <1>8, <1>11, <1>12, <1>13, <1>14, <1>15 DEF SafeInv

\* The first task that waits on an object, as OsSchedTaskWake finds it and leaves it.
LEMMA FirstWaiter ==
    ASSUME TaskInv, SafeInv, NEW k, AsBefore(k), NEW o \in WaitObj, k.pend[o] # <<>>,
           NEW w, w = Head(k.pend[o]), NEW m, m = OsSchedTaskWake(k, w)
    PROVE  /\ w \in Task /\ o \in Waits(kernel, w) /\ Results(w, o) /\ "PEND" \in kernel.status[w]
           /\ NotNew(w) /\ Waits(kernel, w) \cap Task = {} /\ "READY" \notin kernel.status[w]
           /\ Only(k, m, w) /\ Placed(m, w) /\ Waits(m, w) = {} /\ SameLife(k, m, w)
           /\ "TIMEOUT" \in m.status[w] <=> "TIMEOUT" \in k.status[w]
           /\ w = kernel.run => "READY" \notin m.status[w]
           /\ Sound(m) /\ WellFormed(m)
<1>1. o \in WaitList /\ k.pend[o] \in Seq(Task) /\ WellFormed(k) /\ Tidy(k)
  BY DEF WaitList, AsBefore, Sound, WellFormed, SchedState
<1>2. w \in Task /\ Contains(k.pend[o], w)
  BY <1>1, EmptyList
<1>3. o \in Waits(k, w) /\ o \in Waits(kernel, w) /\ Placed(k, w) /\ k.status[w] = kernel.status[w]
  BY <1>1, <1>2 DEF Waits, AsBefore, SameWaits, Sound
<1>4. "PEND" \in kernel.status[w] /\ Results(w, o)
  BY <1>2, <1>3, SafeKernel DEF Placed, SafeInv, ResultInv
<1>5. NotNew(w) /\ "READY" \notin kernel.status[w]
  BY <1>2, <1>4, SafeKernel DEF NotNew, Placed, Blocking
<1>6. Waits(kernel, w) \cap Task = {}
  <2>1. \A p \in Waits(kernel, w) : p = o
    BY <1>2, <1>3, SafeKernel DEF Placed
  <2> QED BY <2>1, SchedAssumption
<1>7. /\ Only(k, m, w) /\ Placed(m, w) /\ Waits(m, w) = {} /\ SameLife(k, m, w)
      /\ "TIMEOUT" \in m.status[w] <=> "TIMEOUT" \in k.status[w]
  BY <1>1, <1>2, <1>3, <1>4, TaskWakeRow
<1>8. w = kernel.run => "READY" \notin m.status[w]
  <2>1. SUFFICES ASSUME w = kernel.run PROVE "READY" \notin m.status[w]
    OBVIOUS
  <2>2. "RUNNING" \in k.status[w]
    BY <1>2, <1>3, <2>1 DEF SafeInv, Sound, Runs
  <2>3. "RUNNING" \in m.status[w]
    BY <1>7, <2>2 DEF SameLife
  <2> QED BY <1>7, <2>3 DEF Placed
<1>9. Sound(m)
  <2>1. w = k.run => /\ {"RUNNING", "STACK_FREE"} \subseteq m.status[w]
                     /\ m.status[w] \cap {"UNUSED", "READY"} = {}
    <3>1. SUFFICES ASSUME w = k.run PROVE /\ {"RUNNING", "STACK_FREE"} \subseteq m.status[w]
                                          /\ m.status[w] \cap {"UNUSED", "READY"} = {}
      OBVIOUS
    <3>2. w = kernel.run
      BY <3>1 DEF AsBefore, SameControl
    <3>3. {"RUNNING", "STACK_FREE"} \subseteq k.status[w] /\ "UNUSED" \notin k.status[w]
      BY <1>2, <3>1 DEF AsBefore, Sound, Runs
    <3> QED BY <1>7, <1>8, <3>2, <3>3 DEF SameLife
  <2> QED BY <1>2, <1>7, <2>1, SoundStep DEF AsBefore
<1> QED BY <1>2, <1>3, <1>4, <1>5, <1>6, <1>7, <1>8, <1>9 DEF Only

\* What the invariant needs to know when that task is woken.
LEMMA WakesFirst ==
    ASSUME TaskInv, SafeInv, NEW k, AsBefore(k), NEW o \in WaitObj, k.pend[o] # <<>>,
           NEW m, m = OsSchedTaskWake(k, Head(k.pend[o])),
           kernel' = m \/ kernel' = LOS_Schedule(m), SameCalls, SwitchComes'
    PROVE  SafeInv'
<1> DEFINE w == Head(k.pend[o])
<1>1. /\ w \in Task /\ NotNew(w) /\ Waits(kernel, w) \cap Task = {}
      /\ Only(k, m, w) /\ Waits(m, w) = {} /\ SameLife(k, m, w) /\ Sound(m) /\ WellFormed(m)
  BY FirstWaiter
<1>2. Sound(kernel') /\ kernel'.status = m.status /\ \A z \in Task : SameWaits(m, kernel', z)
  BY <1>1, AskSound, AskSame
<1> HIDE DEF w
<1>3. \A x \in Task : SameJoins(kernel, kernel', x)
  BY <1>1, <1>2 DEF SameJoins, SameWaits, Only, SameRow, AsBefore
<1>4. \A x \in Task : \/ kernel'.status[x] = kernel.status[x]
                      \/ NotNew(x) /\ Kept(kernel, kernel', x)
  BY <1>1, <1>2 DEF Kept, SameLife, Only, SameRow, SameFlags, AsBefore
<1> QED BY <1>2, <1>3, <1>4, WakeStep

\* A task gives what another waits for.
LEMMA ObjWakes ==
    ASSUME TaskInv, SafeInv, NEW t \in TCB, Thread(t),
           \/ todo[t] = <<>>
           \/ todo[t] # <<>> /\ Head(todo[t]) \in {"result", "eventRead", "eventWrite"},
           NEW k, AsBefore(k), NEW o \in WaitObj, k.pend[o] # <<>>,
           Call(t, OsSchedTaskWake(k, Head(k.pend[o])), <<"schedule">>, NoArg)
    PROVE  SafeInv'
<1> DEFINE w == Head(k.pend[o])
           m == OsSchedTaskWake(k, w)
<1>1. SameCalls /\ kernel' = m
  <2>1. <<"schedule">> \in Plain
    BY DEF Plain
  <2> HIDE DEF m
  <2>2. Call(t, m, <<"schedule">>, NoArg)
    BY DEF m
  <2> QED BY <2>1, <2>2, WorkCalls
<1>2. t = kernel.run /\ (t \in Task => kernel.status[t] \cap Blocking = {})
  BY WorkFree
<1>3. w \in Task /\ "PEND" \in kernel.status[w] /\ Only(k, m, w)
  BY FirstWaiter
<1>4. SwitchComes'
  <2> HIDE DEF w, m
  <2>1. ASSUME t \in Task PROVE m.status[t] = kernel.status[t]
    <3>1. t # w
      BY <1>2, <1>3, <2>1 DEF Blocking
    <3> QED BY <1>3, <2>1, <3>1 DEF Only, SameRow, SameFlags, AsBefore
  <2>2. m.run = t
    BY <1>2, <1>3 DEF Only, SameControl, AsBefore
  <2> QED BY <1>1, <1>2, <2>1, <2>2, NothingToCome
<1> QED BY <1>1, <1>4, WakesFirst

\* So does an interrupt, which may have come before the waiter was switched out.
LEMMA IsrWakes ==
    ASSUME TaskInv, SafeInv, NEW o \in WaitObj, kernel.pend[o] # <<>>,
           kernel' = LOS_Schedule(OsSchedTaskWake(kernel, Head(kernel.pend[o]))),
           UNCHANGED <<todo, arg, handles>>
    PROVE  SafeInv'
<1> DEFINE w == Head(kernel.pend[o])
           m == OsSchedTaskWake(kernel, w)
<1>1. AsBefore(kernel)
  BY SelfAsBefore
<1>2. w \in Task /\ "PEND" \in kernel.status[w] /\ Only(kernel, m, w) /\ WellFormed(m)
  BY <1>1, FirstWaiter
<1> HIDE DEF w, m
<1>3. /\ kernel'.status = m.status /\ kernel'.run = kernel.run /\ kernel'.lock = kernel.lock
      /\ kernel.pendSV => kernel'.pendSV
  <2>1. kernel' = LOS_Schedule(m)
    BY DEF m, w
  <2> QED BY <1>2, <2>1, AskSame DEF Only, SameControl
<1>4. SwitchComes'
  <2>1. CASE w = kernel.run
    BY <1>2, <1>3, <2>1 DEF SafeInv, SwitchComes, Blocking
  <2>2. CASE w # kernel.run
    <3>1. kernel.run \in Task => kernel'.status[kernel.run] = kernel.status[kernel.run]
      BY <1>2, <1>3, <2>2 DEF Only, SameRow, SameFlags
    <3> QED BY <1>3, <3>1, StillComes
  <2> QED BY <2>1, <2>2
<1> QED BY <1>1, <1>4, UnchangedCalls, WakesFirst DEF w, m

-----------------------------------------------------------------------------
(* The outcome of a wait: OS_TASK_STATUS_TIMEOUT.                          *)

\* t is in a call on an object, in its wait or back from it.
AtResult(t) == todo[t] \in {<<"schedule", "result">>, <<"result">>}

\* t has been woken, and not by a timeout.
Granted(t) == AtResult(t) /\ kernel.status[t] \cap {"PEND", "TIMEOUT"} = {}

\* A call on an object is one of a task that lives, which its creator does not
\* work on; the timeout of a wait is forgotten at its end.
OutcomeInv ==
    /\ \A t \in TCB : AtResult(t) => t \in Task
    /\ \A x \in Task : AtResult(x) => kernel.status[x] \cap {"EXIT", "UNUSED"} = {}
    /\ \A x \in Task : "TIMEOUT" \in kernel.status[x] =>
          "PEND" \notin kernel.status[x] /\ (AtResult(x) \/ "EXIT" \in kernel.status[x])
    /\ \A t \in TCB, x \in Task : Creating(t, x) => ~AtResult(x)

SameObjPend == \A o \in WaitObj : kernel'.pend[o] = kernel.pend[o]

\* At most one task leaves the wait lists of the objects, or a call on an object,
\* and what cuts a call off is the end of its task.
OneLeaves ==
    \E x \in TCB :
       /\ \A o \in WaitObj : kernel'.pend[o] = Unlink(kernel.pend[o], x)
       /\ \A z \in TCB : z # x /\ AtResult(z) => AtResult(z)'
       /\ AtResult(x) => AtResult(x)' \/ kernel'.status[x] \cap {"EXIT", "UNUSED"} # {}

\* In a step of the tasks no call on an object begins, and one that is not cut off
\* comes no nearer to its outcome than its wait does.
ResultsGoOn ==
    /\ \A t \in TCB : /\ AtResult(t)' => AtResult(t) /\ arg'[t] = arg[t] /\ (Granted(t)' <=> Granted(t))
                      /\ AtResult(t) => AtResult(t)' \/ todo'[t] = <<>>
    /\ OneLeaves

\* Nobody leaves.
LEMMA NobodyLeaves ==
    ASSUME TaskInv, SafeInv, OutcomeInv, \A z \in Task : AtResult(z) => AtResult(z)', SameObjPend
    PROVE  OneLeaves
<1>1. Idle \in TCB /\ Idle \notin Task
  BY SchedAssumption DEF TCB
<1>2. ASSUME NEW o \in WaitObj PROVE Unlink(kernel.pend[o], Idle) = kernel.pend[o]
  <2>1. kernel.pend[o] \in Seq(Task)
    BY SafeKernel DEF WellFormed, SchedState, WaitList
  <2>2. ~Contains(kernel.pend[o], Idle)
    BY <1>1, <2>1, ContainsType
  <2> QED BY <2>2, UnlinkAbsent DEF Unlink
<1>3. \A z \in TCB : AtResult(z) => AtResult(z)'
  BY DEF OutcomeInv
<1> QED BY <1>1, <1>2, <1>3 DEF OneLeaves, SameObjPend

Outcome == {"TIMEOUT", "EXIT", "UNUSED"}

\* No wait list changes, and no flag that tells the outcome of a wait.
Steady(k, r) ==
    /\ r.pend = k.pend
    /\ \A x \in TCB, f \in Outcome : f \in r.status[x] <=> f \in k.status[x]

LEMMA SteadyTrans ==
    ASSUME NEW k, NEW m, NEW r, Steady(k, m), Steady(m, r)
    PROVE  Steady(k, r)
  BY DEF Steady

LEMMA SteadySame ==
    ASSUME NEW k, NEW r, r.pend = k.pend, r.status = k.status
    PROVE  Steady(k, r)
  BY DEF Steady

LEMMA SteadyStatus ==
    ASSUME NEW k, WellFormed(k), NEW t, NEW S, NEW r, r.pend = k.pend,
           r.status = [k.status EXCEPT ![t] = S],
           \A f \in Outcome : f \in S <=> f \in k.status[t]
    PROVE  Steady(k, r)
<1>1. \A x \in TCB : r.status[x] = IF x = t THEN S ELSE k.status[x]
  BY DEF WellFormed, SchedState
<1> QED BY <1>1 DEF Steady

\* A flag is given or taken.
LEMMA SteadyFlags ==
    ASSUME NEW k, WellFormed(k), NEW t, NEW F, F \cap Outcome = {}
    PROVE  /\ Steady(k, [k EXCEPT !.status[t] = @ \cup F])
           /\ Steady(k, [k EXCEPT !.status[t] = @ \ F])
<1> DEFINE U == k.status[t] \cup F
           D == k.status[t] \ F
<1>1. \A f \in Outcome : (f \in U <=> f \in k.status[t]) /\ (f \in D <=> f \in k.status[t])
  OBVIOUS
<1> HIDE DEF U, D
<1>2. /\ [k EXCEPT !.status[t] = U].status = [k.status EXCEPT ![t] = U]
      /\ [k EXCEPT !.status[t] = D].status = [k.status EXCEPT ![t] = D]
      /\ [k EXCEPT !.status[t] = U].pend = k.pend /\ [k EXCEPT !.status[t] = D].pend = k.pend
  BY DEF WellFormed, SchedState
<1>3. Steady(k, [k EXCEPT !.status[t] = U]) /\ Steady(k, [k EXCEPT !.status[t] = D])
  BY <1>1, <1>2, SteadyStatus
<1> QED BY <1>3 DEF U, D

LEMMA EnQueueSteady ==
    ASSUME NEW k, WellFormed(k), NEW t \in Task \cup {Idle}
    PROVE  Steady(k, OsSchedTaskEnQueue(k, t))
<1> DEFINE r == OsSchedTaskEnQueue(k, t)
           S == (k.status[t] \ {"PEND", "SUSPEND", "DELAY", "PEND_TIME"}) \cup {"READY"}
<1>1. r.pend = k.pend
  BY DEF OsSchedTaskEnQueue, ReadyQueueIn, OsSchedPriQueueEnHead, OsSchedPriQueueEnTail,
         WellFormed, SchedState
<1>2. r.status = IF "READY" \in k.status[t] THEN k.status ELSE [k.status EXCEPT ![t] = S]
  BY EnQueueStatus
<1>3. \A f \in Outcome : f \in S <=> f \in k.status[t]
  BY DEF Outcome
<1> HIDE DEF r, S
<1> QED BY <1>1, <1>2, <1>3, SteadySame, SteadyStatus DEF r

LEMMA DeQueueSteady ==
    ASSUME NEW k, WellFormed(k), NEW t \in Task \cup {Idle}
    PROVE  Steady(k, OsSchedTaskDeQueue(k, t))
<1> DEFINE r == OsSchedTaskDeQueue(k, t)
           S == k.status[t] \ {"READY"}
<1>1. r.pend = k.pend
  BY DEF OsSchedTaskDeQueue, OsSchedPriQueueDelete, WellFormed, SchedState
<1>2. r.status = [k.status EXCEPT ![t] = S]
  BY DeQueueParked
<1>3. \A f \in Outcome : f \in S <=> f \in k.status[t]
  BY DEF Outcome
<1> HIDE DEF r, S
<1> QED BY <1>1, <1>2, <1>3, SteadyStatus DEF r

LEMMA SuspendSteady ==
    ASSUME NEW k, WellFormed(k), NEW t \in Task
    PROVE  Steady(k, OsSchedSuspend(k, t))
<1> DEFINE m == OsSchedTaskDeQueue(k, t)
<1>1. WellFormed(m) /\ Steady(k, m)
  BY DeQueueKeeps, KeepsWellFormed, DeQueueSteady
<1>2. OsSchedSuspend(k, t) = [m EXCEPT !.status[t] = @ \cup {"SUSPEND"}]
  BY DEF OsSchedSuspend
<1> HIDE DEF m
<1>3. {"SUSPEND"} \cap Outcome = {}
  BY DEF Outcome
<1> QED BY <1>1, <1>2, <1>3, SteadyFlags, SteadyTrans

LEMMA ResumeSteady ==
    ASSUME NEW k, WellFormed(k), NEW t \in Task
    PROVE  Steady(k, OsSchedResume(k, t))
<1> DEFINE m == [k EXCEPT !.status[t] = @ \ {"SUSPEND"}]
<1>1. WellFormed(m)
  BY DropFlagsKeeps, KeepsWellFormed
<1>2. Steady(k, m)
  <2>1. {"SUSPEND"} \cap Outcome = {}
    BY DEF Outcome
  <2> QED BY <2>1, SteadyFlags
<1>3. OsSchedResume(k, t) = IF ResumeNeedSched(k, t) THEN OsSchedTaskEnQueue(m, t) ELSE m
  BY DEF OsSchedResume
<1> HIDE DEF m
<1> QED BY <1>1, <1>2, <1>3, EnQueueSteady, SteadyTrans

LEMMA ModifySteady ==
    ASSUME NEW k, WellFormed(k), NEW t \in Task, NEW p \in Prio
    PROVE  Steady(k, OsSchedModifyTaskSchedParam(k, t, p))
<1> DEFINE m == OsSchedTaskDeQueue(k, t)
           n == [m EXCEPT !.priority[t] = p]
           o == [k EXCEPT !.priority[t] = p]
<1>1. WellFormed(m) /\ Steady(k, m)
  BY DeQueueKeeps, KeepsWellFormed, DeQueueSteady
<1>2. OsSchedModifyTaskSchedParam(k, t, p) =
        IF "READY" \in k.status[t] THEN OsSchedTaskEnQueue(n, t) ELSE o
  BY DEF OsSchedModifyTaskSchedParam
<1>3. Steady(k, o)
  BY DEF Steady, WellFormed, SchedState
<1> HIDE DEF m, o
<1>4. WellFormed(n) /\ Steady(m, n)
  <2>1. n.pend = m.pend /\ n.status = m.status
    BY <1>1 DEF WellFormed, SchedState
  <2> QED BY <1>1, <2>1, PriorityKeeps, KeepsWellFormed, SteadySame
<1> HIDE DEF n
<1> QED BY <1>1, <1>2, <1>3, <1>4, EnQueueSteady, SteadyTrans

\* LOS_Schedule, the time slices, the lock and the tick touch neither.
LEMMA AskSteady ==
    ASSUME NEW k, WellFormed(k), NEW used, NEW n, NEW b
    PROVE  /\ Steady(k, LOS_Schedule(k))
           /\ Steady(k, [k EXCEPT !.lock = n])
           /\ Steady(k, OsSchedYield(k))
           /\ Steady(k, [Elapse(k) EXCEPT !.tick = b])
           /\ Steady(k, OsTimeSliceUpdate(k, used))
           /\ Steady(k, LOS_Schedule(OsTimeSliceUpdate(k, used)))
           /\ Steady(k, LOS_Schedule([OsTimeSliceUpdate(k, used) EXCEPT !.tick = b]))
<1> DEFINE u == OsTimeSliceUpdate(k, used)
<1>1. u.status = k.status /\ u.pend = k.pend /\ [u EXCEPT !.tick = b].status = k.status
      /\ [u EXCEPT !.tick = b].pend = k.pend
  BY DEF OsTimeSliceUpdate, WellFormed, SchedState
<1>2. /\ LOS_Schedule(k).status = k.status /\ LOS_Schedule(k).pend = k.pend
      /\ [k EXCEPT !.lock = n].status = k.status /\ [k EXCEPT !.lock = n].pend = k.pend
      /\ OsSchedYield(k).status = k.status /\ OsSchedYield(k).pend = k.pend
      /\ [Elapse(k) EXCEPT !.tick = b].status = k.status
      /\ [Elapse(k) EXCEPT !.tick = b].pend = k.pend
  BY DEF LOS_Schedule, OsSchedYield, Elapse, WellFormed, SchedState
<1>3. /\ LOS_Schedule(u).status = k.status /\ LOS_Schedule(u).pend = k.pend
      /\ LOS_Schedule([u EXCEPT !.tick = b]).status = k.status
      /\ LOS_Schedule([u EXCEPT !.tick = b]).pend = k.pend
  BY DEF LOS_Schedule, OsTimeSliceUpdate, WellFormed, SchedState
<1> HIDE DEF u
<1>4. /\ Steady(k, u) /\ Steady(k, LOS_Schedule(u))
      /\ Steady(k, LOS_Schedule([u EXCEPT !.tick = b]))
  BY <1>1, <1>3, SteadySame
<1>5. /\ Steady(k, LOS_Schedule(k)) /\ Steady(k, [k EXCEPT !.lock = n])
      /\ Steady(k, OsSchedYield(k)) /\ Steady(k, [Elapse(k) EXCEPT !.tick = b])
  BY <1>2, SteadySame
<1> QED BY <1>4, <1>5 DEF u

LEMMA DelaySteady ==
    ASSUME NEW k, WellFormed(k), NEW ticks
    PROVE  Steady(k, OsSchedDelay(k, ticks))
<1> DEFINE S == k.status[k.run] \cup {"DELAY"}
           r == OsSchedDelay(k, ticks)
<1>1. r.status = [k.status EXCEPT ![k.run] = S] /\ r.pend = k.pend
  BY DEF OsSchedDelay, WellFormed, SchedState
<1>2. \A f \in Outcome : f \in S <=> f \in k.status[k.run]
  BY DEF Outcome
<1> HIDE DEF S, r
<1> QED BY <1>1, <1>2, SteadyStatus DEF r

\* The processor goes to n.
LEMMA GiveSteady ==
    ASSUME NEW k, WellFormed(k), NEW n \in Task \cup {Idle}
    PROVE  Steady(k, OsSchedTaskDeQueue([k EXCEPT !.status[n] = @ \cup {"RUNNING"}, !.run = n], n))
<1> DEFINE S == k.status[n] \cup {"RUNNING"}
           m == [k EXCEPT !.status[n] = S]
           r == [m EXCEPT !.run = n]
<1>1. WellFormed(m)
  <2>1. n \in TCB /\ Fits(n, S)
    <3>1. k.status[n] \in SUBSET Flag /\ (n = Idle => k.status[n] \subseteq {"READY", "RUNNING", "STACK_FREE"})
          /\ n # Boot
      BY SchedAssumption DEF WellFormed, SchedState, SpecialTasks, TCB
    <3> QED BY <3>1 DEF Fits, TCB, Flag
  <2> HIDE DEF S
  <2> QED BY <2>1, StatusKeeps, KeepsWellFormed
<1>2. Steady(k, m)
  <2>1. {"RUNNING"} \cap Outcome = {}
    BY DEF Outcome
  <2> QED BY <2>1, SteadyFlags
<1>3. r = [k EXCEPT !.status[n] = S, !.run = n]
  BY DEF WellFormed, SchedState
<1> HIDE DEF m, S
<1>4. Steady(m, r)
  <2>1. r.pend = m.pend /\ r.status = m.status
    BY <1>1 DEF WellFormed, SchedState
  <2> QED BY <2>1, SteadySame
<1>5. r \in SchedState
  BY <1>1 DEF WellFormed, SchedState, TCB
<1>6. WellFormed(r)
  <2>1. /\ r.status = m.status /\ r.priority = m.priority /\ r.ready = m.ready
        /\ r.queueBitmap = m.queueBitmap /\ r.pend = m.pend
    BY <1>1 DEF WellFormed, SchedState
  <2> QED BY <1>1, <1>5, <2>1, OtherFieldsKeep, KeepsWellFormed
<1> HIDE DEF r
<1>7. Steady(r, OsSchedTaskDeQueue(r, n))
  BY <1>6, DeQueueSteady
<1>8. Steady(k, OsSchedTaskDeQueue(r, n))
  BY <1>2, <1>4, <1>7, SteadyTrans
<1> QED BY <1>3, <1>8 DEF S

\* A task is switched out.
LEMMA PutBackSteady ==
    ASSUME NEW k, WellFormed(k)
    PROVE  Steady(k, PutBack(k))
<1>1. CASE Has(k, k.run, {"PEND_TIME", "DELAY"})
  <2>1. PutBack(k) = OsAdd2SortLink(k, k.run)
    BY <1>1 DEF PutBack
  <2>2. OsAdd2SortLink(k, k.run).pend = k.pend /\ OsAdd2SortLink(k, k.run).status = k.status
    BY DEF OsAdd2SortLink, WellFormed, SchedState
  <2> QED BY <2>1, <2>2, SteadySame
<1>2. CASE ~Has(k, k.run, {"PEND_TIME", "DELAY"}) /\ ~Has(k, k.run, OS_TASK_BLOCKED_STATUS)
  <2>1. k.run \in Task \cup {Idle}
    BY <1>2 DEF Has, OS_TASK_BLOCKED_STATUS, TCB, WellFormed, SchedState, SpecialTasks
  <2>2. PutBack(k) = OsSchedTaskEnQueue(k, k.run)
    BY <1>2 DEF PutBack
  <2> QED BY <2>1, <2>2, EnQueueSteady
<1>3. CASE ~Has(k, k.run, {"PEND_TIME", "DELAY"}) /\ Has(k, k.run, OS_TASK_BLOCKED_STATUS)
  <2>1. PutBack(k) = k
    BY <1>3 DEF PutBack
  <2> QED BY <2>1, SteadySame
<1> QED BY <1>1, <1>2, <1>3

\* The context switch, and the first one.
LEMMA SwitchSteady ==
    ASSUME NEW k, WellFormed(k)
    PROVE  Steady(k, OsSchedTaskSwitch(k))
<1> DEFINE k1 == PutBack(k)
           n  == OsGetTopTask(k1)
           S  == k1.status[k.run] \ {"RUNNING"}
           k2 == [k1 EXCEPT !.status[k.run] = S]
           d  == OsSchedTaskDeQueue([k2 EXCEPT !.status[n] = @ \cup {"RUNNING"}, !.run = n], n)
           r  == [d EXCEPT !.pendSV = FALSE]
<1>1. Steady(k, k1) /\ WellFormed(k1)
  BY PutBackSteady, PutBackKeeps, KeepsWellFormed
<1>2. OsSchedTaskSwitch(k) = IF k1.panic THEN k1 ELSE r
  BY DEF OsSchedTaskSwitch
<1>3. k.run \in TCB
  BY DEF WellFormed, SchedState
<1> HIDE DEF k1
<1>4. n \in Task \cup {Idle}
  BY <1>1, TopTaskType
<1> HIDE DEF n
<1>5. Fits(k.run, S)
  BY <1>1, <1>3 DEF Fits, WellFormed, SchedState, SpecialTasks
<1>6. WellFormed(k2)
  BY <1>1, <1>3, <1>5, StatusKeeps, KeepsWellFormed
<1>7. Steady(k1, k2)
  <2>1. {"RUNNING"} \cap Outcome = {}
    BY DEF Outcome
  <2> QED BY <1>1, <2>1, SteadyFlags
<1> HIDE DEF k2
<1>8. Steady(k2, d)
  BY <1>4, <1>6, GiveSteady
<1>9. WellFormed(d)
  <2>1. WellFormed([k2 EXCEPT !.status[n] = @ \cup {"RUNNING"}, !.run = n])
    BY <1>4, <1>6, RunningKeeps, KeepsWellFormed
  <2> QED BY <1>4, <2>1, DeQueueKeeps, KeepsWellFormed
<1> HIDE DEF d
<1>10. Steady(d, r)
  <2>1. r.pend = d.pend /\ r.status = d.status
    BY <1>9 DEF WellFormed, SchedState
  <2> QED BY <2>1, SteadySame
<1> HIDE DEF r
<1>11. Steady(k, r)
  BY <1>1, <1>7, <1>8, <1>10, SteadyTrans
<1> QED BY <1>1, <1>2, <1>11

LEMMA StartSteady ==
    ASSUME NEW k, WellFormed(k)
    PROVE  Steady(k, OsSchedStart(k))
<1> DEFINE n == OsGetTopTask(k)
           d == OsSchedTaskDeQueue([k EXCEPT !.status[n] = @ \cup {"RUNNING"}, !.run = n], n)
           r == [d EXCEPT !.started = TRUE]
<1>1. n \in Task \cup {Idle}
  BY TopTaskType
<1>2. OsSchedStart(k) = r
  BY DEF OsSchedStart
<1> HIDE DEF n
<1>3. Steady(k, d)
  BY <1>1, GiveSteady
<1>4. WellFormed(d)
  <2>1. WellFormed([k EXCEPT !.status[n] = @ \cup {"RUNNING"}, !.run = n])
    BY <1>1, RunningKeeps, KeepsWellFormed
  <2> QED BY <1>1, <2>1, DeQueueKeeps, KeepsWellFormed
<1> HIDE DEF d
<1>5. Steady(d, r)
  <2>1. r.pend = d.pend /\ r.status = d.status
    BY <1>4 DEF WellFormed, SchedState
  <2> QED BY <2>1, SteadySame
<1> QED BY <1>2, <1>3, <1>5, SteadyTrans

-----------------------------------------------------------------------------
(* What a function does to the wait lists, whatever the state.             *)

SamePend(k, r) == "pend" \in DOMAIN k => "pend" \in DOMAIN r /\ r.pend = k.pend

\* t leaves the wait list that it is on.
LeftBy(k, r, t) ==
    "pend" \in DOMAIN k =>
       "pend" \in DOMAIN r /\ r.pend = [o \in WaitList |-> Unlink(k.pend[o], t)]

LEMMA PendTrans ==
    ASSUME NEW k, NEW m, NEW r, NEW t
    PROVE  /\ SamePend(k, k)
           /\ SamePend(k, m) /\ SamePend(m, r) => SamePend(k, r)
           /\ LeftBy(k, m, t) /\ SamePend(m, r) => LeftBy(k, r, t)
           /\ SamePend(k, m) /\ LeftBy(m, r, t) => LeftBy(k, r, t)
  BY DEF SamePend, LeftBy

LEMMA PendParts ==
    ASSUME NEW k, NEW t
    PROVE  /\ LeftBy(k, LeaveWaitList(k, t), t)
           /\ SamePend(k, OsSchedTaskEnQueue(k, t)) /\ SamePend(k, OsSchedTaskDeQueue(k, t))
           /\ SamePend(k, OsDeleteNodeSortLink(k, t)) /\ SamePend(k, OsDeleteSortLink(k, t))
           /\ \A S : SamePend(k, [k EXCEPT !.status[t] = S])
<1>1. SamePend(k, ReadyQueueIn(k, t))
  BY DEF SamePend, ReadyQueueIn, OsSchedPriQueueEnHead, OsSchedPriQueueEnTail
<1>2. SamePend(k, OsSchedPriQueueDelete(k, t))
  BY DEF SamePend, OsSchedPriQueueDelete
<1>3. \A r, S : SamePend(r, [r EXCEPT !.status[t] = S]) /\ SamePend(r, [r EXCEPT !.panic = TRUE])
  BY DEF SamePend
<1>4. SamePend(k, OsSchedTaskEnQueue(k, t))
  BY <1>1, <1>3, PendTrans DEF OsSchedTaskEnQueue
<1>5. SamePend(k, OsSchedTaskDeQueue(k, t))
  BY <1>2, <1>3, PendTrans DEF OsSchedTaskDeQueue
<1>6. LeftBy(k, LeaveWaitList(k, t), t)
  BY DEF LeftBy, LeaveWaitList
<1>7. SamePend(k, OsDeleteNodeSortLink(k, t)) /\ SamePend(k, OsDeleteSortLink(k, t))
  BY DEF SamePend, OsDeleteNodeSortLink, OsDeleteSortLink
<1> QED BY <1>3, <1>4, <1>5, <1>6, <1>7

\* OsSchedTaskWake.
LEMMA WakePend ==
    ASSUME NEW k, NEW t
    PROVE  LeftBy(k, OsSchedTaskWake(k, t), t)
<1> DEFINE l  == LeaveWaitList(k, t)
           k1 == [l EXCEPT !.status[t] = @ \ {"PEND"}]
           k2 == ClearPendTime(k1, t)
<1>1. LeftBy(k, k1, t)
  <2>1. LeftBy(k, l, t)
    BY PendParts
  <2> HIDE DEF l
  <2>2. SamePend(l, k1)
    BY DEF SamePend
  <2> HIDE DEF k1
  <2> QED BY <2>1, <2>2, PendTrans
<1> HIDE DEF k1
<1>2. SamePend(k1, k2)
  <2> DEFINE d == OsDeleteSortLink(k1, t)
             r == [d EXCEPT !.status[t] = @ \ {"PEND_TIME"}]
  <2>1. SamePend(k1, d)
    BY PendParts
  <2>2. k2 = r \/ k2 = k1
    BY DEF ClearPendTime
  <2> HIDE DEF d
  <2>3. SamePend(d, r)
    BY DEF SamePend
  <2> HIDE DEF r, k2
  <2> QED BY <2>1, <2>2, <2>3, PendTrans
<1> HIDE DEF k2
<1>3. LeftBy(k, k2, t) /\ LeftBy(k, OsSchedTaskEnQueue(k2, t), t)
  <2>1. SamePend(k2, OsSchedTaskEnQueue(k2, t))
    BY PendParts
  <2> QED BY <1>1, <1>2, <2>1, PendTrans
<1>4. OsSchedTaskWake(k, t) = k2 \/ OsSchedTaskWake(k, t) = OsSchedTaskEnQueue(k2, t)
  BY DEF OsSchedTaskWake, k1, k2
<1> QED BY <1>3, <1>4

\* OsSchedWakePendTimeTask.
LEMMA TimeoutPend ==
    ASSUME NEW k, NEW t
    PROVE  LET r == OsSchedWakePendTimeTask(k, t)
           IN  IF Has(k, t, {"PEND"}) THEN LeftBy(k, r, t) ELSE SamePend(k, r)
<1> DEFINE k1 == [k EXCEPT !.status[t] = @ \ {"PEND", "PEND_TIME", "DELAY"}]
           l  == [LeaveWaitList(k1, t) EXCEPT !.status[t] = @ \cup {"TIMEOUT"}]
           k2 == IF Has(k, t, {"PEND"}) THEN l ELSE k1
           r  == OsSchedWakePendTimeTask(k, t)
<1>1. SamePend(k, k1)
  BY PendParts
<1> HIDE DEF k1
<1>2. LeftBy(k1, LeaveWaitList(k1, t), t)
  BY PendParts
<1>3. LeftBy(k, l, t)
  <2> DEFINE q == LeaveWaitList(k1, t)
  <2>1. SamePend(q, l)
    <3>1. \A m : SamePend(m, [m EXCEPT !.status[t] = @ \cup {"TIMEOUT"}])
      BY DEF SamePend
    <3> QED BY <3>1
  <2> HIDE DEF q, l
  <2>2. LeftBy(k1, q, t)
    BY <1>2 DEF q
  <2>3. LeftBy(k, q, t)
    BY <1>1, <2>2, PendTrans
  <2> QED BY <2>1, <2>3, PendTrans
<1> HIDE DEF l
<1>4. IF Has(k, t, {"PEND"}) THEN LeftBy(k, k2, t) ELSE SamePend(k, k2)
  BY <1>1, <1>3
<1>5. IF ~Has(k, t, {"PEND", "DELAY"}) THEN r = k ELSE r = k2 \/ r = OsSchedTaskEnQueue(k2, t)
  BY DEF OsSchedWakePendTimeTask, k1, l, k2
<1>6. Has(k, t, {"PEND"}) => Has(k, t, {"PEND", "DELAY"})
  BY DEF Has
<1> HIDE DEF k2, r
<1>7. SamePend(k2, OsSchedTaskEnQueue(k2, t))
  BY PendParts
<1>8. IF Has(k, t, {"PEND"}) THEN LeftBy(k, r, t) ELSE SamePend(k, r)
  BY <1>4, <1>5, <1>6, <1>7, PendTrans
<1> QED BY <1>8 DEF r

\* OsSchedTaskExit.
LEMMA ExitPend ==
    ASSUME NEW k, NEW t
    PROVE  LET r == OsSchedTaskExit(k, t)
           IN  IF ~Has(k, t, {"READY"}) /\ Has(k, t, {"PEND"}) THEN LeftBy(k, r, t)
               ELSE SamePend(k, r)
<1> DEFINE l  == [LeaveWaitList(k, t) EXCEPT !.status[t] = @ \ {"PEND"}]
           k1 == IF Has(k, t, {"READY"}) THEN OsSchedTaskDeQueue(k, t)
                 ELSE IF Has(k, t, {"PEND"}) THEN l ELSE k
           d  == [OsDeleteSortLink(k1, t) EXCEPT !.status[t] = @ \ {"DELAY", "PEND_TIME"}]
           k2 == IF Has(k1, t, {"DELAY", "PEND_TIME"}) THEN d ELSE k1
           r  == OsSchedTaskExit(k, t)
<1>1. LeftBy(k, l, t)
  <2> DEFINE q == LeaveWaitList(k, t)
  <2>1. SamePend(q, l)
    <3>1. \A m : SamePend(m, [m EXCEPT !.status[t] = @ \ {"PEND"}])
      BY DEF SamePend
    <3> QED BY <3>1
  <2> HIDE DEF q, l
  <2>2. LeftBy(k, q, t)
    BY PendParts DEF q
  <2> QED BY <2>1, <2>2, PendTrans
<1> HIDE DEF l
<1>2. IF ~Has(k, t, {"READY"}) /\ Has(k, t, {"PEND"}) THEN LeftBy(k, k1, t) ELSE SamePend(k, k1)
  BY <1>1, PendParts, PendTrans
<1> HIDE DEF k1
<1>3. SamePend(k1, d)
  <2> DEFINE q == OsDeleteSortLink(k1, t)
  <2>1. SamePend(q, d)
    <3>1. \A m : SamePend(m, [m EXCEPT !.status[t] = @ \ {"DELAY", "PEND_TIME"}])
      BY DEF SamePend
    <3> QED BY <3>1
  <2> HIDE DEF q, d
  <2>2. SamePend(k1, q)
    BY PendParts DEF q
  <2> QED BY <2>1, <2>2, PendTrans
<1> HIDE DEF d
<1>4. SamePend(k1, k2)
  BY <1>3, PendTrans
<1> HIDE DEF k2
<1>5. r = [k2 EXCEPT !.status[t] = @ \cup {"EXIT"}]
  BY DEF OsSchedTaskExit, l, k1, d, k2
<1>6. SamePend(k2, r)
  BY <1>5 DEF SamePend
<1> HIDE DEF r
<1>7. SamePend(k1, r)
  BY <1>4, <1>6, PendTrans
<1>8. IF ~Has(k, t, {"READY"}) /\ Has(k, t, {"PEND"}) THEN LeftBy(k, r, t) ELSE SamePend(k, r)
  BY <1>2, <1>7, PendTrans
<1> QED BY <1>8 DEF r

\* OsRecycleTaskResources: of the wait lists at most that of the task is reset.
LEMMA RecyclePend ==
    ASSUME NEW k, WellFormed(k), NEW x \in Task, NEW o \in WaitObj
    PROVE  /\ OsRecycleTaskResources(k, x).pend[o] = k.pend[o]
           /\ OsInsertTCBToFreeList(k, x).pend[o] = k.pend[o]
<1>1. o # x /\ "pend" \in DOMAIN k
  BY SchedAssumption DEF WellFormed, SchedState
<1>2. ASSUME NEW m, "pend" \in DOMAIN m PROVE OsInsertTCBToFreeList(m, x).pend[o] = m.pend[o]
  BY <1>1, <1>2 DEF OsInsertTCBToFreeList
<1> DEFINE m == [k EXCEPT !.status[x] = @ \ {"STACK_FREE"}]
<1>3. "pend" \in DOMAIN m /\ m.pend = k.pend
  BY <1>1
<1>4. OsRecycleTaskResources(k, x) \in {m, OsInsertTCBToFreeList(m, x)}
  BY DEF OsRecycleTaskResources
<1> HIDE DEF m
<1> QED BY <1>1, <1>2, <1>3, <1>4

\* The end of x: only x leaves the wait list of an object.
LEMMA ExitedPend ==
    ASSUME TaskInv, SafeInv, NEW x \in Task, NEW o \in WaitObj, kernel.run \in Task,
           kernel.status[kernel.run] \cap Blocking = {}
    PROVE  Exited(x).pend[o] = Unlink(kernel.pend[o], x)
<1> DEFINE u == IF Has(kernel, x, {"RUNNING"}) THEN [kernel EXCEPT !.lock = 0] ELSE kernel
           j == OsTaskJoinPostUnsafe(u, x)
<1>1. /\ "pend" \in DOMAIN kernel /\ o \in WaitList /\ o # x /\ Placed(kernel, x)
      /\ kernel.pend \in [WaitList -> Seq(Task)]
  BY SafeKernel, SchedAssumption DEF WellFormed, SchedState, WaitList
<1>2. "pend" \in DOMAIN u /\ u.pend = kernel.pend /\ u.status = kernel.status
  BY SafeKernel DEF WellFormed, SchedState
<1>6. WellFormed(u) /\ Sound(u) /\ SameLists(u, kernel) /\ u.run = kernel.run
  <2>1. WellFormed(kernel) /\ Sound(kernel)
    BY SafeKernel
  <2>2. WellFormed([kernel EXCEPT !.lock = 0])
    BY <2>1, LockKeeps, KeepsWellFormed
  <2>3. /\ WellFormed(u) /\ SameLists(u, kernel) /\ SameLists(kernel, u) /\ u.run = kernel.run
        /\ u.priority = kernel.priority /\ u.panic = kernel.panic /\ u.started = kernel.started
    BY <2>1, <2>2 DEF SameLists, WellFormed, SchedState
  <2>4. u.run # Boot
    BY <2>3, SchedAssumption
  <2> HIDE DEF u
  <2> QED BY <1>2, <2>1, <2>3, <2>4, SoundSame
<1>3. Exited(x) = OsSchedTaskExit(j, x)
  BY DEF Exited
<1> HIDE DEF u
<1>7. j.status[x] = kernel.status[x]
  BY <1>2, <1>6, JoinPostRow
<1>4. "pend" \in DOMAIN j /\ j.pend[o] = kernel.pend[o]
  <2>1. CASE Has(u, x, {"JOINABLE"}) /\ kernel.pend[x] # <<>>
    <3> DEFINE w == Head(kernel.pend[x])
    <3>1. w \in Task /\ w # x /\ x \in Waits(kernel, w)
      BY <2>1, JoinerOf
    <3>2. j = OsSchedTaskWake(u, w)
      BY <1>2, <2>1 DEF OsTaskJoinPostUnsafe
    <3> HIDE DEF w
    <3>3. o \notin Waits(kernel, w)
      <4>1. Placed(kernel, w)
        BY <3>1, SafeKernel
      <4> QED BY <1>1, <3>1, <4>1 DEF Placed
    <3>4. Unlink(kernel.pend[o], w) = kernel.pend[o]
      <4>1. ~Contains(kernel.pend[o], w)
        BY <1>1, <3>3 DEF Waits
      <4> QED BY <4>1, UnlinkAbsent DEF Unlink
    <3>5. "pend" \in DOMAIN j /\ j.pend = [q \in WaitList |-> Unlink(kernel.pend[q], w)]
      BY <1>2, <3>2, WakePend DEF LeftBy
    <3>6. j.pend[o] = kernel.pend[o]
      BY <1>1, <3>4, <3>5
    <3> QED BY <3>5, <3>6
  <2>2. CASE ~(Has(u, x, {"JOINABLE"}) /\ kernel.pend[x] # <<>>)
    BY <1>1, <1>2, <2>2 DEF OsTaskJoinPostUnsafe
  <2> QED BY <2>1, <2>2
<1> HIDE DEF j
<1>5. CASE ~Has(j, x, {"READY"}) /\ Has(j, x, {"PEND"})
  <2>1. Exited(x).pend = [q \in WaitList |-> Unlink(j.pend[q], x)]
    BY <1>3, <1>4, <1>5, ExitPend DEF LeftBy
  <2> QED BY <1>1, <1>4, <2>1
<1>8. CASE Has(j, x, {"READY"}) \/ ~Has(j, x, {"PEND"})
  <2>1. "PEND" \notin kernel.status[x]
    BY <1>1, <1>7, <1>8 DEF Has, Placed, Blocking
  <2>2. ~Contains(kernel.pend[o], x)
    BY <1>1, <2>1 DEF Placed, Waits
  <2>3. Unlink(kernel.pend[o], x) = kernel.pend[o]
    BY <1>1, <2>2, UnlinkAbsent DEF Unlink
  <2>4. Exited(x).pend = j.pend
    BY <1>3, <1>4, <1>8, ExitPend DEF SamePend
  <2> QED BY <1>4, <2>3, <2>4
<1> QED BY <1>5, <1>8 DEF Has

-----------------------------------------------------------------------------
(* The steps of the tasks go on with the waits.                            *)

Alike(x) == \A f \in Outcome \cup {"PEND"} : f \in kernel'.status[x] <=> f \in kernel.status[x]

\* What becomes of a task that is in no call on an object, or no longer.
Over(x) == ~AtResult(x)' /\ ("TIMEOUT" \in kernel'.status[x] => "EXIT" \in kernel'.status[x])

RunsOut(x) ==
    /\ AtResult(x) /\ AtResult(x)' /\ "PEND" \in kernel.status[x]
    /\ "TIMEOUT" \in kernel'.status[x] /\ kernel'.status[x] \cap {"PEND", "EXIT", "UNUSED"} = {}

CallsGo ==
    /\ \A u \in TCB : /\ AtResult(u)' => AtResult(u) /\ arg'[u] = arg[u]
                      /\ AtResult(u) => AtResult(u)' \/ todo'[u] = <<>>
    /\ \A u \in TCB, x \in Task : Creating(u, x)' => Creating(u, x) \/ ~AtResult(x)'

LEMMA OutcomeStep ==
    ASSUME SafeInv', OutcomeInv, CallsGo, OneLeaves,
           \A x \in Task : (Alike(x) /\ (AtResult(x) => AtResult(x)')) \/ Over(x) \/ RunsOut(x)
    PROVE  OutcomeInv' /\ ResultsGoOn
<1>1. \A t \in TCB : AtResult(t)' => AtResult(t) /\ t \in Task
  BY DEF CallsGo, OutcomeInv
<1>2. \A x \in Task : AtResult(x)' => kernel'.status[x] \cap {"EXIT", "UNUSED"} = {}
  <2>1. SUFFICES ASSUME NEW x \in Task, AtResult(x)'
                 PROVE  kernel'.status[x] \cap {"EXIT", "UNUSED"} = {}
    OBVIOUS
  <2>2. AtResult(x) /\ kernel.status[x] \cap {"EXIT", "UNUSED"} = {}
    BY <2>1 DEF CallsGo, OutcomeInv, TCB
  <2>3. CASE Alike(x)
    BY <2>2, <2>3 DEF Alike, Outcome
  <2>4. CASE RunsOut(x)
    BY <2>4 DEF RunsOut
  <2> QED BY <2>1, <2>3, <2>4 DEF Over
<1>3. \A x \in Task : "TIMEOUT" \in kernel'.status[x] =>
         "PEND" \notin kernel'.status[x] /\ (AtResult(x)' \/ "EXIT" \in kernel'.status[x])
  <2>1. SUFFICES ASSUME NEW x \in Task, "TIMEOUT" \in kernel'.status[x]
                 PROVE  "PEND" \notin kernel'.status[x] /\ (AtResult(x)' \/ "EXIT" \in kernel'.status[x])
    OBVIOUS
  <2>2. CASE Alike(x) /\ (AtResult(x) => AtResult(x)')
    <3>1. {"TIMEOUT", "PEND", "EXIT"} \subseteq Outcome \cup {"PEND"}
      BY DEF Outcome
    <3>2. "TIMEOUT" \in kernel.status[x]
      BY <2>1, <2>2, <3>1 DEF Alike
    <3>3. "PEND" \notin kernel.status[x] /\ (AtResult(x) \/ "EXIT" \in kernel.status[x])
      BY <3>2 DEF OutcomeInv
    <3> QED BY <2>2, <3>1, <3>3 DEF Alike
  <2>3. CASE Over(x)
    <3>1. "EXIT" \in kernel'.status[x]
      BY <2>1, <2>3 DEF Over
    <3>2. Placed(kernel, x)'
      BY DEF SafeInv, Sound
    <3> QED BY <3>1, <3>2 DEF Placed
  <2>4. CASE RunsOut(x)
    BY <2>4 DEF RunsOut
  <2> QED BY <2>2, <2>3, <2>4
<1>4. \A t \in TCB, x \in Task : Creating(t, x)' => ~AtResult(x)'
  <2>1. SUFFICES ASSUME NEW t \in TCB, NEW x \in Task, Creating(t, x)', AtResult(x)' PROVE FALSE
    OBVIOUS
  <2>2. Creating(t, x) /\ AtResult(x)
    BY <2>1, <1>1 DEF CallsGo, TCB
  <2> QED BY <2>2 DEF OutcomeInv
<1>5. OutcomeInv'
  <2>1. \A t \in TCB : AtResult(t)' => t \in Task
    BY <1>1
  <2> QED BY <1>2, <1>3, <1>4, <2>1 DEF OutcomeInv
<1>6. \A t \in TCB : AtResult(t)' => (Granted(t)' <=> Granted(t))
  <2>1. SUFFICES ASSUME NEW t \in TCB, AtResult(t)' PROVE Granted(t)' <=> Granted(t)
    OBVIOUS
  <2>2. t \in Task /\ AtResult(t)
    BY <1>1, <2>1
  <2>3. CASE Alike(t)
    <3>1. {"TIMEOUT", "PEND"} \subseteq Outcome \cup {"PEND"}
      BY DEF Outcome
    <3> QED BY <2>1, <2>2, <2>3, <3>1 DEF Alike, Granted
  <2>4. CASE RunsOut(t)
    BY <2>4 DEF RunsOut, Granted
  <2> QED BY <2>1, <2>2, <2>3, <2>4 DEF Over
<1> QED BY <1>5, <1>6 DEF ResultsGoOn, CallsGo

\* Where no wait list changes PEND does not either.
LEMMA SteadyAlike ==
    ASSUME SafeInv, SafeInv', NEW x \in Task, SameWaits(kernel, kernel', x),
           \A f \in Outcome : f \in kernel'.status[x] <=> f \in kernel.status[x]
    PROVE  Alike(x)
<1>1. Placed(kernel, x) /\ Placed(kernel, x)'
  BY DEF SafeInv, Sound
<1>2. Waits(kernel', x) = Waits(kernel, x)
  BY DEF SameWaits
<1>3. Waits(kernel', x) # {} <=> "PEND" \in kernel'.status[x]
  BY <1>1 DEF Placed, Waits
<1>4. Waits(kernel, x) # {} <=> "PEND" \in kernel.status[x]
  BY <1>1 DEF Placed
<1> QED BY <1>2, <1>3, <1>4 DEF Alike

LEMMA SteadyStep ==
    ASSUME TaskInv, SafeInv, SafeInv', OutcomeInv, CallsGo,
           \A x \in Task : AtResult(x) => AtResult(x)', Steady(kernel, kernel')
    PROVE  OutcomeInv' /\ ResultsGoOn
<1>1. \A x \in Task : Alike(x)
  <2>1. SUFFICES ASSUME NEW x \in Task PROVE Alike(x)
    OBVIOUS
  <2>2. SameWaits(kernel, kernel', x) /\ x \in TCB
    BY DEF Steady, SameWaits, Waits, TCB
  <2> QED BY <2>2, SteadyAlike DEF Steady
<1>2. OneLeaves
  BY NobodyLeaves DEF Steady, SameObjPend
<1> QED BY <1>1, <1>2, OutcomeStep

\* A step that moves no call on.
LEMMA QuietCalls ==
    ASSUME UNCHANGED <<todo, arg>>
    PROVE  CallsGo /\ \A x \in Task : AtResult(x) => AtResult(x)'
  BY DEF CallsGo, AtResult, Creating

\* A call that is not on an object begins or goes on.
LEMMA OtherCalls ==
    ASSUME TaskInv, NEW t \in TCB, ~AtResult(t), NEW k, NEW s, NEW a, Call(t, k, s, a),
           s \notin {<<"schedule", "result">>, <<"result">>, <<"enqueue">>, <<"noStack">>}
    PROVE  CallsGo /\ \A x \in Task : AtResult(x) => AtResult(x)'
<1>1. /\ todo'[t] = s /\ \A u \in TCB : u # t => todo'[u] = todo[u] /\ arg'[u] = arg[u]
  BY DEF Call, TaskInv, TaskTypeOK
<1>2. \A x \in Task : AtResult(x) => AtResult(x)'
  BY <1>1 DEF AtResult, TCB
<1>3. \A u \in TCB : /\ AtResult(u)' => AtResult(u) /\ arg'[u] = arg[u]
                     /\ AtResult(u) => AtResult(u)' \/ todo'[u] = <<>>
  BY <1>1 DEF AtResult
<1>4. \A u \in TCB, x \in Task : Creating(u, x)' => Creating(u, x)
  BY <1>1 DEF Creating
<1> QED BY <1>2, <1>3, <1>4 DEF CallsGo

\* A task in application code, or in one of the calls of los_task.c, is in none on an object.
LEMMA NotAtResult ==
    ASSUME NEW t, \/ todo[t] = <<>>
                  \/ todo[t] # <<>> /\ Head(todo[t]) \notin {"schedule", "result"}
    PROVE  ~AtResult(t)
  BY DEF AtResult

\* The timers, the switch, and the interrupts that suspend and resume.
LEMMA KernelGoesOn ==
    ASSUME TaskInv, SafeInv, SafeInv', OutcomeInv,
           Start \/ PendSV \/ TickStart \/ TickEnd \/ SliceEnd \/ IsrStep
    PROVE  OutcomeInv' /\ ResultsGoOn
<1>1. WellFormed(kernel)
  BY SafeKernel
<1>2. UNCHANGED <<todo, arg>>
  BY DEF Start, PendSV, TickStart, TickEnd, SliceEnd, IsrStep, IsrTaskResume, IsrTaskSuspend
<1>3. Steady(kernel, kernel')
  <2>1. CASE Start
    BY <1>1, <2>1, StartSteady DEF Start
  <2>2. CASE PendSV
    <3>1. PICK used \in 0 .. 1 : kernel' = OsSchedTaskSwitch(OsTimeSliceUpdate(kernel, used))
      BY <2>2 DEF PendSV
    <3> DEFINE u == OsTimeSliceUpdate(kernel, used)
    <3>2. Steady(kernel, u) /\ WellFormed(u)
      <4>1. used \in Nat
        OBVIOUS
      <4>2. Steady(kernel, u)
        BY <1>1, AskSteady
      <4> QED BY <1>1, <4>1, <4>2, TimeSliceUpdateKeeps, KeepsWellFormed
    <3> HIDE DEF u
    <3>3. kernel' = OsSchedTaskSwitch(u)
      BY <3>1 DEF u
    <3> QED BY <3>2, <3>3, SwitchSteady, SteadyTrans
  <2>3. CASE TickStart
    BY <1>1, <2>3, AskSteady DEF TickStart
  <2>4. CASE TickEnd
    <3>1. PICK used \in 0 .. 1 :
             kernel' = LOS_Schedule([OsTimeSliceUpdate(kernel, used) EXCEPT !.tick = FALSE])
      BY <2>4 DEF TickEnd
    <3>2. Steady(kernel, LOS_Schedule([OsTimeSliceUpdate(kernel, used) EXCEPT !.tick = FALSE]))
      BY <1>1, AskSteady
    <3> QED BY <3>1, <3>2
  <2>5. CASE SliceEnd
    BY <1>1, <2>5, AskSteady DEF SliceEnd
  <2>6. ASSUME NEW x \in Task, IsrTaskResume(x)
        PROVE  Steady(kernel, kernel')
    <3> DEFINE k == OsSchedResume(kernel, x)
    <3>1. Steady(kernel, k) /\ WellFormed(k)
      BY <1>1, ResumeSteady, ResumeKeeps, KeepsWellFormed
    <3>2. kernel' = k \/ kernel' = LOS_Schedule(k)
      BY <2>6 DEF IsrTaskResume
    <3> HIDE DEF k
    <3>3. Steady(k, LOS_Schedule(k))
      BY <3>1, AskSteady
    <3> QED BY <3>1, <3>2, <3>3, SteadyTrans
  <2>7. ASSUME NEW x \in Task, IsrTaskSuspend(x)
        PROVE  Steady(kernel, kernel')
    <3> DEFINE k == OsSchedSuspend(kernel, x)
    <3>1. Steady(kernel, k) /\ WellFormed(k)
      BY <1>1, SuspendSteady, SuspendKeeps, KeepsWellFormed
    <3>2. kernel' = k \/ kernel' = LOS_Schedule(k)
      BY <2>7 DEF IsrTaskSuspend
    <3> HIDE DEF k
    <3>3. Steady(k, LOS_Schedule(k))
      BY <3>1, AskSteady
    <3> QED BY <3>1, <3>2, <3>3, SteadyTrans
  <2> QED BY <2>1, <2>2, <2>3, <2>4, <2>5, <2>6, <2>7 DEF IsrStep
<1> QED BY <1>2, <1>3, QuietCalls, SteadyStep

\* A call of a task, on tasks, that moves nobody off a list.
LEMMA CallGoesOn ==
    ASSUME TaskInv, SafeInv, SafeInv', OutcomeInv, NEW t \in TCB, ~AtResult(t),
           NEW k, NEW s, NEW a, Call(t, k, s, a),
           s \notin {<<"schedule", "result">>, <<"result">>, <<"enqueue">>, <<"noStack">>},
           Steady(kernel, k)
    PROVE  OutcomeInv' /\ ResultsGoOn
<1>1. CallsGo /\ \A x \in Task : AtResult(x) => AtResult(x)'
  BY OtherCalls
<1>2. kernel' = k
  BY DEF Call
<1> QED BY <1>1, <1>2, SteadyStep

LEMMA AppGoesOn ==
    ASSUME TaskInv, SafeInv, SafeInv', OutcomeInv, NEW t \in TCB,
           \/ TaskYield(t) \/ TaskLock(t) \/ TaskUnlock(t)
           \/ \E d \in Delay : TaskDelay(t, d)
           \/ \E x \in Task : \/ TaskResume(t, x) \/ TaskSuspend(t, x) \/ TaskDetach(t, x)
                              \/ \E p \in CreatePrio : TaskPriSet(t, x, p)
    PROVE  OutcomeInv' /\ ResultsGoOn
<1>1. WellFormed(kernel) /\ Steady(kernel, kernel)
  BY SafeKernel, SteadySame
<1>2. todo[t] = <<>> /\ ~AtResult(t)
  BY NotAtResult DEF App, TaskYield, TaskLock, TaskUnlock, TaskDelay, TaskResume, TaskSuspend,
                     TaskDetach, TaskPriSet
<1>3. {<<>>, <<"schedule">>, <<"join">>}
         \cap {<<"schedule", "result">>, <<"result">>, <<"enqueue">>, <<"noStack">>} = {}
  OBVIOUS
<1>4. ASSUME NEW k, Steady(kernel, k), NEW s \in {<<>>, <<"schedule">>, <<"join">>}, NEW a, Call(t, k, s, a)
      PROVE  OutcomeInv' /\ ResultsGoOn
  <2>1. s \notin {<<"schedule", "result">>, <<"result">>, <<"enqueue">>, <<"noStack">>}
    BY <1>3
  <2> QED BY <1>2, <1>4, <2>1, CallGoesOn
<1>5. CASE TaskYield(t)
  BY <1>1, <1>4, <1>5, AskSteady DEF TaskYield
<1>6. CASE TaskLock(t)
  <2>1. UNCHANGED <<todo, arg>> /\ Steady(kernel, kernel')
    BY <1>1, <1>6, AskSteady DEF TaskLock
  <2> QED BY <2>1, QuietCalls, SteadyStep
<1>7. CASE TaskUnlock(t)
  <2> DEFINE k == [kernel EXCEPT !.lock = @ - 1]
             s == IF kernel.lock = 1 THEN <<"schedule">> ELSE <<>>
  <2>1. Steady(kernel, k) /\ s \in {<<>>, <<"schedule">>, <<"join">>} /\ Call(t, k, s, NoArg)
    BY <1>1, <1>7, AskSteady DEF TaskUnlock
  <2> HIDE DEF k, s
  <2> QED BY <1>4, <2>1
<1>8. ASSUME NEW d \in Delay, TaskDelay(t, d)
      PROVE  OutcomeInv' /\ ResultsGoOn
  <2> DEFINE k == IF d = 0 THEN OsSchedYield(kernel) ELSE OsSchedDelay(kernel, d)
  <2>1. Steady(kernel, k) /\ Call(t, k, <<"schedule">>, NoArg)
    BY <1>1, <1>8, AskSteady, DelaySteady DEF TaskDelay
  <2> HIDE DEF k
  <2> QED BY <1>4, <2>1
<1>9. ASSUME NEW x \in Task, TaskResume(t, x)
      PROVE  OutcomeInv' /\ ResultsGoOn
  <2> DEFINE k == OsSchedResume(kernel, x)
             s == IF ResumeNeedSched(kernel, x) THEN <<"schedule">> ELSE <<>>
  <2>1. Steady(kernel, k) /\ s \in {<<>>, <<"schedule">>, <<"join">>} /\ Call(t, k, s, NoArg)
    BY <1>1, <1>9, ResumeSteady DEF TaskResume
  <2> HIDE DEF k, s
  <2> QED BY <1>4, <2>1
<1>10. ASSUME NEW x \in Task, TaskSuspend(t, x)
       PROVE  OutcomeInv' /\ ResultsGoOn
  <2> DEFINE k == OsSchedSuspend(kernel, x)
             s == IF x = t THEN <<"schedule">> ELSE <<>>
  <2>1. Steady(kernel, k) /\ s \in {<<>>, <<"schedule">>, <<"join">>} /\ Call(t, k, s, NoArg)
    BY <1>1, <1>10, SuspendSteady DEF TaskSuspend
  <2> HIDE DEF k, s
  <2> QED BY <1>4, <2>1
<1>11. ASSUME NEW x \in Task, NEW p \in CreatePrio, TaskPriSet(t, x, p)
       PROVE  OutcomeInv' /\ ResultsGoOn
  <2> DEFINE k == OsSchedModifyTaskSchedParam(kernel, x, p)
             s == IF ModifyNeedSched(kernel, x) THEN <<"schedule">> ELSE <<>>
  <2>1. p \in Prio
    BY TaskAssumption, SchedAssumption DEF Prio
  <2>2. Steady(kernel, k) /\ s \in {<<>>, <<"schedule">>, <<"join">>} /\ Call(t, k, s, NoArg)
    BY <1>1, <1>11, <2>1, ModifySteady DEF TaskPriSet
  <2> HIDE DEF k, s
  <2> QED BY <1>4, <2>2
<1>12. ASSUME NEW x \in Task, TaskDetach(t, x)
       PROVE  OutcomeInv' /\ ResultsGoOn
  <2> DEFINE k == [kernel EXCEPT !.status[x] = @ \ {"JOINABLE"}]
  <2>1. Call(t, kernel, <<"join">>, x) \/ Call(t, k, <<>>, x)
    BY <1>12 DEF TaskDetach
  <2>2. Steady(kernel, k)
    <3>1. {"JOINABLE"} \cap Outcome = {}
      BY DEF Outcome
    <3> QED BY <1>1, <3>1, SteadyFlags
  <2> HIDE DEF k
  <2> QED BY <1>1, <1>4, <2>1, <2>2
<1> QED BY <1>5, <1>6, <1>7, <1>8, <1>9, <1>10, <1>11, <1>12

\* The creation of a task, up to its TCB, and its end; and LOS_Schedule at the end
\* of a call, or before the outcome of one.
LEMMA CreationGoesOn ==
    ASSUME TaskInv, SafeInv, SafeInv', OutcomeInv, NEW t \in TCB,
           TaskCreate(t) \/ NothingToRecycle(t) \/ NoTcb(t) \/ EnqueueNewTask(t) \/ Schedule(t)
    PROVE  OutcomeInv' /\ ResultsGoOn
<1>1. WellFormed(kernel) /\ Steady(kernel, kernel)
  BY SafeKernel, SteadySame
<1>2. todo[t] # <<>> => todo[t] \in Rest
  BY DEF SafeInv
<1>3. CASE TaskCreate(t)
  <2>1. todo[t] = <<>> /\ ~AtResult(t) /\ Call(t, kernel, <<"recycle", "take">>, NoArg)
    BY <1>3, NotAtResult DEF TaskCreate, App
  <2>2. <<"recycle", "take">> \notin
           {<<"schedule", "result">>, <<"result">>, <<"enqueue">>, <<"noStack">>}
    OBVIOUS
  <2> QED BY <1>1, <2>1, <2>2, CallGoesOn
<1>4. CASE NothingToRecycle(t) \/ NoTcb(t)
  <2>1. Doing(t, "recycle") \/ Doing(t, "take")
    BY <1>4 DEF NothingToRecycle, NoTcb
  <2>2. ~AtResult(t) /\ Tail(todo[t]) \in {<<"take">>, <<>>}
    <3>1. todo[t] # <<>> /\ Head(todo[t]) \in {"recycle", "take"}
      BY <2>1 DEF Doing
    <3>2. Tail(todo[t]) \in {<<"take">>, <<>>}
      BY <1>2, <3>1, RestSteps
    <3> QED BY <3>1, <3>2, NotAtResult
  <2>3. Call(t, kernel, Tail(todo[t]), arg[t])
    BY <1>4 DEF NothingToRecycle, NoTcb, Continue
  <2>4. {<<"take">>, <<>>} \cap {<<"schedule", "result">>, <<"result">>, <<"enqueue">>, <<"noStack">>} = {}
    OBVIOUS
  <2>5. Tail(todo[t]) \notin {<<"schedule", "result">>, <<"result">>, <<"enqueue">>, <<"noStack">>}
    BY <2>2, <2>4
  <2> QED BY <1>1, <2>2, <2>3, <2>5, CallGoesOn
<1>5. CASE EnqueueNewTask(t)
  <2>1. /\ Doing(t, "enqueue") /\ kernel' = OsSchedTaskEnQueue(kernel, arg[t])
        /\ todo' = [todo EXCEPT ![t] = IF kernel.started THEN <<"schedule">> ELSE <<>>]
        /\ arg' = [arg EXCEPT ![t] = NoArg]
    BY <1>5 DEF EnqueueNewTask
  <2>2. arg[t] \in Task
    <3>1. todo[t] = <<"enqueue">>
      BY <1>2, <2>1, RestSteps DEF Doing
    <3>2. ObjectIsTask(todo[t])
      BY <3>1 DEF ObjectIsTask
    <3> QED BY <3>2 DEF TaskInv, TaskTypeOK
  <2>3. Steady(kernel, kernel')
    BY <1>1, <2>1, <2>2, EnQueueSteady
  <2>4. ~AtResult(t)
    BY <2>1, NotAtResult DEF Doing
  <2>5. /\ todo'[t] \in {<<>>, <<"schedule">>}
        /\ \A u \in TCB : u # t => todo'[u] = todo[u] /\ arg'[u] = arg[u]
    BY <2>1 DEF TaskInv, TaskTypeOK
  <2>6. /\ {<<>>, <<"schedule">>} \cap {<<"schedule", "result">>, <<"result">>} = {}
        /\ {<<>>, <<"schedule">>} \cap {<<"enqueue">>, <<"noStack">>} = {}
    OBVIOUS
  <2>7. ~AtResult(t)' /\ \A x \in Task : ~Creating(t, x)'
    BY <2>5, <2>6 DEF AtResult, Creating
  <2>8. CallsGo /\ \A x \in Task : AtResult(x) => AtResult(x)'
    BY <2>4, <2>5, <2>7 DEF CallsGo, AtResult, Creating, TCB
  <2> QED BY <2>3, <2>8, SteadyStep
<1>6. CASE Schedule(t)
  <2>1. /\ Doing(t, "schedule") /\ Call(t, LOS_Schedule(kernel), Tail(todo[t]), arg[t])
    BY <1>6 DEF Schedule, Continue
  <2>2. \/ todo[t] = <<"schedule">> /\ Tail(todo[t]) = <<>>
        \/ todo[t] = <<"schedule", "joinReclaim">> /\ Tail(todo[t]) = <<"joinReclaim">>
        \/ todo[t] = <<"schedule", "result">> /\ Tail(todo[t]) = <<"result">>
    BY <1>2, <2>1, RestSteps DEF Doing
  <2>3. Steady(kernel, kernel')
    BY <1>1, <2>1, AskSteady DEF Call
  <2>4. /\ todo'[t] = Tail(todo[t]) /\ \A u \in TCB : u # t => todo'[u] = todo[u] /\ arg'[u] = arg[u]
        /\ arg'[t] = IF Tail(todo[t]) = <<>> THEN NoArg ELSE arg[t]
    <3> DEFINE s == Tail(todo[t])
    <3>1. Call(t, LOS_Schedule(kernel), s, arg[t])
      BY <2>1
    <3> HIDE DEF s
    <3>2. /\ todo'[t] = s /\ arg'[t] = IF s = <<>> THEN NoArg ELSE arg[t]
          /\ \A u \in TCB : u # t => todo'[u] = todo[u] /\ arg'[u] = arg[u]
      BY <3>1 DEF Call, TaskInv, TaskTypeOK
    <3> QED BY <3>2 DEF s
  <2>5. \A x \in Task : ~Creating(t, x)'
    <3>1. todo'[t] \in {<<>>, <<"joinReclaim">>, <<"result">>}
      BY <2>2, <2>4
    <3>2. {<<>>, <<"joinReclaim">>, <<"result">>} \cap {<<"enqueue">>, <<"noStack">>} = {}
      OBVIOUS
    <3> QED BY <3>1, <3>2 DEF Creating
  <2>6. (AtResult(t)' <=> AtResult(t)) /\ (AtResult(t) => arg'[t] = arg[t])
    <3>1. /\ <<"schedule">> \notin {<<"schedule", "result">>, <<"result">>}
          /\ <<"schedule", "joinReclaim">> \notin {<<"schedule", "result">>, <<"result">>}
          /\ <<>> \notin {<<"schedule", "result">>, <<"result">>}
          /\ <<"joinReclaim">> \notin {<<"schedule", "result">>, <<"result">>}
      OBVIOUS
    <3>2. CASE todo[t] = <<"schedule">> /\ Tail(todo[t]) = <<>>
      <4>1. ~AtResult(t)
        BY <3>1, <3>2 DEF AtResult
      <4>2. todo'[t] = <<>>
        BY <2>4, <3>2
      <4> QED BY <3>1, <4>1, <4>2 DEF AtResult
    <3>3. CASE todo[t] = <<"schedule", "joinReclaim">> /\ Tail(todo[t]) = <<"joinReclaim">>
      <4>1. ~AtResult(t)
        BY <3>1, <3>3 DEF AtResult
      <4>2. todo'[t] = <<"joinReclaim">>
        BY <2>4, <3>3
      <4> QED BY <3>1, <4>1, <4>2 DEF AtResult
    <3>4. CASE todo[t] = <<"schedule", "result">> /\ Tail(todo[t]) = <<"result">>
      <4>1. todo'[t] = <<"result">>
        BY <2>4, <3>4
      <4>2. <<"result">> # <<>>
        OBVIOUS
      <4>3. arg'[t] = arg[t]
        BY <2>4, <3>4, <4>2
      <4> QED BY <3>4, <4>1, <4>3 DEF AtResult
    <3> QED BY <2>2, <3>2, <3>3, <3>4
  <2>7. CallsGo /\ \A x \in Task : AtResult(x) => AtResult(x)'
    BY <2>4, <2>5, <2>6 DEF CallsGo, AtResult, Creating, TCB
  <2> QED BY <2>3, <2>7, SteadyStep
<1> QED BY <1>3, <1>4, <1>5, <1>6

\* One task is in no call on an object any more, and the waits of the others go on.
LEMMA OneOver ==
    ASSUME TaskInv, SafeInv, SafeInv', OutcomeInv, CallsGo, SameObjPend,
           NEW x \in Task, ~AtResult(x), Over(x),
           \A z \in Task : z # x => /\ kernel'.status[z] = kernel.status[z]
                                    /\ AtResult(z) => AtResult(z)'
    PROVE  OutcomeInv' /\ ResultsGoOn
<1>1. \A z \in Task : z # x => Alike(z) /\ (AtResult(z) => AtResult(z)')
  BY DEF Alike
<1>2. OneLeaves
  BY NobodyLeaves
<1> QED BY <1>1, <1>2, OutcomeStep

\* The TCB of a task that is in no such call is freed.
LEMMA FreedGoesOn ==
    ASSUME TaskInv, SafeInv, SafeInv', OutcomeInv, CallsGo, SameObjPend,
           \A z \in Task : AtResult(z) => AtResult(z)', NEW x \in Task, ~AtResult(x), Freed(x)
    PROVE  OutcomeInv' /\ ResultsGoOn
<1>1. Over(x)
  BY DEF Over, Freed, CallsGo, TCB
<1> QED BY <1>1, OneOver DEF Freed

\* The tick wakes the first task of the sort link; a wait on an object has run out.
LEMMA TickScanGoesOn ==
    ASSUME TaskInv, SafeInv, SafeInv', OutcomeInv, TickScan
    PROVE  OutcomeInv' /\ ResultsGoOn
<1>1. WellFormed(kernel) /\ Tidy(kernel) /\ \A x \in Task : Placed(kernel, x)
  BY SafeKernel DEF Sound
<1>2. PICK t \in Task : t = Head(kernel.sortLink) /\ Contains(kernel.sortLink, t)
  <2>1. kernel.sortLink \in Seq(Task) /\ kernel.sortLink # <<>>
    BY <1>1 DEF WellFormed, SchedState, TickScan, Expired
  <2> QED BY <2>1, EmptyList
<1>3. kernel' = OsSchedWakePendTimeTask(OsDeleteNodeSortLink(kernel, t), t)
  BY <1>2 DEF TickScan
<1>4. /\ Only(kernel, kernel', t) /\ Placed(kernel', t) /\ Waits(kernel', t) = {}
      /\ SameLife(kernel, kernel', t)
      /\ Waits(kernel, t) # {} => "PEND_TIME" \in kernel.status[t]
      /\ "TIMEOUT" \in kernel'.status[t] <=> "TIMEOUT" \in kernel.status[t] \/ "PEND" \in kernel.status[t]
  BY <1>1, <1>2, <1>3, WakePendTimeRow
<1>5. CallsGo /\ \A x \in Task : AtResult(x) => AtResult(x)'
  BY QuietCalls DEF TickScan
<1>6. "PEND" \notin kernel'.status[t] /\ Placed(kernel, t)
  BY <1>1, <1>2, <1>4 DEF Placed
<1>9. \A o \in WaitObj : kernel'.pend[o] = IF "PEND" \in kernel.status[t] THEN Unlink(kernel.pend[o], t)
                                             ELSE kernel.pend[o]
  <2> DEFINE k == OsDeleteNodeSortLink(kernel, t)
  <2>1. "pend" \in DOMAIN kernel /\ WaitObj \subseteq WaitList
    BY <1>1 DEF WellFormed, SchedState, WaitList
  <2>2. "pend" \in DOMAIN k /\ k.pend = kernel.pend /\ k.status = kernel.status
    BY <1>1 DEF OsDeleteNodeSortLink, WellFormed, SchedState
  <2> HIDE DEF k
  <2>3. kernel' = OsSchedWakePendTimeTask(k, t)
    BY <1>3 DEF k
  <2>4. IF Has(k, t, {"PEND"}) THEN LeftBy(k, kernel', t) ELSE SamePend(k, kernel')
    BY <2>3, TimeoutPend
  <2>5. Has(k, t, {"PEND"}) <=> "PEND" \in kernel.status[t]
    BY <2>2 DEF Has
  <2> QED BY <2>1, <2>2, <2>4, <2>5 DEF LeftBy, SamePend
<1>7. CASE "PEND" \notin kernel.status[t]
  <2>1. Alike(t)
    BY <1>4, <1>6, <1>7 DEF Alike, Outcome, SameLife
  <2>2. \A x \in Task : x # t => Alike(x)
    BY <1>4 DEF Only, SameRow, SameFlags, Alike
  <2>3. OneLeaves
    BY <1>5, <1>7, <1>9, NobodyLeaves DEF SameObjPend
  <2> QED BY <1>5, <2>1, <2>2, <2>3, OutcomeStep
<1>8. CASE "PEND" \in kernel.status[t]
  <2>1. PICK o \in WaitList : o \in Waits(kernel, t)
    BY <1>6, <1>8 DEF Placed, Waits
  <2>2. o \in WaitObj
    BY <1>2, <1>4, <2>1 DEF SafeInv, JoinInv, WaitList
  <2>3. AtResult(t)
    BY <1>2, <2>1, <2>2 DEF SafeInv, ResultInv, Results, AtResult
  <2>4. kernel'.status[t] \cap {"EXIT", "UNUSED"} = {}
    <3>1. kernel.status[t] \cap {"EXIT", "UNUSED"} = {}
      BY <1>6, <1>8 DEF Placed
    <3> QED BY <1>4, <3>1 DEF SameLife
  <2>5. RunsOut(t)
    <3>1. kernel'.status[t] \cap {"PEND", "EXIT", "UNUSED"} = {}
      BY <1>6, <2>4
    <3>2. AtResult(t)' /\ "TIMEOUT" \in kernel'.status[t]
      BY <1>2, <1>4, <1>5, <1>8, <2>3
    <3> QED BY <1>8, <2>3, <3>1, <3>2 DEF RunsOut
  <2>6. \A x \in Task : x # t => Alike(x)
    BY <1>4 DEF Only, SameRow, SameFlags, Alike
  <2>7. OneLeaves
    <3>1. \A z \in TCB : AtResult(z) => AtResult(z)'
      BY <1>5 DEF OutcomeInv
    <3> QED BY <1>8, <1>9, <3>1 DEF OneLeaves, TCB
  <2> QED BY <1>5, <2>5, <2>6, <2>7, OutcomeStep
<1> QED BY <1>7, <1>8

\* The TCBs that go back to the free list.
LEMMA FreeingGoesOn ==
    ASSUME TaskInv, SafeInv, OutcomeInv, NEW t \in TCB,
           OsRecycleFinishedTask(t) \/ NoStack(t) \/ JoinReclaim(t)
    PROVE  OutcomeInv' /\ ResultsGoOn
<1>1. CASE OsRecycleFinishedTask(t)
  <2>1. SafeInv' /\ \E x \in Task : "UNUSED" \in kernel.status[x] /\ Freed(x)
    BY <1>1, RecycleSafe
  <2>2. CallsGo /\ \A x \in Task : AtResult(x) => AtResult(x)'
    BY <1>1, QuietCalls DEF OsRecycleFinishedTask
  <2>3. PICK x \in Task : "UNUSED" \in kernel.status[x] /\ Freed(x)
    BY <2>1
  <2>4. ~AtResult(x)
    BY <2>3 DEF OutcomeInv
  <2>5. SameObjPend
    <3> DEFINE k == [kernel EXCEPT !.recycle = Tail(@)]
               y == Head(kernel.recycle)
    <3>1. y \in Task /\ WellFormed(k) /\ k.pend = kernel.pend
      <4>1. WellFormed(kernel) /\ Sound(kernel) /\ kernel.recycle # <<>>
        BY <1>1, SafeKernel DEF OsRecycleFinishedTask
      <4> QED BY <4>1, RecycleTailRow DEF Only, Sound
    <3>2. kernel' = OsRecycleTaskResources(k, y)
      BY <1>1 DEF OsRecycleFinishedTask
    <3> HIDE DEF k, y
    <3> QED BY <3>1, <3>2, RecyclePend DEF SameObjPend
  <2> QED BY <2>1, <2>2, <2>3, <2>4, <2>5, FreedGoesOn
<1>2. CASE NoStack(t) \/ JoinReclaim(t)
  <2>1. SafeInv' /\ \E x \in Task : (Creating(t, x) \/ "EXIT" \in kernel.status[x]) /\ Freed(x)
    BY <1>2, NoStackSafe, JoinReclaimSafe
  <2>2. PICK x \in Task : (Creating(t, x) \/ "EXIT" \in kernel.status[x]) /\ Freed(x)
    BY <2>1
  <2>3. ~AtResult(x)
    BY <2>2 DEF OutcomeInv
  <2>4. Doing(t, "noStack") \/ Doing(t, "joinReclaim")
    BY <1>2 DEF NoStack, JoinReclaim
  <2>5. todo[t] # <<>> /\ Head(todo[t]) \in {"noStack", "joinReclaim"}
    BY <2>4 DEF Doing
  <2>6. ~AtResult(t) /\ Tail(todo[t]) = <<>>
    <3>1. Tail(todo[t]) = <<>>
      BY <2>5, RestSteps DEF SafeInv
    <3> QED BY <2>5, <3>1, NotAtResult
  <2>7. PICK k : Call(t, k, <<>>, arg[t])
    BY <1>2, <2>6 DEF NoStack, JoinReclaim, Continue
  <2>8. <<>> \notin {<<"schedule", "result">>, <<"result">>, <<"enqueue">>, <<"noStack">>}
    OBVIOUS
  <2>9. CallsGo /\ \A z \in Task : AtResult(z) => AtResult(z)'
    BY <2>6, <2>7, <2>8, OtherCalls
  <2>10. SameObjPend
    <3> DEFINE x1 == arg[t]
               k1 == [kernel EXCEPT !.status[x1] = @ \ {"JOINABLE"}]
    <3>1. x1 \in Task
      <4>1. todo[t] \in {<<"noStack">>, <<"joinReclaim">>}
        BY <2>4, RestSteps DEF SafeInv, Doing
      <4>2. ObjectIsTask(todo[t])
        BY <4>1 DEF ObjectIsTask
      <4> QED BY <4>2 DEF TaskInv, TaskTypeOK
    <3>2. WellFormed(kernel) /\ WellFormed(k1) /\ k1.pend = kernel.pend
      <4>1. WellFormed(kernel)
        BY SafeKernel
      <4>2. WellFormed(k1)
        BY <3>1, <4>1, DropFlagsKeeps, KeepsWellFormed
      <4> QED BY <4>1, <4>2 DEF WellFormed, SchedState
    <3>3. kernel' \in {OsInsertTCBToFreeList(kernel, x1), OsRecycleTaskResources(k1, x1)}
      BY <1>2 DEF NoStack, JoinReclaim, Continue, Call
    <3> HIDE DEF k1, x1
    <3> QED BY <3>1, <3>2, <3>3, RecyclePend DEF SameObjPend
  <2> QED BY <2>1, <2>2, <2>3, <2>9, <2>10, FreedGoesOn
<1> QED BY <1>1, <1>2

\* A TCB is taken.
LEMMA TakeGoesOn ==
    ASSUME TaskInv, SafeInv, OutcomeInv, NEW t \in TCB, TakeTcb(t)
    PROVE  OutcomeInv' /\ ResultsGoOn
<1>1. SafeInv' /\ \E x \in Task : TcbTaken(t, x)
  BY TakeTcbSafe
<1>2. PICK x \in Task : TcbTaken(t, x)
  BY <1>1
<1>3. /\ "UNUSED" \in kernel.status[x] /\ x # t
      /\ kernel'.status[x] \subseteq {"SUSPEND", "JOINABLE", "STACK_FREE"}
      /\ \A z \in Task : z # x => kernel'.status[z] = kernel.status[z]
      /\ todo[t] = <<"take">> /\ todo'[t] \in {<<>>, <<"enqueue">>, <<"noStack">>}
      /\ todo'[x] = <<>> /\ (todo'[t] # <<>> => arg'[t] = x)
      /\ \A u \in TCB : u # t /\ u # x => todo'[u] = todo[u] /\ arg'[u] = arg[u]
  BY <1>2 DEF TcbTaken
<1>4. ~AtResult(x)
  BY <1>3 DEF OutcomeInv
<1>5. /\ <<"take">> \notin {<<"schedule", "result">>, <<"result">>}
      /\ {<<>>, <<"enqueue">>, <<"noStack">>} \cap {<<"schedule", "result">>, <<"result">>} = {}
      /\ <<>> \notin {<<"enqueue">>, <<"noStack">>}
  OBVIOUS
<1>6. ~AtResult(t) /\ ~AtResult(t)' /\ ~AtResult(x)'
  BY <1>3, <1>5 DEF AtResult
<1>7. \A u \in TCB, z \in Task : Creating(u, z)' => Creating(u, z) \/ ~AtResult(z)'
  BY <1>3, <1>5, <1>6 DEF Creating
<1>8. CallsGo /\ \A z \in Task : AtResult(z) => AtResult(z)'
  BY <1>3, <1>4, <1>6, <1>7 DEF CallsGo, AtResult, TCB
<1>9. Over(x)
  BY <1>3, <1>6 DEF Over
<1>10. SameObjPend
  <2>1. WellFormed(kernel)
    BY SafeKernel
  <2>2. kernel'.pend = kernel.pend
    BY <2>1 DEF TakeTcb, OsNewTaskInit, WellFormed, SchedState
  <2> QED BY <2>2 DEF SameObjPend
<1> QED BY <1>1, <1>3, <1>4, <1>8, <1>9, <1>10, OneOver

\* LOS_TaskJoin.
LEMMA JoinGoesOn ==
    ASSUME TaskInv, SafeInv, SafeInv', OutcomeInv, NEW t \in TCB, NEW x \in Task, TaskJoin(t, x)
    PROVE  OutcomeInv' /\ ResultsGoOn
<1>1. ~AtResult(t)
  <2>1. \/ todo[t] = <<>>
        \/ todo[t] # <<>> /\ Head(todo[t]) \notin {"schedule", "result"}
    BY DEF TaskJoin, App, Doing
  <2> QED BY <2>1, NotAtResult
<1>2. /\ <<>> \notin {<<"schedule", "result">>, <<"result">>, <<"enqueue">>, <<"noStack">>}
      /\ <<"schedule", "joinReclaim">> \notin
            {<<"schedule", "result">>, <<"result">>, <<"enqueue">>, <<"noStack">>}
  OBVIOUS
<1>3. \/ Call(t, kernel, <<>>, x) \/ Call(t, kernel, <<"schedule", "joinReclaim">>, x)
      \/ Call(t, OsSchedTaskWait(kernel, x, NoTime), <<"schedule", "joinReclaim">>, x)
  BY DEF TaskJoin, JoinPend
<1>4. CASE Call(t, kernel, <<>>, x) \/ Call(t, kernel, <<"schedule", "joinReclaim">>, x)
  <2>1. Steady(kernel, kernel)
    BY SteadySame
  <2> QED BY <1>1, <1>2, <1>4, <2>1, CallGoesOn
<1>5. CASE Call(t, OsSchedTaskWait(kernel, x, NoTime), <<"schedule", "joinReclaim">>, x)
  <2>1. CallsGo /\ \A z \in Task : AtResult(z) => AtResult(z)'
    BY <1>1, <1>2, <1>5, OtherCalls
  <2>2. t \in Task /\ t = kernel.run /\ WellFormed(kernel) /\ Tidy(kernel) /\ Waits(kernel, t) = {}
    <3>1. t \in Task /\ Thread(t)
      BY DEF TaskJoin, App, Doing
    <3>2. t = kernel.run /\ kernel.status[t] \cap Blocking = {}
      <4>1. todo[t] = <<>> \/ Head(todo[t]) # "schedule"
        BY DEF TaskJoin, App, Doing
      <4> QED BY <3>1, <4>1, ThreadFree
    <3> QED BY <3>1, <3>2, SafeKernel DEF Placed, Blocking
  <2>3. Only(kernel, kernel', t) /\ kernel'.status[t] = kernel.status[t] \cup {"PEND"}
    <3> DEFINE m == OsSchedTaskWait(kernel, x, NoTime)
    <3>1. Only(kernel, m, t) /\ m.status[t] = kernel.status[t] \cup {"PEND"}
      BY <2>2, WaitTimedRow DEF WaitList
    <3> QED BY <1>5, <3>1 DEF Call
  <2>4. ~AtResult(t)'
    BY <1>1, <2>1 DEF CallsGo
  <2>5. Over(t)
    BY <1>1, <2>2, <2>3, <2>4 DEF Over, OutcomeInv
  <2>6. \A z \in Task : z # t => kernel'.status[z] = kernel.status[z]
    BY <2>3 DEF Only, SameRow, SameFlags
  <2>7. SameObjPend
    <3>1. WellFormed(kernel) /\ \A o \in WaitObj : o # x
      BY SafeKernel, SchedAssumption
    <3>2. kernel' = OsSchedTaskWait(kernel, x, NoTime)
      BY <1>5 DEF Call
    <3>3. kernel'.pend = [kernel.pend EXCEPT ![x] = Append(@, kernel.run)]
      BY <3>1, <3>2 DEF OsSchedTaskWait, WellFormed, SchedState
    <3> QED BY <3>1, <3>3 DEF SameObjPend, WellFormed, SchedState, WaitList
  <2> QED BY <1>1, <2>1, <2>2, <2>5, <2>6, <2>7, OneOver
<1> QED BY <1>3, <1>4, <1>5

\* The end of a task.
LEMMA EndGoesOn ==
    ASSUME TaskInv, SafeInv, SafeInv', OutcomeInv, NEW x \in Task, HasEnded(x), CallsGo, ~AtResult(x)',
           \A z \in Task : z # x /\ AtResult(z) => AtResult(z)',
           \A o \in WaitObj : kernel'.pend[o] = Unlink(kernel.pend[o], x)
    PROVE  OutcomeInv' /\ ResultsGoOn
<1>1. Over(x)
  BY DEF Over, HasEnded
<1>2. ASSUME NEW z \in Task, z # x
      PROVE  (Alike(z) /\ (AtResult(z) => AtResult(z)')) \/ Over(z)
  <2>1. CASE kernel'.status[z] = kernel.status[z]
    BY <1>2, <2>1 DEF Alike
  <2>2. CASE /\ SameLife(kernel, kernel', z) /\ x \in Waits(kernel, z)
             /\ "TIMEOUT" \in kernel'.status[z] <=> "TIMEOUT" \in kernel.status[z]
    <3>1. Reclaims(z, x) /\ "PEND" \in kernel.status[z]
      BY <2>2, SafeKernel DEF SafeInv, JoinInv, Placed
    <3>2. ~AtResult(z)
      BY <3>1 DEF Reclaims, AtResult
    <3>3. ~AtResult(z)'
      BY <3>2 DEF CallsGo, TCB
    <3>4. "TIMEOUT" \notin kernel.status[z]
      BY <3>1 DEF OutcomeInv
    <3> QED BY <2>2, <3>3, <3>4 DEF Over
  <2> QED BY <1>2, <2>1, <2>2 DEF HasEnded, JoinerWoken
<1>3. OneLeaves
  <2>1. \A z \in TCB : z # x /\ AtResult(z) => AtResult(z)'
    BY DEF OutcomeInv
  <2>2. kernel'.status[x] \cap {"EXIT", "UNUSED"} # {}
    BY DEF HasEnded
  <2> QED BY <2>1, <2>2 DEF OneLeaves, TCB
<1> QED BY <1>1, <1>2, <1>3, OutcomeStep

\* What is left when the resources of an exited task are released: nobody else
\* leaves a list.
LEMMA EndPend ==
    ASSUME TaskInv, SafeInv, NEW x \in Task, NEW t \in Task, App(t, "delete"), MayDelete(x),
           kernel' \in {Exited(x), OsRunningTaskDelete(Exited(x), x),
                       OsRecycleTaskResources(Exited(x), x)}
    PROVE  \A o \in WaitObj : kernel'.pend[o] = Unlink(kernel.pend[o], x)
<1>1. kernel.run \in Task /\ kernel.status[kernel.run] \cap Blocking = {}
  BY AppFree DEF App, Thread
<1>2. WellFormed(Exited(x))
  BY <1>1, ExitedRow DEF MayDelete, Created
<1>3. \A o \in WaitObj : Exited(x).pend[o] = Unlink(kernel.pend[o], x)
  BY <1>1, ExitedPend
<1> DEFINE e == Exited(x)
<1> HIDE DEF e
<1>4. OsRunningTaskDelete(e, x).pend = e.pend
  BY <1>2 DEF OsRunningTaskDelete, WellFormed, SchedState, e
<1>5. \A o \in WaitObj : OsRecycleTaskResources(e, x).pend[o] = e.pend[o]
  BY <1>2, RecyclePend DEF e
<1> QED BY <1>3, <1>4, <1>5 DEF e

LEMMA DeleteGoesOn ==
    ASSUME Unprotected = {}, TaskInv, SafeInv, OutcomeInv, NEW t \in TCB,
           DeleteSelf(t) \/ \E x \in Task : DeleteOther(t, x)
    PROVE  OutcomeInv' /\ ResultsGoOn
<1>1. CASE DeleteSelf(t)
  <2>1. SafeInv' /\ HasEnded(t) /\ t \in Task /\ todo[t] = <<>>
    BY <1>1, DeleteSelfSafe DEF DeleteSelf, App
  <2>2. ~AtResult(t) /\ ~AtResult(Boot) /\ Boot \in TCB
    BY <2>1, NotAtResult, SchedAssumption DEF OutcomeInv, TCB
  <2>3. \E k : Call(t, k, <<"schedule">>, NoArg) \/ Call(Boot, k, <<"schedule">>, NoArg)
    BY <1>1 DEF DeleteSelf
  <2>4. <<"schedule">> \notin {<<"schedule", "result">>, <<"result">>, <<"enqueue">>, <<"noStack">>}
    OBVIOUS
  <2>5. CallsGo /\ \A z \in Task : AtResult(z) => AtResult(z)'
    BY <2>2, <2>3, <2>4, OtherCalls
  <2>6. ~AtResult(t)'
    BY <2>2, <2>5 DEF CallsGo
  <2>7. \A o \in WaitObj : kernel'.pend[o] = Unlink(kernel.pend[o], t)
    <3>1. App(t, "delete") /\ MayDelete(t)
      BY <1>1 DEF DeleteSelf
    <3>2. kernel' \in {Exited(t), OsRunningTaskDelete(Exited(t), t)}
      BY <1>1 DEF DeleteSelf, Call
    <3> QED BY <2>1, <3>1, <3>2, EndPend
  <2> QED BY <2>1, <2>5, <2>6, <2>7, EndGoesOn
<1>2. ASSUME NEW x \in Task, DeleteOther(t, x)
      PROVE  OutcomeInv' /\ ResultsGoOn
  <2>1. SafeInv' /\ HasEnded(x)
    BY <1>2, DeleteOtherSafe
  <2>2. /\ todo'[x] = <<>> /\ \A u \in TCB : u # x => todo'[u] = todo[u] /\ arg'[u] = arg[u]
    BY <1>2 DEF DeleteOther, TaskInv, TaskTypeOK, TCB
  <2>3. ~AtResult(x)'
    <3>1. <<>> \notin {<<"schedule", "result">>, <<"result">>}
      OBVIOUS
    <3> QED BY <2>2, <3>1 DEF AtResult
  <2>4. \A u \in TCB, z \in Task : Creating(u, z)' => Creating(u, z)
    <3>1. <<>> \notin {<<"enqueue">>, <<"noStack">>}
      OBVIOUS
    <3> QED BY <2>2, <3>1 DEF Creating
  <2>5. \A u \in TCB : u # x => (AtResult(u)' <=> AtResult(u)) /\ arg'[u] = arg[u]
    BY <2>2 DEF AtResult
  <2>6. CallsGo
    BY <2>2, <2>3, <2>4, <2>5 DEF CallsGo
  <2>7. \A o \in WaitObj : kernel'.pend[o] = Unlink(kernel.pend[o], x)
    <3>1. t \in Task /\ App(t, "delete") /\ MayDelete(x)
      BY <1>2 DEF DeleteOther, App
    <3>2. kernel' = OsRecycleTaskResources(Exited(x), x)
      BY <1>2 DEF DeleteOther
    <3> QED BY <3>1, <3>2, EndPend
  <2> QED BY <2>1, <2>3, <2>5, <2>6, <2>7, EndGoesOn DEF TCB
<1> QED BY <1>1, <1>2

\* Every step of the tasks and of the kernel goes on with the waits on objects.
LEMMA WaitsGoOn ==
    ASSUME Unprotected = {}, TaskInv, ControlInv, SafeInv, OutcomeInv, [TaskNext]_taskVars
    PROVE  SafeInv' /\ OutcomeInv' /\ ResultsGoOn
<1>1. SafeInv'
  BY NextSafe
<1>2. CASE UNCHANGED taskVars
  <2>1. kernel' = kernel /\ UNCHANGED <<todo, arg>>
    BY <1>2 DEF taskVars
  <2>2. Steady(kernel, kernel')
    BY <2>1, SteadySame
  <2> QED BY <1>1, <2>1, <2>2, QuietCalls, SteadyStep
<1>3. CASE Start \/ PendSV \/ TimerStep \/ IsrStep
  BY <1>1, <1>3, KernelGoesOn, TickScanGoesOn DEF TimerStep
<1>4. ASSUME NEW t \in TCB, TaskStep(t)
      PROVE  OutcomeInv' /\ ResultsGoOn
  <2>1. CASE OsRecycleFinishedTask(t) \/ NoStack(t) \/ JoinReclaim(t)
    BY <2>1, FreeingGoesOn
  <2>2. CASE TaskCreate(t) \/ NothingToRecycle(t) \/ NoTcb(t) \/ EnqueueNewTask(t) \/ Schedule(t)
    BY <1>1, <2>2, CreationGoesOn
  <2>3. CASE TakeTcb(t)
    BY <2>3, TakeGoesOn
  <2>4. CASE DeleteSelf(t) \/ \E x \in Task : DeleteOther(t, x)
    BY <2>4, DeleteGoesOn
  <2>5. CASE \E x \in Task : TaskJoin(t, x)
    BY <1>1, <2>5, JoinGoesOn
  <2>6. CASE \/ TaskYield(t) \/ TaskLock(t) \/ TaskUnlock(t)
             \/ \E d \in Delay : TaskDelay(t, d)
             \/ \E x \in Task : \/ TaskResume(t, x) \/ TaskSuspend(t, x) \/ TaskDetach(t, x)
                                \/ \E p \in CreatePrio : TaskPriSet(t, x, p)
    BY <1>1, <2>6, AppGoesOn
  <2> QED BY <1>4, <2>1, <2>2, <2>3, <2>4, <2>5, <2>6 DEF TaskStep
<1> QED BY <1>1, <1>2, <1>3, <1>4 DEF TaskNext

\* Before the first call nobody is in one.
LEMMA InitOutcome == Init => OutcomeInv
<1>1. <<>> \notin {<<"schedule", "result">>, <<"result">>, <<"enqueue">>, <<"noStack">>}
  OBVIOUS
<1>2. ASSUME Init, NEW t \in TCB PROVE todo[t] = <<>> /\ "TIMEOUT" \notin kernel.status[t]
  BY <1>2 DEF Init
<1> QED BY <1>1, <1>2 DEF OutcomeInv, AtResult, Creating, TCB

-----------------------------------------------------------------------------
(* The calls on the IPC objects, and what becomes of the waits.            *)

\* A call of a task of T is over, or goes on to a wait; W is given what it waits for.
Grants(T, W) ==
    \A u \in TCB : /\ Granted(u)' <=> (Granted(u) /\ u \notin T) \/ u \in W
                   /\ u \notin T => todo'[u] = todo[u] /\ arg'[u] = arg[u]

ObjInv == ControlInv /\ SafeInv /\ OutcomeInv

LEMMA ObjOutcome ==
    ASSUME OutcomeInv, NEW T \in SUBSET TCB,
           \A u \in TCB : u \notin T => todo'[u] = todo[u] /\ arg'[u] = arg[u],
           \A u \in T : /\ AtResult(u)' => /\ u \in Task /\ "PEND" \in kernel'.status[u]
                                           /\ kernel'.status[u] \cap {"EXIT", "UNUSED"} = {}
                                           /\ \A v \in TCB : ~Creating(v, u)
                        /\ u \in Task => "TIMEOUT" \notin kernel'.status[u]
                        /\ \A x \in Task : ~Creating(u, x)',
           \A x \in Task : x \notin T => /\ \A f \in Outcome : f \in kernel'.status[x] <=> f \in kernel.status[x]
                                         /\ "PEND" \in kernel'.status[x] => "PEND" \in kernel.status[x],
           NEW W \in SUBSET Task,
           \A w \in W : /\ w \notin T /\ AtResult(w) /\ "PEND" \in kernel.status[w]
                        /\ "PEND" \notin kernel'.status[w],
           \A x \in Task : x \notin T \cup W /\ "PEND" \in kernel.status[x] => "PEND" \in kernel'.status[x]
    PROVE  OutcomeInv' /\ Grants(T, W)
<1>1. \A u \in TCB : u \notin T => (AtResult(u)' <=> AtResult(u))
  BY DEF AtResult
<1>2. \A u \in TCB, x \in Task : Creating(u, x)' => Creating(u, x)
  BY DEF Creating
<1>3. \A t \in TCB : AtResult(t)' => t \in Task
  BY <1>1 DEF OutcomeInv
<1>4. ASSUME NEW x \in Task
      PROVE  /\ AtResult(x)' => kernel'.status[x] \cap {"EXIT", "UNUSED"} = {}
             /\ "TIMEOUT" \in kernel'.status[x] =>
                   "PEND" \notin kernel'.status[x] /\ (AtResult(x)' \/ "EXIT" \in kernel'.status[x])
             /\ \A t \in TCB : Creating(t, x)' => ~AtResult(x)'
  <2>1. CASE x \in T
    BY <1>2, <1>4, <2>1
  <2>2. CASE x \notin T
    <3>1. /\ "EXIT" \in kernel'.status[x] <=> "EXIT" \in kernel.status[x]
          /\ "UNUSED" \in kernel'.status[x] <=> "UNUSED" \in kernel.status[x]
          /\ "TIMEOUT" \in kernel'.status[x] <=> "TIMEOUT" \in kernel.status[x]
          /\ "PEND" \in kernel'.status[x] => "PEND" \in kernel.status[x]
          /\ AtResult(x)' <=> AtResult(x)
      BY <1>1, <2>2 DEF Outcome, TCB
    <3> QED BY <1>2, <3>1 DEF OutcomeInv
  <2> QED BY <2>1, <2>2
<1>5. OutcomeInv'
  BY <1>3, <1>4 DEF OutcomeInv
<1>6. ASSUME NEW u \in TCB
      PROVE  Granted(u)' <=> (Granted(u) /\ u \notin T) \/ u \in W
  <2>1. CASE u \in T
    <3>1. ~Granted(u)'
      BY <2>1 DEF Granted
    <3> QED BY <2>1, <3>1
  <2>2. CASE u \notin T
    <3>1. AtResult(u)' <=> AtResult(u)
      BY <1>1, <2>2
    <3>2. CASE ~AtResult(u)
      BY <3>1, <3>2 DEF Granted
    <3>3. CASE AtResult(u)
      <4>1. u \in Task
        BY <3>3 DEF OutcomeInv
      <4>2. "TIMEOUT" \in kernel'.status[u] <=> "TIMEOUT" \in kernel.status[u]
        BY <2>2, <4>1 DEF Outcome
      <4>3. CASE u \in W
        <5>1. "PEND" \in kernel.status[u] /\ "PEND" \notin kernel'.status[u]
          BY <4>3
        <5>2. "TIMEOUT" \notin kernel.status[u]
          BY <4>1, <5>1 DEF OutcomeInv
        <5> QED BY <3>1, <3>3, <4>2, <4>3, <5>1, <5>2 DEF Granted
      <4>4. CASE u \notin W
        <5>1. "PEND" \in kernel'.status[u] <=> "PEND" \in kernel.status[u]
          BY <2>2, <4>1, <4>4
        <5> QED BY <2>2, <3>1, <3>3, <4>2, <4>4, <5>1 DEF Granted
      <4> QED BY <4>3, <4>4
    <3> QED BY <3>2, <3>3
  <2> QED BY <2>1, <2>2
<1> QED BY <1>5, <1>6 DEF Grants

\* The task that runs is in no wait; its last one, if any, is over.
LEMMA WorkFlags ==
    ASSUME TaskInv, SafeInv, OutcomeInv, NEW t \in TCB, Thread(t),
           \/ todo[t] = <<>>
           \/ todo[t] # <<>> /\ Head(todo[t]) \in {"result", "eventRead", "eventWrite"}
    PROVE  /\ t \in Task => /\ kernel.status[t] \cap Blocking = {} /\ \A v \in TCB : ~Creating(v, t)
                            /\ ~AtResult(t) => "TIMEOUT" \notin kernel.status[t]
           /\ todo[t] = <<>> \/ Head(todo[t]) # "result" => ~AtResult(t)
           /\ t = kernel.run
<1>1. /\ t = kernel.run
      /\ t \in Task => {"RUNNING", "STACK_FREE"} \subseteq kernel.status[t] /\ kernel.status[t] \cap Blocking = {}
  BY WorkFree
<1>2. ASSUME t \in Task, ~AtResult(t) PROVE "TIMEOUT" \notin kernel.status[t]
  BY <1>1, <1>2 DEF OutcomeInv, Blocking
<1>3. ASSUME t \in Task, NEW v \in TCB PROVE ~Creating(v, t)
  BY <1>1, <1>3 DEF SafeInv, CreateInv
<1>4. todo[t] = <<>> \/ Head(todo[t]) # "result" => ~AtResult(t)
  <2>1. SUFFICES ASSUME todo[t] = <<>> \/ Head(todo[t]) # "result" PROVE ~AtResult(t)
    OBVIOUS
  <2>2. \/ todo[t] = <<>>
        \/ todo[t] # <<>> /\ Head(todo[t]) \notin {"schedule", "result"}
    BY <2>1
  <2> QED BY <2>2, NotAtResult
<1> QED BY <1>1, <1>2, <1>3, <1>4

\* The call goes on to a plain rest.
LEMMA ObjCall ==
    ASSUME TaskInv, SafeInv, NEW t \in TCB, NEW k, NEW s \in Plain, NEW a, Call(t, k, s, a)
    PROVE  /\ kernel' = k /\ todo'[t] = s /\ ~AtResult(t)' /\ \A x \in Task : ~Creating(t, x)'
           /\ \A u \in TCB : u \notin {t} => todo'[u] = todo[u] /\ arg'[u] = arg[u]
<1>0. /\ todo' = [todo EXCEPT ![t] = s] /\ kernel' = k
      /\ arg' = [arg EXCEPT ![t] = IF s = <<>> THEN NoArg ELSE a]
  BY DEF Call
<1>1. /\ kernel' = k /\ todo'[t] = s
      /\ \A u \in TCB : u # t => todo'[u] = todo[u] /\ arg'[u] = arg[u]
  BY <1>0 DEF TaskInv, TaskTypeOK
<1>2. ~AtResult(t)' /\ \A x \in Task : ~Creating(t, x)'
  BY <1>1, PlainRest DEF AtResult, Creating
<1> QED BY <1>1, <1>2

\* A call that moves no task.
LEMMA WorkGoes ==
    ASSUME TaskInv, ObjInv, NEW t \in TCB, Thread(t),
           \/ todo[t] = <<>>
           \/ todo[t] # <<>> /\ Head(todo[t]) \in {"eventRead", "eventWrite"}
           \/ todo[t] # <<>> /\ Head(todo[t]) = "result" /\ "TIMEOUT" \notin kernel.status[t],
           NEW s \in Plain, NEW a, Call(t, kernel, s, a)
    PROVE  ObjInv' /\ Grants({t}, {}) /\ todo'[t] = s
<1>1. \/ todo[t] = <<>>
      \/ todo[t] # <<>> /\ Head(todo[t]) \in {"result", "eventRead", "eventWrite"}
  OBVIOUS
<1>2. SafeInv'
  BY <1>1, WorkSafe DEF ObjInv
<1>3. /\ kernel' = kernel /\ todo'[t] = s /\ ~AtResult(t)' /\ \A x \in Task : ~Creating(t, x)'
      /\ \A u \in TCB : u \notin {t} => todo'[u] = todo[u] /\ arg'[u] = arg[u]
  BY ObjCall DEF ObjInv
<1>4. t \in Task => "TIMEOUT" \notin kernel.status[t]
  BY <1>1, WorkFlags DEF ObjInv
<1>5. OutcomeInv' /\ Grants({t}, {})
  BY <1>3, <1>4, ObjOutcome DEF ObjInv
<1>6. ControlInv'
  BY <1>3 DEF ObjInv, ControlInv
<1> QED BY <1>2, <1>3, <1>5, <1>6 DEF ObjInv

\* The end of a wait that has run out.
LEMMA TimeoutGoes ==
    ASSUME TaskInv, ObjInv, NEW t \in TCB, Doing(t, "result"), NEW s \in Plain, NEW a,
           Call(t, [kernel EXCEPT !.status[t] = @ \ {"TIMEOUT"}], s, a)
    PROVE  ObjInv' /\ Grants({t}, {}) /\ todo'[t] = s
<1> DEFINE k == [kernel EXCEPT !.status[t] = @ \ {"TIMEOUT"}]
<1>1. SafeInv' /\ WellFormed(kernel)
  BY ResultEnds, SafeKernel DEF ObjInv
<1>2. /\ kernel' = k /\ todo'[t] = s /\ ~AtResult(t)' /\ \A x \in Task : ~Creating(t, x)'
      /\ \A u \in TCB : u \notin {t} => todo'[u] = todo[u] /\ arg'[u] = arg[u]
  <2>1. Call(t, k, s, a)
    OBVIOUS
  <2> HIDE DEF k
  <2> QED BY <2>1, ObjCall DEF ObjInv
<1>3. /\ SameControl(kernel, kernel') /\ "TIMEOUT" \notin kernel'.status[t]
      /\ \A x \in Task : x # t => kernel'.status[x] = kernel.status[x]
  BY <1>1, <1>2 DEF SameControl, WellFormed, SchedState, TCB
<1> HIDE DEF k
<1>4. OutcomeInv' /\ Grants({t}, {})
  BY <1>2, <1>3, ObjOutcome DEF ObjInv
<1>5. ControlInv'
  BY <1>3, SameControlStep DEF ObjInv
<1> QED BY <1>1, <1>2, <1>4, <1>5 DEF ObjInv

\* A task waits on the object o.
LEMMA WaitGoes ==
    ASSUME TaskInv, ObjInv, NEW t \in Task, Thread(t), todo[t] \in {<<>>, <<"eventRead">>},
           kernel.lock = 0, NEW k, AsBefore(k), NEW o \in WaitObj,
           NEW ticks \in (0 .. MaxDelay) \cup {NoTime},
           Call(t, OsSchedTaskWait(k, o, ticks), <<"schedule", "result">>, o)
    PROVE  /\ ObjInv' /\ Grants({t}, {}) /\ ~Granted(t)
           /\ todo'[t] = <<"schedule", "result">> /\ arg'[t] = o
<1> DEFINE m == OsSchedTaskWait(k, o, ticks)
<1>1. SafeInv'
  BY ObjWaits DEF ObjInv
<1>2. /\ kernel' = m /\ todo'[t] = <<"schedule", "result">> /\ arg'[t] = o
      /\ \A u \in TCB : u # t => todo'[u] = todo[u] /\ arg'[u] = arg[u]
  <2> HIDE DEF m
  <2> QED BY DEF Call, TaskInv, TaskTypeOK, TCB, m
<1>3. t \in TCB /\ (todo[t] = <<>> \/ (todo[t] # <<>> /\ Head(todo[t]) = "eventRead"))
  BY DEF TCB
<1>4. /\ kernel.status[t] \cap Blocking = {} /\ \A v \in TCB : ~Creating(v, t)
      /\ "TIMEOUT" \notin kernel.status[t] /\ ~AtResult(t) /\ t = kernel.run
  <2>1. todo[t] = <<>> \/ Head(todo[t]) # "result"
    BY <1>3
  <2> QED BY <1>3, <2>1, WorkFlags DEF ObjInv
<1>5. /\ k.run = t /\ k.status[t] = kernel.status[t] /\ Waits(k, t) = {} /\ Tidy(k) /\ WellFormed(k)
      /\ o \in WaitList
  <2>1. Waits(kernel, t) = {}
    BY <1>4, SafeKernel DEF Placed, Blocking, ObjInv
  <2> QED BY <1>4, <2>1 DEF AsBefore, Sound, SameControl, SameWaits, WaitList
<1>6. /\ Only(k, m, t)
      /\ m.status[t] = k.status[t] \cup (IF ticks = NoTime THEN {"PEND"} ELSE {"PEND", "PEND_TIME"})
  BY <1>5, WaitTimedRow
<1> HIDE DEF m
<1>7. /\ "PEND" \in kernel'.status[t] /\ "TIMEOUT" \notin kernel'.status[t]
      /\ kernel'.status[t] \cap {"EXIT", "UNUSED"} = {}
  BY <1>2, <1>4, <1>5, <1>6 DEF Blocking
<1>8. \A x \in Task : x # t => kernel'.status[x] = kernel.status[x]
  BY <1>2, <1>6 DEF Only, SameRow, SameFlags, AsBefore
<1>9. \A x \in Task : ~Creating(t, x)'
  BY <1>2 DEF Creating
<1>10. OutcomeInv' /\ Grants({t}, {})
  BY <1>2, <1>3, <1>4, <1>7, <1>8, <1>9, ObjOutcome DEF ObjInv
<1>11. ControlInv'
  <2>1. SameControl(kernel, kernel')
    BY <1>2, <1>6 DEF Only, AsBefore, SameControl
  <2> QED BY <2>1, SameControlStep DEF ObjInv
<1> QED BY <1>1, <1>2, <1>4, <1>10, <1>11 DEF ObjInv, Granted

\* The calls of the tasks of T, who are in no wait, begin no wait; the others stay.
OnlyTheirs(T) ==
    /\ T \in SUBSET TCB
    /\ \A u \in T : /\ u \in Task => kernel.status[u] \cap {"PEND", "TIMEOUT"} = {}
                    /\ ~AtResult(u)' /\ \A x \in Task : ~Creating(u, x)'
    /\ \A u \in TCB : u \notin T => todo'[u] = todo[u] /\ arg'[u] = arg[u]

\* The first task that waits on o is given what it waits for.
LEMMA WakeOutcome ==
    ASSUME TaskInv, ObjInv, NEW k, AsBefore(k), NEW o \in WaitObj, k.pend[o] # <<>>,
           NEW w, w = Head(k.pend[o]), NEW m, m = OsSchedTaskWake(k, w),
           kernel'.status = m.status, NEW T, OnlyTheirs(T)
    PROVE  /\ OutcomeInv' /\ Grants(T, {w}) /\ ~Granted(w)
           /\ w \in Task /\ w \notin T /\ arg[w] = o /\ AtResult(w) /\ SameControl(kernel, m)
           /\ WellFormed(m)
<1>1. /\ w \in Task /\ o \in Waits(kernel, w) /\ Results(w, o) /\ "PEND" \in kernel.status[w]
      /\ Only(k, m, w) /\ Placed(m, w) /\ Waits(m, w) = {} /\ SameLife(k, m, w)
      /\ "TIMEOUT" \in m.status[w] <=> "TIMEOUT" \in k.status[w]
      /\ WellFormed(m)
  BY FirstWaiter DEF ObjInv
<1>0. /\ T \in SUBSET TCB
      /\ \A u \in T : /\ u \in Task => kernel.status[u] \cap {"PEND", "TIMEOUT"} = {}
                      /\ ~AtResult(u)' /\ \A x \in Task : ~Creating(u, x)'
      /\ \A u \in TCB : u \notin T => todo'[u] = todo[u] /\ arg'[u] = arg[u]
  BY DEF OnlyTheirs
<1>2. AtResult(w) /\ arg[w] = o
  BY <1>1 DEF Results, AtResult
<1>3. w \notin T
  BY <1>0, <1>1
<1>4. "PEND" \notin kernel'.status[w] /\ k.status[w] = kernel.status[w]
  BY <1>1 DEF Placed, AsBefore
<1>5. \A x \in Task : x # w => kernel'.status[x] = kernel.status[x]
  BY <1>1 DEF Only, SameRow, SameFlags, AsBefore
<1>6. \A f \in Outcome : f \in kernel'.status[w] <=> f \in kernel.status[w]
  BY <1>1, <1>4 DEF Outcome, SameLife
<1>7. \A x \in Task : x \notin T =>
         /\ \A f \in Outcome : f \in kernel'.status[x] <=> f \in kernel.status[x]
         /\ "PEND" \in kernel'.status[x] => "PEND" \in kernel.status[x]
  BY <1>1, <1>5, <1>6
<1>8. \A x \in Task : x \notin T \cup {w} /\ "PEND" \in kernel.status[x] => "PEND" \in kernel'.status[x]
  BY <1>5
<1>9. \A u \in T : u \in Task => "TIMEOUT" \notin kernel'.status[u]
  BY <1>0, <1>3, <1>5
<1>10. {w} \in SUBSET Task
  BY <1>1
<1>11. /\ \A v \in {w} : /\ v \notin T /\ AtResult(v) /\ "PEND" \in kernel.status[v]
                         /\ "PEND" \notin kernel'.status[v]
       /\ \A u \in T : /\ AtResult(u)' => /\ u \in Task /\ "PEND" \in kernel'.status[u]
                                          /\ kernel'.status[u] \cap {"EXIT", "UNUSED"} = {}
                                          /\ \A v \in TCB : ~Creating(v, u)
                       /\ u \in Task => "TIMEOUT" \notin kernel'.status[u]
                       /\ \A x \in Task : ~Creating(u, x)'
  BY <1>0, <1>1, <1>2, <1>3, <1>4, <1>9
<1>12. OutcomeInv' /\ Grants(T, {w})
  BY <1>0, <1>7, <1>8, <1>10, <1>11, ObjOutcome DEF ObjInv
<1>13. ~Granted(w)
  BY <1>1 DEF Granted
<1>14. SameControl(kernel, m)
  BY <1>1 DEF Only, SameControl, AsBefore
<1> QED BY <1>1, <1>2, <1>3, <1>12, <1>13, <1>14

\* A task gives what another waits for.
LEMMA WakeGoes ==
    ASSUME TaskInv, ObjInv, NEW t \in TCB, Thread(t),
           \/ todo[t] = <<>>
           \/ todo[t] # <<>> /\ Head(todo[t]) \in {"eventRead", "eventWrite"}
           \/ todo[t] # <<>> /\ Head(todo[t]) = "result" /\ "TIMEOUT" \notin kernel.status[t],
           NEW k, AsBefore(k), NEW o \in WaitObj, k.pend[o] # <<>>, NEW w, w = Head(k.pend[o]),
           Call(t, OsSchedTaskWake(k, w), <<"schedule">>, NoArg)
    PROVE  /\ ObjInv' /\ Grants({t}, {w}) /\ ~Granted(w) /\ todo'[t] = <<"schedule">>
           /\ w \in Task /\ w # t /\ arg[w] = o /\ AtResult(w)
<1> DEFINE m == OsSchedTaskWake(k, w)
<1>1. \/ todo[t] = <<>>
      \/ todo[t] # <<>> /\ Head(todo[t]) \in {"result", "eventRead", "eventWrite"}
  OBVIOUS
<1>2. SafeInv'
  BY <1>1, ObjWakes DEF ObjInv
<1>3. /\ kernel' = m /\ todo'[t] = <<"schedule">> /\ ~AtResult(t)' /\ \A x \in Task : ~Creating(t, x)'
      /\ \A u \in TCB : u \notin {t} => todo'[u] = todo[u] /\ arg'[u] = arg[u]
  <2>1. Call(t, m, <<"schedule">>, NoArg) /\ <<"schedule">> \in Plain
    BY DEF Plain
  <2> HIDE DEF m
  <2> QED BY <2>1, ObjCall DEF ObjInv
<1>4. t \in Task => kernel.status[t] \cap {"PEND", "TIMEOUT"} = {}
  BY <1>1, WorkFlags DEF ObjInv, Blocking
<1>5. m = OsSchedTaskWake(k, w) /\ kernel'.status = m.status
  BY <1>3
<1> HIDE DEF m
<1>6. /\ {t} \in SUBSET TCB
      /\ \A u \in {t} : /\ u \in Task => kernel.status[u] \cap {"PEND", "TIMEOUT"} = {}
                        /\ ~AtResult(u)' /\ \A x \in Task : ~Creating(u, x)'
  BY <1>3, <1>4
<1>7. /\ OutcomeInv' /\ Grants({t}, {w}) /\ ~Granted(w)
      /\ w \in Task /\ w \notin {t} /\ arg[w] = o /\ AtResult(w) /\ SameControl(kernel, m)
  <2> DEFINE T == {t}
  <2>1. OnlyTheirs(T)
    BY <1>3, <1>6 DEF OnlyTheirs
  <2> HIDE DEF T
  <2>2. OutcomeInv' /\ Grants(T, {w}) /\ SameControl(kernel, m)
    BY <1>5, <2>1, WakeOutcome
  <2>3. w \in Task /\ Results(w, o) /\ "PEND" \in kernel.status[w] /\ Only(k, m, w)
    BY <1>5, FirstWaiter DEF ObjInv
  <2>4. ~Granted(w) /\ arg[w] = o /\ AtResult(w) /\ w \notin {t}
    BY <1>4, <2>3 DEF Granted, Results, AtResult
  <2> QED BY <2>2, <2>3, <2>4 DEF T
<1>8. ControlInv'
  BY <1>3, <1>7, SameControlStep DEF ObjInv
<1> QED BY <1>2, <1>3, <1>7, <1>8 DEF ObjInv

\* So does an interrupt.
LEMMA IsrWakeGoes ==
    ASSUME TaskInv, ObjInv, NEW o \in WaitObj, kernel.pend[o] # <<>>, NEW w, w = Head(kernel.pend[o]),
           kernel' = LOS_Schedule(OsSchedTaskWake(kernel, w)), UNCHANGED <<todo, arg, handles>>
    PROVE  /\ ObjInv' /\ Grants({}, {w}) /\ ~Granted(w)
           /\ w \in Task /\ arg[w] = o /\ AtResult(w)
<1> DEFINE m == OsSchedTaskWake(kernel, w)
<1>1. SafeInv'
  BY IsrWakes DEF ObjInv
<1>2. AsBefore(kernel)
  BY SelfAsBefore DEF ObjInv
<1>3. WellFormed(m)
  BY <1>2, FirstWaiter DEF ObjInv
<1>4. kernel' = LOS_Schedule(m) /\ m = OsSchedTaskWake(kernel, w)
  OBVIOUS
<1> HIDE DEF m
<1>5. kernel'.status = m.status
  BY <1>3, <1>4, AskSame
<1>6. /\ OutcomeInv' /\ Grants({}, {w}) /\ ~Granted(w)
      /\ w \in Task /\ arg[w] = o /\ AtResult(w) /\ SameControl(kernel, m)
  <2>1. OnlyTheirs({})
    BY DEF OnlyTheirs
  <2> QED BY <1>2, <1>4, <1>5, <2>1, WakeOutcome
<1>7. ControlInv'
  BY <1>3, <1>4, <1>6, AskControlStep DEF ObjInv
<1> QED BY <1>1, <1>6, <1>7 DEF ObjInv

\* A step of the tasks, with the outcomes of the waits.
LEMMA TaskGoes ==
    ASSUME Unprotected = {}, TaskInv, ObjInv, [TaskNext]_taskVars
    PROVE  ObjInv' /\ ResultsGoOn
  BY WaitsGoOn, NextControl DEF ObjInv

-----------------------------------------------------------------------------
(* An object and the tasks that are in a call on it.                       *)

CallersOn(o) == {t \in Task : AtResult(t) /\ arg[t] = o}

\* Those that have been woken, and those whose time is over.
GrantedOn(o) == {t \in CallersOn(o) : Granted(t)}
LateOn(o)    == {t \in CallersOn(o) : "PEND" \notin kernel.status[t] /\ "TIMEOUT" \in kernel.status[t]}

\* Each of them waits, in order, or is one or the other.
Split(o) ==
    /\ kernel.pend[o] \in Seq(Task) /\ IsInjective(kernel.pend[o])
    /\ \A t : Contains(kernel.pend[o], t) => t \in CallersOn(o)
    /\ \A t \in CallersOn(o) : Contains(kernel.pend[o], t) <=> "PEND" \in kernel.status[t]
    /\ LateOn(o) = {t \in CallersOn(o) : ~Granted(t) /\ ~Contains(kernel.pend[o], t)}

LEMMA CallersSplit == TaskInv /\ ObjInv => \A o \in WaitObj : Split(o)
<1> SUFFICES ASSUME TaskInv, ObjInv, NEW o \in WaitObj PROVE Split(o)
  OBVIOUS
<1>1. /\ kernel.pend[o] \in Seq(Task) /\ IsInjective(kernel.pend[o]) /\ o \in WaitList
      /\ \A t \in Task : Placed(kernel, t)
  BY SafeKernel DEF ObjInv, WellFormed, SchedState, WaitList, Sound, Tidy
<1>2. ASSUME NEW t, Contains(kernel.pend[o], t)
      PROVE  t \in CallersOn(o) /\ "PEND" \in kernel.status[t]
  <2>1. t \in Task
    BY <1>1, <1>2, ContainsType
  <2>2. o \in Waits(kernel, t)
    BY <1>1, <1>2 DEF Waits
  <2>3. Results(t, o)
    BY <2>1, <2>2 DEF ObjInv, SafeInv, ResultInv
  <2> QED BY <1>1, <2>1, <2>2, <2>3 DEF Placed, Results, CallersOn, AtResult
<1>3. ASSUME NEW t \in CallersOn(o), "PEND" \in kernel.status[t]
      PROVE  Contains(kernel.pend[o], t)
  <2>1. t \in Task /\ AtResult(t) /\ arg[t] = o
    BY DEF CallersOn
  <2>2. PICK q : q \in Waits(kernel, t)
    BY <1>1, <1>3, <2>1 DEF Placed
  <2>3. q \in WaitList /\ Contains(kernel.pend[q], t)
    BY <2>2 DEF Waits
  <2>4. q \notin Task
    <3>1. ASSUME q \in Task PROVE FALSE
      <4>1. Reclaims(t, q)
        BY <2>1, <2>2, <3>1 DEF ObjInv, SafeInv, JoinInv
      <4> QED BY <2>1, <4>1 DEF Reclaims, AtResult
    <3> QED BY <3>1
  <2>5. Results(t, q)
    BY <2>1, <2>2, <2>3, <2>4 DEF ObjInv, SafeInv, ResultInv, WaitList
  <2> QED BY <2>1, <2>3, <2>5 DEF Results
<1>4. \A t \in CallersOn(o) : Contains(kernel.pend[o], t) <=> "PEND" \in kernel.status[t]
  BY <1>2, <1>3
<1>5. LateOn(o) = {t \in CallersOn(o) : ~Granted(t) /\ ~Contains(kernel.pend[o], t)}
  <2>1. \A t \in CallersOn(o) : AtResult(t)
    BY DEF CallersOn
  <2> QED BY <1>4, <2>1 DEF LateOn, Granted
<1> QED BY <1>1, <1>2, <1>4, <1>5 DEF Split

LEMMA CallersSplitNext == TaskInv' /\ ObjInv' => (\A o \in WaitObj : Split(o))'
  BY CallersSplit, PTL

SameOn(o) == /\ kernel'.pend[o] = kernel.pend[o]
             /\ GrantedOn(o)' = GrantedOn(o) /\ LateOn(o)' = LateOn(o)

\* The task x leaves the wait list of o.
CutOut(o, x) == kernel'.pend[o] = Unlink(kernel.pend[o], x)

\* x runs out of time, or is deleted in the middle of its call.
LateAt(o, x) == /\ Contains(kernel.pend[o], x) /\ CutOut(o, x)
                /\ GrantedOn(o)' = GrantedOn(o) /\ LateOn(o)' = LateOn(o) \cup {x}

CutOff(o, x) == /\ x \in CallersOn(o) /\ CutOut(o, x)
                /\ GrantedOn(o)' = GrantedOn(o) \ {x} /\ LateOn(o)' = LateOn(o) \ {x}
                /\ kernel'.status[x] \cap {"EXIT", "UNUSED"} # {}

\* What a step of the tasks does to the callers.
LEMMA TasksOn ==
    ASSUME TaskInv, ObjInv, TaskInv', ObjInv', ResultsGoOn, NEW o \in WaitObj
    PROVE  SameOn(o) \/ \E x \in Task : LateAt(o, x) \/ CutOff(o, x)
<1>1. PICK x \in TCB :
         /\ \A q \in WaitObj : kernel'.pend[q] = Unlink(kernel.pend[q], x)
         /\ \A z \in TCB : z # x /\ AtResult(z) => AtResult(z)'
         /\ AtResult(x) => AtResult(x)' \/ kernel'.status[x] \cap {"EXIT", "UNUSED"} # {}
  BY DEF ResultsGoOn, OneLeaves
<1>2. \A t \in TCB : /\ AtResult(t)' => AtResult(t) /\ arg'[t] = arg[t] /\ (Granted(t)' <=> Granted(t))
  BY DEF ResultsGoOn
<1>3. /\ kernel.pend[o] \in Seq(Task) /\ IsInjective(kernel.pend[o])
      /\ \A t : Contains(kernel.pend[o], t) => t \in CallersOn(o)
      /\ LateOn(o) = {t \in CallersOn(o) : ~Granted(t) /\ ~Contains(kernel.pend[o], t)}
  BY CallersSplit DEF Split
<1>4. /\ \A t : Contains(kernel.pend[o], t)' => t \in CallersOn(o)'
      /\ LateOn(o)' = {t \in CallersOn(o)' : ~Granted(t)' /\ ~Contains(kernel'.pend[o], t)}
  <2>1. Split(o)'
    BY CallersSplitNext
  <2> QED BY <2>1 DEF Split
<1>5. /\ kernel'.pend[o] = Unlink(kernel.pend[o], x) /\ ~Contains(kernel'.pend[o], x)
      /\ \A z : z # x => (Contains(kernel'.pend[o], z) <=> Contains(kernel.pend[o], z))
  BY <1>1, <1>3, UnlinkOnce DEF Unlink
<1>6. CallersOn(o)' = IF AtResult(x)' THEN CallersOn(o) ELSE CallersOn(o) \ {x}
  BY <1>1, <1>2 DEF CallersOn, TCB
<1>7. GrantedOn(o)' = {t \in CallersOn(o)' : Granted(t)}
  BY <1>2, <1>6 DEF GrantedOn, CallersOn, TCB
<1>8. LateOn(o)' = {t \in CallersOn(o)' : ~Granted(t) /\ ~Contains(kernel'.pend[o], t)}
  BY <1>2, <1>4, <1>6 DEF CallersOn, TCB
<1>9. CASE x \notin CallersOn(o)
  <2>1. CallersOn(o)' = CallersOn(o) /\ ~Contains(kernel.pend[o], x)
    BY <1>3, <1>6, <1>9
  <2>2. kernel'.pend[o] = kernel.pend[o]
    BY <1>5, <2>1, UnlinkAbsent DEF Unlink
  <2> QED BY <1>3, <1>7, <1>8, <2>1, <2>2 DEF SameOn, GrantedOn
<1>10. CASE x \in CallersOn(o) /\ ~AtResult(x)'
  <2>1. CallersOn(o)' = CallersOn(o) \ {x} /\ x \in Task /\ AtResult(x)
    BY <1>6, <1>10 DEF CallersOn
  <2>2. GrantedOn(o)' = GrantedOn(o) \ {x}
    BY <1>7, <2>1 DEF GrantedOn
  <2>3. LateOn(o)' = LateOn(o) \ {x}
    BY <1>3, <1>5, <1>8, <2>1
  <2> QED BY <1>1, <1>5, <1>10, <2>1, <2>2, <2>3 DEF CutOff, CutOut
<1>11. CASE x \in CallersOn(o) /\ AtResult(x)'
  <2>1. CallersOn(o)' = CallersOn(o) /\ x \in Task
    BY <1>6, <1>11 DEF CallersOn
  <2>2. GrantedOn(o)' = GrantedOn(o)
    BY <1>7, <2>1 DEF GrantedOn
  <2>3. CASE Contains(kernel.pend[o], x)
    <3>1. ~Granted(x)
      <4>1. "PEND" \in kernel.status[x]
        BY <1>11, <2>3, CallersSplit DEF Split
      <4> QED BY <4>1 DEF Granted
    <3>2. LateOn(o)' = LateOn(o) \cup {x}
      BY <1>3, <1>5, <1>8, <1>11, <2>1, <3>1
    <3> QED BY <1>5, <2>1, <2>2, <2>3, <3>2 DEF LateAt, CutOut
  <2>4. CASE ~Contains(kernel.pend[o], x)
    <3>1. kernel'.pend[o] = kernel.pend[o]
      BY <1>5, <2>4, UnlinkAbsent DEF Unlink
    <3> QED BY <1>3, <1>8, <2>1, <2>2, <3>1 DEF SameOn
  <2> QED BY <2>3, <2>4
<1> QED BY <1>9, <1>10, <1>11

\* What is known of the callers after the step, from who is granted what.
Granting(T, W) ==
    /\ T \in SUBSET TCB /\ W \in SUBSET Task /\ Grants(T, W)
    /\ \A u \in T : ~AtResult(u)'
    /\ \A w \in W : w \notin T /\ AtResult(w)

CallersAfter(o, T, W) ==
    /\ CallersOn(o)' = CallersOn(o) \ T
    /\ GrantedOn(o)' = (GrantedOn(o) \ T) \cup (W \cap CallersOn(o))
    /\ LateOn(o)' = {t \in CallersOn(o) \ T :
                        ~Granted(t) /\ t \notin W /\ ~Contains(kernel'.pend[o], t)}

LEMMA GrantsOn ==
    ASSUME TaskInv, ObjInv, TaskInv', ObjInv', NEW T, NEW W, Granting(T, W), NEW o \in WaitObj
    PROVE  CallersAfter(o, T, W)
<1> USE DEF Granting
<1>1. \A u \in TCB : /\ Granted(u)' <=> (Granted(u) /\ u \notin T) \/ u \in W
                     /\ u \notin T => (AtResult(u)' <=> AtResult(u)) /\ arg'[u] = arg[u]
  BY DEF Grants, AtResult
<1>2. CallersOn(o)' = CallersOn(o) \ T
  BY <1>1 DEF CallersOn, TCB
<1>3. LateOn(o)' = {t \in CallersOn(o)' : ~Granted(t)' /\ ~Contains(kernel'.pend[o], t)}
  <2>1. Split(o)'
    BY CallersSplitNext
  <2> QED BY <2>1 DEF Split
<1>4. CallersOn(o) \subseteq TCB
  BY DEF CallersOn, TCB
<1>5. GrantedOn(o)' = {t \in CallersOn(o)' : Granted(t)'}
  BY DEF GrantedOn
<1>6. GrantedOn(o) = {t \in CallersOn(o) : Granted(t)}
  BY DEF GrantedOn
<1>7. GrantedOn(o)' = (GrantedOn(o) \ T) \cup (W \cap CallersOn(o))
  BY <1>1, <1>2, <1>4, <1>5, <1>6
<1>8. LateOn(o)' = {t \in CallersOn(o) \ T : ~Granted(t) /\ t \notin W /\ ~Contains(kernel'.pend[o], t)}
  BY <1>1, <1>2, <1>3, <1>4
<1> QED BY <1>2, <1>7, <1>8 DEF CallersAfter

\* A call of the tasks of T, who are in none on an object, leaves everybody where he is.
LEMMA NobodyOn ==
    ASSUME TaskInv, ObjInv, TaskInv', ObjInv', NEW T \in SUBSET TCB, Grants(T, {}),
           \A u \in T : ~AtResult(u) /\ ~AtResult(u)', NEW o \in WaitObj, kernel'.pend[o] = kernel.pend[o]
    PROVE  SameOn(o)
<1>1. /\ GrantedOn(o)' = GrantedOn(o) \ T
      /\ LateOn(o)' = {t \in CallersOn(o) \ T : ~Granted(t) /\ ~Contains(kernel'.pend[o], t)}
  <2>1. Granting(T, {})
    BY DEF Granting
  <2>2. CallersAfter(o, T, {})
    BY <2>1, GrantsOn
  <2> QED BY <2>2 DEF CallersAfter
<1>2. CallersOn(o) \ T = CallersOn(o) /\ GrantedOn(o) \ T = GrantedOn(o)
  BY DEF CallersOn, GrantedOn
<1>3. LateOn(o) = {t \in CallersOn(o) : ~Granted(t) /\ ~Contains(kernel.pend[o], t)}
  BY CallersSplit DEF Split
<1> QED BY <1>1, <1>2, <1>3 DEF SameOn

\* The wait of t begins: it is the last on the list of o.
LEMMA WaitsOn ==
    ASSUME TaskInv, ObjInv, TaskInv', ObjInv', NEW t \in Task, NEW o \in WaitObj, Grants({t}, {}),
           ~AtResult(t), AtResult(t)', arg'[t] = o,
           kernel'.pend = [kernel.pend EXCEPT ![o] = Append(@, t)]
    PROVE  /\ t \notin CallersOn(o) /\ kernel'.pend[o] = Append(kernel.pend[o], t)
           /\ GrantedOn(o)' = GrantedOn(o) /\ LateOn(o)' = LateOn(o)
           /\ \A q \in WaitObj \ {o} : SameOn(q)
<1>1. \A u \in TCB : /\ Granted(u)' <=> Granted(u) /\ u # t
                     /\ u # t => (AtResult(u)' <=> AtResult(u)) /\ arg'[u] = arg[u]
  BY DEF Grants, AtResult
<1>2. kernel.pend \in [WaitList -> Seq(Task)] /\ WaitObj \subseteq WaitList
  BY SafeKernel DEF WellFormed, SchedState, WaitList, ObjInv
<1>3. /\ kernel'.pend[o] = Append(kernel.pend[o], t)
      /\ \A q \in WaitObj \ {o} : kernel'.pend[q] = kernel.pend[q]
  BY <1>2
<1>4. ASSUME NEW q \in WaitObj
      PROVE  /\ CallersOn(q)' = IF q = o THEN CallersOn(q) \cup {t} ELSE CallersOn(q)
             /\ t \notin CallersOn(q)
             /\ GrantedOn(q)' = GrantedOn(q)
             /\ LateOn(q)' = {u \in CallersOn(q)' : ~Granted(u)' /\ ~Contains(kernel'.pend[q], u)}
             /\ LateOn(q) = {u \in CallersOn(q) : ~Granted(u) /\ ~Contains(kernel.pend[q], u)}
  <2>1. CallersOn(q)' = IF q = o THEN CallersOn(q) \cup {t} ELSE CallersOn(q)
    BY <1>1 DEF CallersOn, TCB
  <2>2. t \notin CallersOn(q) /\ CallersOn(q) \subseteq TCB /\ t \in TCB
    BY DEF CallersOn, TCB
  <2>3. GrantedOn(q)' = GrantedOn(q)
    <3>1. GrantedOn(q)' = {u \in CallersOn(q)' : Granted(u)'}
      BY DEF GrantedOn
    <3> QED BY <1>1, <2>1, <2>2, <3>1 DEF GrantedOn
  <2>4. Split(q) /\ Split(q)'
    BY CallersSplit, CallersSplitNext
  <2> QED BY <2>1, <2>2, <2>3, <2>4 DEF Split
<1>5. \A u \in TCB : Contains(kernel'.pend[o], u) <=> Contains(kernel.pend[o], u) \/ u = t
  <2>1. kernel.pend[o] \in Seq(Task) /\ IsInjective(kernel.pend[o]) /\ ~Contains(kernel.pend[o], t)
    BY <1>4, CallersSplit DEF Split
  <2> QED BY <1>3, <2>1, AppendOnce
<1>6. \A u \in CallersOn(o) : u # t /\ u \in TCB
  BY <1>4 DEF CallersOn, TCB
<1>7. LateOn(o)' = LateOn(o)
  <2>1. CallersOn(o)' = CallersOn(o) \cup {t}
    BY <1>4
  <2>2. LateOn(o)' = {u \in CallersOn(o) \cup {t} : ~Granted(u)' /\ ~Contains(kernel'.pend[o], u)}
    BY <1>4, <2>1
  <2>3. LateOn(o) = {u \in CallersOn(o) : ~Granted(u) /\ ~Contains(kernel.pend[o], u)}
    BY <1>4
  <2>4. t \in TCB /\ \A u \in CallersOn(o) : u # t /\ u \in TCB
    BY <1>6 DEF TCB
  <2> QED BY <1>1, <1>5, <2>2, <2>3, <2>4
<1>8. \A q \in WaitObj \ {o} : SameOn(q)
  <2>1. SUFFICES ASSUME NEW q \in WaitObj, q # o PROVE SameOn(q)
    OBVIOUS
  <2>2. CallersOn(q)' = CallersOn(q) /\ \A u \in CallersOn(q) : u # t /\ u \in TCB
    BY <1>4, <2>1 DEF CallersOn, TCB
  <2>3. /\ LateOn(q)' = {u \in CallersOn(q) : ~Granted(u)' /\ ~Contains(kernel.pend[q], u)}
        /\ LateOn(q) = {u \in CallersOn(q) : ~Granted(u) /\ ~Contains(kernel.pend[q], u)}
    BY <1>3, <1>4, <2>1, <2>2
  <2>4. LateOn(q)' = LateOn(q)
    BY <1>1, <2>2, <2>3
  <2> QED BY <1>3, <1>4, <2>1, <2>4 DEF SameOn
<1> QED BY <1>3, <1>4, <1>7, <1>8

\* The first of the list is woken.
LEMMA WakesOn ==
    ASSUME TaskInv, ObjInv, TaskInv', ObjInv', NEW T \in SUBSET TCB,
           \A u \in T : ~AtResult(u) /\ ~AtResult(u)',
           NEW o \in WaitObj, kernel.pend[o] # <<>>, NEW w, w = Head(kernel.pend[o]), Grants(T, {w}),
           NEW k, "pend" \in DOMAIN k, k.pend = kernel.pend, kernel'.pend = OsSchedTaskWake(k, w).pend
    PROVE  /\ w \in Task /\ kernel'.pend[o] = Tail(kernel.pend[o])
           /\ GrantedOn(o)' = GrantedOn(o) \cup {w} /\ LateOn(o)' = LateOn(o)
           /\ \A q \in WaitObj \ {o} : SameOn(q)
<1>1. kernel.pend \in [WaitList -> Seq(Task)] /\ WaitObj \subseteq WaitList
  BY SafeKernel DEF WellFormed, SchedState, WaitList, ObjInv
<1>2. kernel.pend[o] \in Seq(Task) /\ IsInjective(kernel.pend[o])
  BY CallersSplit DEF Split
<1>3. w \in Task /\ Contains(kernel.pend[o], w)
  BY <1>2, EmptyList
<1>4. w \in CallersOn(o) /\ ~Granted(w)
  <2>1. w \in CallersOn(o) /\ "PEND" \in kernel.status[w]
    BY <1>3, CallersSplit DEF Split
  <2> QED BY <2>1 DEF Granted
<1>5. AtResult(w) /\ arg[w] = o /\ w \notin T
  BY <1>4 DEF CallersOn
<1>6. \A q \in WaitObj : kernel'.pend[q] = Unlink(kernel.pend[q], w)
  <2>1. LeftBy(k, OsSchedTaskWake(k, w), w)
    BY WakePend
  <2> QED BY <1>1, <2>1 DEF LeftBy
<1>7. kernel'.pend[o] = Tail(kernel.pend[o])
  BY <1>2, <1>6, UnlinkHead DEF Unlink
<1>8. ASSUME NEW q \in WaitObj
      PROVE  /\ GrantedOn(q)' = (GrantedOn(q) \ T) \cup ({w} \cap CallersOn(q))
             /\ LateOn(q)' = {t \in CallersOn(q) \ T :
                                 ~Granted(t) /\ t \notin {w} /\ ~Contains(kernel'.pend[q], t)}
             /\ GrantedOn(q) \ T = GrantedOn(q) /\ CallersOn(q) \ T = CallersOn(q)
             /\ LateOn(q) = {u \in CallersOn(q) : ~Granted(u) /\ ~Contains(kernel.pend[q], u)}
  <2>1. Granting(T, {w})
    BY <1>3, <1>5 DEF Granting
  <2>4. CallersAfter(q, T, {w})
    BY <2>1, GrantsOn
  <2>2. /\ GrantedOn(q)' = (GrantedOn(q) \ T) \cup ({w} \cap CallersOn(q))
        /\ LateOn(q)' = {t \in CallersOn(q) \ T :
                                 ~Granted(t) /\ t \notin {w} /\ ~Contains(kernel'.pend[q], t)}
    BY <2>4 DEF CallersAfter
  <2>3. GrantedOn(q) \ T = GrantedOn(q) /\ CallersOn(q) \ T = CallersOn(q)
    BY DEF GrantedOn, CallersOn
  <2> QED BY <2>2, <2>3, CallersSplit DEF Split
<1>9. \A z : z # w => (Contains(kernel'.pend[o], z) <=> Contains(kernel.pend[o], z))
  BY <1>2, <1>6, UnlinkOnce DEF Unlink
<1>10. LateOn(o)' = LateOn(o) /\ GrantedOn(o)' = GrantedOn(o) \cup {w}
  <2>1. /\ GrantedOn(o)' = GrantedOn(o) \cup ({w} \cap CallersOn(o))
        /\ LateOn(o)' = {t \in CallersOn(o) : ~Granted(t) /\ t # w /\ ~Contains(kernel'.pend[o], t)}
        /\ LateOn(o) = {u \in CallersOn(o) : ~Granted(u) /\ ~Contains(kernel.pend[o], u)}
    BY <1>8
  <2>2. LateOn(o)' = LateOn(o)
    BY <1>3, <1>9, <2>1
  <2> QED BY <1>4, <2>1, <2>2
<1>11. \A q \in WaitObj \ {o} : SameOn(q)
  <2>1. SUFFICES ASSUME NEW q \in WaitObj, q # o PROVE SameOn(q)
    OBVIOUS
  <2>2. w \notin CallersOn(q)
    BY <1>5, <2>1 DEF CallersOn
  <2>3. ~Contains(kernel.pend[q], w)
    BY <2>2, CallersSplit DEF Split
  <2>4. kernel'.pend[q] = kernel.pend[q]
    BY <1>6, <2>3, UnlinkAbsent DEF Unlink
  <2>6. /\ GrantedOn(q)' = GrantedOn(q) \cup ({w} \cap CallersOn(q))
        /\ LateOn(q)' = {t \in CallersOn(q) : ~Granted(t) /\ t # w /\ ~Contains(kernel'.pend[q], t)}
        /\ LateOn(q) = {u \in CallersOn(q) : ~Granted(u) /\ ~Contains(kernel.pend[q], u)}
    BY <1>8, <2>1
  <2>5. LateOn(q)' = LateOn(q) /\ GrantedOn(q)' = GrantedOn(q)
    BY <2>2, <2>4, <2>6
  <2> QED BY <2>4, <2>5 DEF SameOn
<1> QED BY <1>3, <1>7, <1>10, <1>11

\* The call of t returns.
LEMMA ReturnsOn ==
    ASSUME TaskInv, ObjInv, TaskInv', ObjInv', NEW t \in TCB, Grants({t}, {}), ~AtResult(t)',
           kernel'.pend = kernel.pend, "PEND" \notin kernel.status[t], NEW o \in WaitObj
    PROVE  /\ t \notin CallersOn(o) => SameOn(o)
           /\ t \in CallersOn(o) =>
                 /\ kernel'.pend[o] = kernel.pend[o] /\ t \in GrantedOn(o) \cup LateOn(o)
                 /\ GrantedOn(o)' = GrantedOn(o) \ {t} /\ LateOn(o)' = LateOn(o) \ {t}
<1>1. /\ GrantedOn(o)' = GrantedOn(o) \ {t}
      /\ LateOn(o)' = {u \in CallersOn(o) \ {t} : ~Granted(u) /\ ~Contains(kernel'.pend[o], u)}
  <2>1. Granting({t}, {})
    BY DEF Granting
  <2>2. CallersAfter(o, {t}, {})
    BY <2>1, GrantsOn
  <2> QED BY <2>2 DEF CallersAfter
<1>2. LateOn(o) = {u \in CallersOn(o) : ~Granted(u) /\ ~Contains(kernel.pend[o], u)}
  BY CallersSplit DEF Split
<1>3. LateOn(o)' = LateOn(o) \ {t}
  BY <1>1, <1>2
<1>4. ASSUME t \in CallersOn(o) PROVE t \in GrantedOn(o) \cup LateOn(o)
  <2>1. ~Contains(kernel.pend[o], t)
    BY <1>4, CallersSplit DEF Split
  <2> QED BY <1>2, <1>4, <2>1 DEF GrantedOn
<1>5. t \notin CallersOn(o) => t \notin GrantedOn(o) /\ t \notin LateOn(o)
  BY DEF GrantedOn, LateOn
<1> QED BY <1>1, <1>3, <1>4, <1>5 DEF SameOn

LEMMA WaitAppends ==
    ASSUME NEW k, WellFormed(k), NEW o \in WaitList, NEW ticks
    PROVE  OsSchedTaskWait(k, o, ticks).pend = [k.pend EXCEPT ![o] = Append(@, k.run)]
  BY DEF OsSchedTaskWait, WellFormed, SchedState

\* Whether a call has a result to come is in its rest.
LEMMA ResultToCome ==
    ASSUME SafeInv
    PROVE  \A t \in TCB : Contains(todo[t], "result") <=> AtResult(t)
<1>1. \A r \in Rest : Contains(r, "result") <=> r \in {<<"schedule", "result">>, <<"result">>}
  BY DEF Rest, Contains
<1> QED BY <1>1 DEF SafeInv, AtResult

\* The tasks are as they were.
LEMMA CallersStay ==
    ASSUME UNCHANGED taskVars, NEW o
    PROVE  SameOn(o)
<1>1. kernel' = kernel /\ todo' = todo /\ arg' = arg
  BY DEF taskVars
<1>2. CallersOn(o)' = CallersOn(o) /\ GrantedOn(o)' = GrantedOn(o) /\ LateOn(o)' = LateOn(o)
  BY <1>1 DEF CallersOn, GrantedOn, LateOn, Granted, AtResult
<1> QED BY <1>1, <1>2 DEF SameOn

=============================================================================
