--------------------------- MODULE LosTaskProofs ---------------------------
(***************************************************************************)
(* For any number of tasks and priorities: the type invariant of the tasks *)
(* and the bitmap of the ready queues, that the lock of the scheduler      *)
(* holds, and that a suspension lasts until the task is resumed.           *)
(*                                                                         *)
(* First what every function of the scheduler preserves: the types of the  *)
(* kernel's state, the two TCBs that are not the application's, the bitmap *)
(* of the ready queues, and that no function but OsSchedTaskWait makes a   *)
(* task wait.                                                              *)
(***************************************************************************)
EXTENDS LosTask, ListLemmas, FiniteSetTheorems

WellFormed(k) == k \in SchedState /\ SpecialTasks(k) /\ BitmapMatches(k)

\* Nobody waits in r where nobody waited in k.
NoNewWaiter(k, r) == \A o \in WaitList : k.pend[o] = <<>> => r.pend[o] = <<>>

\* What an operation that does not block the caller preserves.
Keeps(k, r) == WellFormed(r) /\ NoNewWaiter(k, r)

LEMMA KeepsTrans ==
    ASSUME NEW k, NEW m, NEW r, Keeps(k, m), Keeps(m, r)
    PROVE  Keeps(k, r)
  BY DEF Keeps, NoNewWaiter

-----------------------------------------------------------------------------
(* Lists. *)

\* LOS_ListDelete of a node leaves a list, and an empty one empty.
LEMMA UnlinkType ==
    ASSUME NEW S, NEW s \in Seq(S), NEW t
    PROVE  Unlink(s, t) \in Seq(S) /\ (s = <<>> => Unlink(s, t) = <<>>)
<1>1. CASE \E i \in 1 .. Len(s) : s[i] = t
  <2> DEFINE I == {i \in 1 .. Len(s) : s[i] = t}
             j == CHOOSE x \in I : \A y \in I : x =< y
  <2>1. I \in SUBSET Nat /\ I # {}
    BY <1>1
  <2>2. \E x \in I : \A y \in I : x =< y
    BY <2>1, MinOfNats
  <2>3. j \in I
    BY <2>2
  <2>4. Unlink(s, t) = SubSeq(s, 1, j - 1) \o SubSeq(s, j + 1, Len(s))
    BY <1>1, <2>1 DEF Unlink, RemoveFirst, RemoveAt, SelectInSeq, Min
  <2>5. j \in 1 .. Len(s)
    BY <2>3
  <2> HIDE DEF j, I
  <2>6. j - 1 \in 0 .. Len(s) /\ j + 1 \in 1 .. Len(s) + 1
    BY <2>5
  <2>7. SubSeq(s, 1, j - 1) \in Seq(S) /\ SubSeq(s, j + 1, Len(s)) \in Seq(S)
    BY <2>6, PartOfSeq
  <2> QED BY <1>1, <2>4, <2>7
<1>2. CASE ~ \E i \in 1 .. Len(s) : s[i] = t
  BY <1>2 DEF Unlink, RemoveFirst
<1> QED BY <1>1, <1>2

\* So does the insertion at a position of the list.
LEMMA InsertAtType ==
    ASSUME NEW S, NEW s \in Seq(S), NEW t \in S, NEW i \in 1 .. Len(s) + 1
    PROVE  InsertAt(s, i, t) \in Seq(S)
<1>1. i - 1 \in 0 .. Len(s)
  OBVIOUS
<1>2. SubSeq(s, 1, i - 1) \in Seq(S) /\ SubSeq(s, i, Len(s)) \in Seq(S)
  BY <1>1, PartOfSeq
<1> QED BY <1>2 DEF InsertAt

-----------------------------------------------------------------------------
(* The ready queues. *)

LEMMA EnHeadKeeps ==
    ASSUME NEW k, WellFormed(k), NEW t \in Task
    PROVE  Keeps(k, OsSchedPriQueueEnHead(k, t))
<1> DEFINE p == k.priority[t]
           s == <<t>> \o k.ready[p]
           r == [k EXCEPT !.queueBitmap = IF k.ready[p] = <<>> THEN @ \cup {p} ELSE @,
                          !.ready[p] = s]
<1>1. k \in SchedState /\ p \in Prio
  BY DEF WellFormed, SpecialTasks
<1>2. s \in Seq(Task) /\ s # <<>>
  BY <1>1 DEF SchedState
<1>3. OsSchedPriQueueEnHead(k, t) = r
  BY DEF OsSchedPriQueueEnHead
<1> HIDE DEF p, s
<1>4. r \in SchedState
  BY <1>1, <1>2 DEF SchedState
<1>5. BitmapMatches(r)
  BY <1>1, <1>2 DEF WellFormed, SchedState, BitmapMatches
<1>6. SpecialTasks(r) /\ r.pend = k.pend
  BY <1>1 DEF WellFormed, SchedState, SpecialTasks
<1> QED BY <1>3, <1>4, <1>5, <1>6 DEF Keeps, WellFormed, NoNewWaiter

LEMMA EnTailKeeps ==
    ASSUME NEW k, WellFormed(k), NEW t \in Task
    PROVE  Keeps(k, OsSchedPriQueueEnTail(k, t))
<1> DEFINE p == k.priority[t]
           s == Append(k.ready[p], t)
           r == [k EXCEPT !.queueBitmap = IF k.ready[p] = <<>> THEN @ \cup {p} ELSE @,
                          !.ready[p] = s]
<1>1. k \in SchedState /\ p \in Prio
  BY DEF WellFormed, SpecialTasks
<1>2. s \in Seq(Task) /\ s # <<>>
  <2>1. k.ready[p] \in Seq(Task)
    BY <1>1 DEF SchedState
  <2> QED BY <2>1, AppendProperties
<1>3. OsSchedPriQueueEnTail(k, t) = r
  BY DEF OsSchedPriQueueEnTail
<1> HIDE DEF p, s
<1>4. r \in SchedState
  BY <1>1, <1>2 DEF SchedState
<1>5. BitmapMatches(r)
  BY <1>1, <1>2 DEF WellFormed, SchedState, BitmapMatches
<1>6. SpecialTasks(r) /\ r.pend = k.pend
  BY <1>1 DEF WellFormed, SchedState, SpecialTasks
<1> QED BY <1>3, <1>4, <1>5, <1>6 DEF Keeps, WellFormed, NoNewWaiter

LEMMA PriQueueDeleteKeeps ==
    ASSUME NEW k, WellFormed(k), NEW t \in Task
    PROVE  /\ Keeps(k, OsSchedPriQueueDelete(k, t))
           /\ OsSchedPriQueueDelete(k, t).status = k.status
<1> DEFINE p == k.priority[t]
           s == Unlink(k.ready[p], t)
           r == [k EXCEPT !.queueBitmap = IF s = <<>> THEN @ \ {p} ELSE @,
                          !.ready[p] = s]
<1>1. k \in SchedState /\ p \in Prio
  BY DEF WellFormed, SpecialTasks
<1>2. s \in Seq(Task) /\ (k.ready[p] = <<>> => s = <<>>)
  <2>1. k.ready[p] \in Seq(Task)
    BY <1>1 DEF SchedState
  <2> QED BY <2>1, UnlinkType
<1>3. OsSchedPriQueueDelete(k, t) = r
  BY DEF OsSchedPriQueueDelete
<1> HIDE DEF p, s
<1>4. r \in SchedState
  BY <1>1, <1>2 DEF SchedState
<1>5. BitmapMatches(r)
  BY <1>1, <1>2 DEF WellFormed, SchedState, BitmapMatches
<1>6. SpecialTasks(r) /\ r.pend = k.pend /\ r.status = k.status
  BY <1>1 DEF WellFormed, SchedState, SpecialTasks
<1> QED BY <1>3, <1>4, <1>5, <1>6 DEF Keeps, WellFormed, NoNewWaiter

\* The fields that the bitmap, the special TCBs and the wait lists are not in.
LEMMA OtherFieldsKeep ==
    ASSUME NEW k, WellFormed(k), NEW r \in SchedState,
           r.status = k.status, r.priority = k.priority, r.ready = k.ready,
           r.queueBitmap = k.queueBitmap, r.pend = k.pend
    PROVE  Keeps(k, r)
  BY DEF Keeps, WellFormed, NoNewWaiter, SpecialTasks, BitmapMatches

\* A new status that fits the TCB.
Fits(t, S) ==
    /\ S \in SUBSET Flag
    /\ t = Idle => S \subseteq {"READY", "RUNNING", "STACK_FREE"}
    /\ t = Boot => "UNUSED" \in S /\ S \cap {"READY", "DELAY", "PEND_TIME"} = {}

LEMMA StatusKeeps ==
    ASSUME NEW k, WellFormed(k), NEW t \in TCB, NEW S, Fits(t, S)
    PROVE  /\ Keeps(k, [k EXCEPT !.status[t] = S])
           /\ [k EXCEPT !.status[t] = S].status[t] = S
<1> DEFINE r == [k EXCEPT !.status[t] = S]
<1>1. k \in SchedState /\ S \in SUBSET Flag
  BY DEF WellFormed, Fits
<1>2. r \in SchedState /\ r.status[t] = S
  BY <1>1 DEF SchedState
<1>3. \A u \in TCB \ {t} : r.status[u] = k.status[u]
  BY <1>1 DEF SchedState
<1>4. /\ r.priority = k.priority /\ r.ready = k.ready
      /\ r.queueBitmap = k.queueBitmap /\ r.pend = k.pend
  BY <1>1 DEF SchedState
<1> HIDE DEF r
<1>5. SpecialTasks(r)
  BY <1>2, <1>3, <1>4 DEF WellFormed, SpecialTasks, Fits, TCB
<1>6. BitmapMatches(r)
  BY <1>4 DEF WellFormed, BitmapMatches
<1>7. Keeps(k, r)
  BY <1>2, <1>4, <1>5, <1>6 DEF Keeps, WellFormed, NoNewWaiter
<1> QED BY <1>2, <1>7 DEF r

LEMMA ReadyQueueInKeeps ==
    ASSUME NEW k, WellFormed(k), NEW t \in Task \cup {Idle}
    PROVE  /\ Keeps(k, ReadyQueueIn(k, t))
           /\ ReadyQueueIn(k, t).status = k.status
<1>1. CASE t = Idle
  BY <1>1 DEF ReadyQueueIn, Keeps, NoNewWaiter
<1>2. CASE t # Idle /\ k.timeSlice[t] > 0
  <2>1. ReadyQueueIn(k, t) = OsSchedPriQueueEnHead(k, t)
    BY <1>2 DEF ReadyQueueIn
  <2>2. OsSchedPriQueueEnHead(k, t).status = k.status
    BY DEF OsSchedPriQueueEnHead, WellFormed, SchedState
  <2> QED BY <1>2, <2>1, <2>2, EnHeadKeeps
<1>3. CASE t # Idle /\ ~(k.timeSlice[t] > 0)
  <2> DEFINE m == OsSchedPriQueueEnTail(k, t)
             r == [m EXCEPT !.timeSlice[t] = TimeSlice]
  <2>1. ReadyQueueIn(k, t) = r
    BY <1>3 DEF ReadyQueueIn
  <2>2. Keeps(k, m)
    BY <1>3, EnTailKeeps
  <2>3. m.status = k.status
    BY DEF OsSchedPriQueueEnTail, WellFormed, SchedState
  <2> HIDE DEF m
  <2>4. m \in SchedState /\ WellFormed(m)
    BY <2>2 DEF Keeps, WellFormed
  <2>5. /\ r \in SchedState /\ r.status = m.status /\ r.priority = m.priority
        /\ r.ready = m.ready /\ r.queueBitmap = m.queueBitmap /\ r.pend = m.pend
    <3>1. TimeSlice \in 0 .. TimeSlice
      BY SchedAssumption
    <3> QED BY <2>4, <3>1 DEF SchedState
  <2> HIDE DEF r
  <2>6. Keeps(m, r)
    BY <2>4, <2>5, OtherFieldsKeep
  <2> QED BY <2>1, <2>2, <2>3, <2>5, <2>6, KeepsTrans
<1> QED BY <1>1, <1>2, <1>3

LEMMA EnQueueKeeps ==
    ASSUME NEW k, WellFormed(k), NEW t \in Task \cup {Idle}
    PROVE  Keeps(k, OsSchedTaskEnQueue(k, t))
<1>1. CASE "READY" \in k.status[t]
  <2> DEFINE r == [k EXCEPT !.panic = TRUE]
  <2>1. /\ r \in SchedState /\ r.status = k.status /\ r.priority = k.priority
        /\ r.ready = k.ready /\ r.queueBitmap = k.queueBitmap /\ r.pend = k.pend
    BY DEF WellFormed, SchedState
  <2>2. OsSchedTaskEnQueue(k, t) = r
    BY <1>1 DEF OsSchedTaskEnQueue
  <2> QED BY <2>1, <2>2, OtherFieldsKeep
<1>2. CASE "READY" \notin k.status[t]
  <2> DEFINE m == ReadyQueueIn(k, t)
             S == (m.status[t] \ {"PEND", "SUSPEND", "DELAY", "PEND_TIME"}) \cup {"READY"}
  <2>1. OsSchedTaskEnQueue(k, t) = [m EXCEPT !.status[t] = S]
    BY <1>2 DEF OsSchedTaskEnQueue
  <2>2. Keeps(k, m)
    BY ReadyQueueInKeeps
  <2>3. WellFormed(m)
    BY <2>2 DEF Keeps
  <2> HIDE DEF m
  <2>4. m.status[t] \in SUBSET Flag
    BY <2>3 DEF WellFormed, SchedState, TCB
  <2>5. t \in TCB /\ t # Boot
    BY SchedAssumption DEF TCB
  <2>6. Fits(t, S)
    BY <2>3, <2>4, <2>5 DEF Fits, Flag, WellFormed, SpecialTasks
  <2> HIDE DEF S
  <2> QED BY <2>1, <2>2, <2>3, <2>5, <2>6, StatusKeeps, KeepsTrans
<1> QED BY <1>1, <1>2

\* A task that is dequeued is not ready, and keeps its other flags.
LEMMA DeQueueKeeps ==
    ASSUME NEW k, WellFormed(k), NEW t \in Task \cup {Idle}
    PROVE  /\ Keeps(k, OsSchedTaskDeQueue(k, t))
           /\ OsSchedTaskDeQueue(k, t).status[t] = k.status[t] \ {"READY"}
<1>0. t \in TCB /\ t # Boot /\ k.status[t] \in SUBSET Flag
  BY SchedAssumption DEF TCB, WellFormed, SchedState
<1>1. CASE "READY" \in k.status[t]
  <2> DEFINE m == IF t = Idle THEN k ELSE OsSchedPriQueueDelete(k, t)
             S == m.status[t] \ {"READY"}
  <2>1. OsSchedTaskDeQueue(k, t) = [m EXCEPT !.status[t] = S]
    BY <1>1 DEF OsSchedTaskDeQueue
  <2>2. Keeps(k, m) /\ m.status = k.status
    <3>1. CASE t = Idle
      BY <3>1 DEF Keeps, NoNewWaiter
    <3>2. CASE t # Idle
      BY <3>2, PriQueueDeleteKeeps
    <3> QED BY <3>1, <3>2
  <2>3. WellFormed(m)
    BY <2>2 DEF Keeps
  <2> HIDE DEF m
  <2>4. Fits(t, S)
    BY <1>0, <2>2, <2>3 DEF Fits, WellFormed, SpecialTasks
  <2>5. S = k.status[t] \ {"READY"}
    BY <2>2
  <2> HIDE DEF S
  <2> QED BY <1>0, <2>1, <2>2, <2>3, <2>4, <2>5, StatusKeeps, KeepsTrans
<1>2. CASE "READY" \notin k.status[t]
  BY <1>2 DEF OsSchedTaskDeQueue, Keeps, NoNewWaiter
<1> QED BY <1>1, <1>2

\* The bitmap leads to a queue that has a task, or there is only the idle task.
LEMMA TopTaskType ==
    ASSUME NEW k, WellFormed(k)
    PROVE  OsGetTopTask(k) \in Task \cup {Idle}
<1>1. CASE k.queueBitmap = {}
  BY <1>1 DEF OsGetTopTask
<1>2. CASE k.queueBitmap # {}
  <2> DEFINE p == CHOOSE x \in k.queueBitmap : \A y \in k.queueBitmap : x <= y
  <2>1. k.queueBitmap \in SUBSET Nat
    BY SchedAssumption DEF WellFormed, SchedState, Prio
  <2>2. p \in k.queueBitmap
    BY <1>2, <2>1, MinOfNats
  <2>3. OsGetTopTask(k) = Head(k.ready[p])
    BY <1>2 DEF OsGetTopTask
  <2> HIDE DEF p
  <2>4. p \in Prio /\ k.ready[p] # <<>> /\ k.ready[p] \in Seq(Task)
    BY <2>2 DEF WellFormed, SchedState, BitmapMatches
  <2> QED BY <2>3, <2>4
<1> QED BY <1>1, <1>2

-----------------------------------------------------------------------------
(* The sort link. *)

LEMMA SortLinkPosType ==
    ASSUME NEW k, k.sortLink \in Seq(Task), NEW d
    PROVE  SortLinkPos(k, d) \in 1 .. Len(k.sortLink) + 1
<1> DEFINE s == k.sortLink
           I == {i \in 1 .. Len(s) : k.due[s[i]] <= d}
<1>1. CASE s = <<>>
  BY <1>1 DEF SortLinkPos
<1>2. CASE s # <<>> /\ k.due[Head(s)] > d
  BY <1>2 DEF SortLinkPos
<1>3. CASE s # <<>> /\ ~(k.due[Head(s)] > d) /\ k.due[Head(s)] = d
  <2>1. SortLinkPos(k, d) = 2
    BY <1>3 DEF SortLinkPos
  <2>2. Len(s) >= 1
    BY <1>3
  <2> QED BY <2>1, <2>2
<1>4. CASE s # <<>> /\ ~(k.due[Head(s)] > d) /\ k.due[Head(s)] # d
  <2> DEFINE j == IF I # {} THEN CHOOSE x \in I : \A y \in I : x >= y ELSE 0
  <2>1. SortLinkPos(k, d) = 1 + j
    BY <1>4 DEF SortLinkPos, SelectLastInSeq, Max
  <2>2. Len(s) \in Nat
    OBVIOUS
  <2>3. j \in 0 .. Len(s)
    <3>1. CASE I = {}
      BY <2>2, <3>1
    <3>2. CASE I # {}
      <4>1. \E x \in I : \A y \in I : x >= y
        BY <2>2, <3>2, MaxOfInterval
      <4>2. j \in I
        BY <3>2, <4>1
      <4>3. I \subseteq 0 .. Len(s)
        BY <2>2
      <4> QED BY <4>2, <4>3
    <3> QED BY <3>1, <3>2
  <2> HIDE DEF j, I
  <2> QED BY <2>1, <2>2, <2>3
<1> QED BY <1>1, <1>2, <1>3, <1>4

LEMMA Add2SortLinkKeeps ==
    ASSUME NEW k, WellFormed(k), NEW t \in Task
    PROVE  Keeps(k, OsAdd2SortLink(k, t)) /\ OsAdd2SortLink(k, t).run = k.run
<1> DEFINE d == k.waitTimes[t]
           s == InsertAt(k.sortLink, SortLinkPos(k, d), t)
           r == [k EXCEPT !.sortLink = s, !.due[t] = d, !.waitTimes[t] = 0]
<1>1. k \in SchedState /\ t \in TCB
  BY DEF WellFormed, TCB
<1>2. d \in 0 .. MaxDelay /\ k.sortLink \in Seq(Task)
  BY <1>1 DEF SchedState
<1>3. s \in Seq(Task)
  BY <1>2, SortLinkPosType, InsertAtType
<1>4. d \in -1 .. MaxDelay /\ 0 \in 0 .. MaxDelay
  BY <1>2, SchedAssumption
<1>5. OsAdd2SortLink(k, t) = r
  BY DEF OsAdd2SortLink
<1> HIDE DEF s, d
<1>6. r \in SchedState
  BY <1>1, <1>3, <1>4 DEF SchedState
<1>7. /\ r.status = k.status /\ r.priority = k.priority /\ r.ready = k.ready
      /\ r.queueBitmap = k.queueBitmap /\ r.pend = k.pend /\ r.run = k.run
  BY <1>1 DEF SchedState
<1> QED BY <1>5, <1>6, <1>7, OtherFieldsKeep

LEMMA DeleteNodeSortLinkKeeps ==
    ASSUME NEW k, WellFormed(k), NEW t \in TCB
    PROVE  /\ Keeps(k, OsDeleteNodeSortLink(k, t))
           /\ OsDeleteNodeSortLink(k, t).status = k.status
<1> DEFINE s == Unlink(k.sortLink, t)
           r == [k EXCEPT !.sortLink = s, !.due[t] = NoTime]
<1>1. k \in SchedState
  BY DEF WellFormed
<1>2. s \in Seq(Task)
  <2>1. k.sortLink \in Seq(Task)
    BY <1>1 DEF SchedState
  <2> QED BY <2>1, UnlinkType
<1>3. NoTime \in -1 .. MaxDelay
  BY SchedAssumption DEF NoTime
<1>4. OsDeleteNodeSortLink(k, t) = r
  BY DEF OsDeleteNodeSortLink
<1> HIDE DEF s
<1>5. r \in SchedState
  BY <1>1, <1>2, <1>3 DEF SchedState
<1>6. /\ r.status = k.status /\ r.priority = k.priority /\ r.ready = k.ready
      /\ r.queueBitmap = k.queueBitmap /\ r.pend = k.pend
  BY <1>1 DEF SchedState
<1> QED BY <1>4, <1>5, <1>6, OtherFieldsKeep

LEMMA DeleteSortLinkKeeps ==
    ASSUME NEW k, WellFormed(k), NEW t \in TCB
    PROVE  /\ Keeps(k, OsDeleteSortLink(k, t))
           /\ OsDeleteSortLink(k, t).status = k.status
<1>1. Keeps(k, k)
  BY DEF Keeps, NoNewWaiter
<1> QED BY <1>1, DeleteNodeSortLinkKeeps DEF OsDeleteSortLink

-----------------------------------------------------------------------------
(* Blocking, waking, suspending and leaving. *)

\* Flags taken away from a task of the application.
LEMMA DropFlagsKeeps ==
    ASSUME NEW k, WellFormed(k), NEW t \in Task, NEW F
    PROVE  Keeps(k, [k EXCEPT !.status[t] = @ \ F])
<1>1. t \in TCB /\ Fits(t, k.status[t] \ F)
  BY SchedAssumption DEF TCB, Fits, WellFormed, SchedState
<1> QED BY <1>1, StatusKeeps

\* Flags given to it.
LEMMA AddFlagsKeeps ==
    ASSUME NEW k, WellFormed(k), NEW t \in Task, NEW F \in SUBSET Flag
    PROVE  Keeps(k, [k EXCEPT !.status[t] = @ \cup F])
<1>1. t \in TCB /\ Fits(t, k.status[t] \cup F)
  BY SchedAssumption DEF TCB, Fits, WellFormed, SchedState
<1> QED BY <1>1, StatusKeeps

LEMMA LeaveWaitListKeeps ==
    ASSUME NEW k, WellFormed(k), NEW t
    PROVE  /\ Keeps(k, LeaveWaitList(k, t))
           /\ LeaveWaitList(k, t).status = k.status
<1> DEFINE w == [o \in WaitList |-> Unlink(k.pend[o], t)]
           r == [k EXCEPT !.pend = w]
<1>1. k \in SchedState
  BY DEF WellFormed
<1>2. w \in [WaitList -> Seq(Task)] /\ \A o \in WaitList : k.pend[o] = <<>> => w[o] = <<>>
  <2>1. \A o \in WaitList : k.pend[o] \in Seq(Task)
    BY <1>1 DEF SchedState
  <2> QED BY <2>1, UnlinkType
<1>3. LeaveWaitList(k, t) = r
  BY DEF LeaveWaitList
<1> HIDE DEF w
<1>4. r \in SchedState
  BY <1>1, <1>2 DEF SchedState
<1>5. /\ r.status = k.status /\ r.priority = k.priority /\ r.ready = k.ready
      /\ r.queueBitmap = k.queueBitmap /\ r.pend = w
  BY <1>1 DEF SchedState
<1> QED BY <1>2, <1>3, <1>4, <1>5
        DEF Keeps, NoNewWaiter, WellFormed, SpecialTasks, BitmapMatches

LEMMA KeepsSelf == ASSUME NEW k, WellFormed(k) PROVE Keeps(k, k)
  BY DEF Keeps, NoNewWaiter

LEMMA KeepsWellFormed == ASSUME NEW k, NEW r, Keeps(k, r) PROVE WellFormed(r)
  BY DEF Keeps

LEMMA YieldKeeps ==
    ASSUME NEW k, WellFormed(k)
    PROVE  Keeps(k, OsSchedYield(k))
<1> DEFINE r == [k EXCEPT !.timeSlice[k.run] = 0]
<1>1. /\ r \in SchedState /\ r.status = k.status /\ r.priority = k.priority
      /\ r.ready = k.ready /\ r.queueBitmap = k.queueBitmap /\ r.pend = k.pend
  <2>1. 0 \in 0 .. TimeSlice
    BY SchedAssumption
  <2> QED BY <2>1 DEF WellFormed, SchedState
<1> QED BY <1>1, OtherFieldsKeep DEF OsSchedYield

LEMMA WaitTimesKeep ==
    ASSUME NEW k, WellFormed(k), NEW t, NEW d \in 0 .. MaxDelay
    PROVE  Keeps(k, [k EXCEPT !.waitTimes[t] = d])
<1> DEFINE r == [k EXCEPT !.waitTimes[t] = d]
<1>1. /\ r \in SchedState /\ r.status = k.status /\ r.priority = k.priority
      /\ r.ready = k.ready /\ r.queueBitmap = k.queueBitmap /\ r.pend = k.pend
  BY DEF WellFormed, SchedState
<1> QED BY <1>1, OtherFieldsKeep

LEMMA DelayKeeps ==
    ASSUME NEW k, WellFormed(k), k.run \in Task, NEW ticks \in 0 .. MaxDelay
    PROVE  Keeps(k, OsSchedDelay(k, ticks))
<1> DEFINE m == [k EXCEPT !.status[k.run] = @ \cup {"DELAY"}]
<1>1. Keeps(k, m)
  BY AddFlagsKeeps DEF Flag
<1>2. m.run = k.run /\ OsSchedDelay(k, ticks) = [m EXCEPT !.waitTimes[k.run] = ticks]
  BY DEF OsSchedDelay, WellFormed, SchedState
<1> HIDE DEF m
<1> QED BY <1>1, <1>2, WaitTimesKeep, KeepsTrans, KeepsWellFormed

\* Only the list that the running task joins gets a new waiter.
LEMMA TaskWaitKeeps ==
    ASSUME NEW k, WellFormed(k), k.run \in Task, NEW list \in WaitList,
           NEW ticks \in (0 .. MaxDelay) \cup {NoTime}
    PROVE  /\ WellFormed(OsSchedTaskWait(k, list, ticks))
           /\ \A o \in WaitList \ {list} :
                 OsSchedTaskWait(k, list, ticks).pend[o] = k.pend[o]
<1> DEFINE m == [k EXCEPT !.status[k.run] = @ \cup {"PEND"}]
           s == Append(k.pend[list], k.run)
           w == [m EXCEPT !.pend[list] = s]
           v == [w EXCEPT !.status[k.run] = @ \cup {"PEND_TIME"}]
<1>1. Keeps(k, m) /\ m.pend = k.pend
  BY AddFlagsKeeps DEF Flag, WellFormed, SchedState
<1>2. s \in Seq(Task)
  <2>1. k.pend[list] \in Seq(Task)
    BY DEF WellFormed, SchedState
  <2> QED BY <2>1, AppendProperties
<1>3. OsSchedTaskWait(k, list, ticks) =
        IF ticks = NoTime THEN w ELSE [v EXCEPT !.waitTimes[k.run] = ticks]
  BY DEF OsSchedTaskWait
<1>4. WellFormed(m)
  BY <1>1 DEF Keeps
<1> HIDE DEF m, s
<1>5. w \in SchedState /\ w.run = m.run /\ w.pend = [m.pend EXCEPT ![list] = s]
  BY <1>2, <1>4 DEF WellFormed, SchedState
<1>6. /\ w.status = m.status /\ w.priority = m.priority /\ w.ready = m.ready
      /\ w.queueBitmap = m.queueBitmap
  BY <1>4 DEF WellFormed, SchedState
<1> HIDE DEF w
<1>7. WellFormed(w)
  BY <1>4, <1>5, <1>6 DEF WellFormed, SpecialTasks, BitmapMatches
<1>8. \A o \in WaitList \ {list} : w.pend[o] = k.pend[o]
  BY <1>1, <1>4, <1>5 DEF WellFormed, SchedState
<1>9. CASE ticks = NoTime
  BY <1>3, <1>7, <1>8, <1>9
<1>10. CASE ticks # NoTime
  <2>1. ticks \in 0 .. MaxDelay
    BY <1>10
  <2>2. WellFormed(v) /\ v.pend = w.pend
    <3>1. Keeps(w, v)
      BY <1>7, AddFlagsKeeps DEF Flag
    <3> QED BY <1>5, <3>1, KeepsWellFormed DEF SchedState
  <2> HIDE DEF v
  <2>3. WellFormed([v EXCEPT !.waitTimes[k.run] = ticks])
    BY <2>1, <2>2, WaitTimesKeep, KeepsWellFormed
  <2>4. [v EXCEPT !.waitTimes[k.run] = ticks].pend = v.pend
    BY <2>2 DEF WellFormed, SchedState
  <2> QED BY <1>3, <1>8, <1>10, <2>2, <2>3, <2>4
<1> QED BY <1>9, <1>10

LEMMA ClearPendTimeKeeps ==
    ASSUME NEW k, WellFormed(k), NEW t \in Task
    PROVE  Keeps(k, ClearPendTime(k, t))
<1> DEFINE m == OsDeleteSortLink(k, t)
<1>1. Keeps(k, m)
  BY DeleteSortLinkKeeps DEF TCB
<1>2. Keeps(m, [m EXCEPT !.status[t] = @ \ {"PEND_TIME"}])
  BY <1>1, DropFlagsKeeps, KeepsWellFormed
<1> HIDE DEF m
<1>3. ClearPendTime(k, t) = IF "PEND_TIME" \in k.status[t]
                            THEN [m EXCEPT !.status[t] = @ \ {"PEND_TIME"}] ELSE k
  BY DEF ClearPendTime, m
<1> QED BY <1>1, <1>2, <1>3, KeepsTrans, KeepsSelf

LEMMA TaskWakeKeeps ==
    ASSUME NEW k, WellFormed(k), NEW t \in Task
    PROVE  Keeps(k, OsSchedTaskWake(k, t))
<1> DEFINE k0 == LeaveWaitList(k, t)
           k1 == [k0 EXCEPT !.status[t] = @ \ {"PEND"}]
           k2 == ClearPendTime(k1, t)
<1>1. Keeps(k, k0)
  BY LeaveWaitListKeeps
<1>2. Keeps(k0, k1)
  BY <1>1, DropFlagsKeeps, KeepsWellFormed
<1>3. Keeps(k1, k2)
  BY <1>2, ClearPendTimeKeeps, KeepsWellFormed
<1>4. Keeps(k2, OsSchedTaskEnQueue(k2, t))
  BY <1>3, EnQueueKeeps, KeepsWellFormed
<1>5. OsSchedTaskWake(k, t) = IF Has(k2, t, {"SUSPEND", "RUNNING"}) THEN k2
                              ELSE OsSchedTaskEnQueue(k2, t)
  BY DEF OsSchedTaskWake
<1> HIDE DEF k0, k1, k2
<1>6. Keeps(k, k2)
  BY <1>1, <1>2, <1>3, KeepsTrans
<1> QED BY <1>4, <1>5, <1>6, KeepsTrans

LEMMA WakePendTimeTaskKeeps ==
    ASSUME NEW k, WellFormed(k), NEW t \in Task
    PROVE  Keeps(k, OsSchedWakePendTimeTask(k, t))
<1> DEFINE k1 == [k EXCEPT !.status[t] = @ \ {"PEND", "PEND_TIME", "DELAY"}]
           m  == LeaveWaitList(k1, t)
           w  == [m EXCEPT !.status[t] = @ \cup {"TIMEOUT"}]
           k2 == IF Has(k, t, {"PEND"}) THEN w ELSE k1
<1>1. Keeps(k, k1)
  BY DropFlagsKeeps
<1>2. Keeps(k1, m)
  BY <1>1, LeaveWaitListKeeps, KeepsWellFormed
<1>3. Keeps(m, w)
  BY <1>2, AddFlagsKeeps, KeepsWellFormed DEF Flag
<1>4. OsSchedWakePendTimeTask(k, t) = IF ~Has(k, t, {"PEND", "DELAY"}) THEN k
                                      ELSE IF Has(k, t, {"SUSPEND"}) THEN k2
                                      ELSE OsSchedTaskEnQueue(k2, t)
  BY DEF OsSchedWakePendTimeTask
<1> HIDE DEF k1, m, w
<1>5. Keeps(k, k2)
  BY <1>1, <1>2, <1>3, KeepsTrans
<1> HIDE DEF k2
<1>6. Keeps(k, OsSchedTaskEnQueue(k2, t))
  BY <1>5, EnQueueKeeps, KeepsWellFormed, KeepsTrans
<1> QED BY <1>4, <1>5, <1>6, KeepsSelf

LEMMA SuspendKeeps ==
    ASSUME NEW k, WellFormed(k), NEW t \in Task
    PROVE  Keeps(k, OsSchedSuspend(k, t))
<1> DEFINE m == OsSchedTaskDeQueue(k, t)
<1>1. Keeps(k, m)
  BY DeQueueKeeps
<1>2. OsSchedSuspend(k, t) = [m EXCEPT !.status[t] = @ \cup {"SUSPEND"}]
  BY DEF OsSchedSuspend
<1> HIDE DEF m
<1>3. Keeps(m, [m EXCEPT !.status[t] = @ \cup {"SUSPEND"}])
  BY <1>1, AddFlagsKeeps, KeepsWellFormed DEF Flag
<1> QED BY <1>1, <1>2, <1>3, KeepsTrans

LEMMA ResumeKeeps ==
    ASSUME NEW k, WellFormed(k), NEW t \in Task
    PROVE  Keeps(k, OsSchedResume(k, t))
<1> DEFINE m == [k EXCEPT !.status[t] = @ \ {"SUSPEND"}]
<1>1. Keeps(k, m)
  BY DropFlagsKeeps
<1>2. OsSchedResume(k, t) = IF ResumeNeedSched(k, t) THEN OsSchedTaskEnQueue(m, t) ELSE m
  BY DEF OsSchedResume
<1> HIDE DEF m
<1> QED BY <1>1, <1>2, EnQueueKeeps, KeepsWellFormed, KeepsTrans

LEMMA PriorityKeeps ==
    ASSUME NEW k, WellFormed(k), NEW t \in Task, NEW p \in Prio
    PROVE  Keeps(k, [k EXCEPT !.priority[t] = p])
<1> DEFINE r == [k EXCEPT !.priority[t] = p]
<1>1. p \in 0 .. Lowest + 1
  BY SchedAssumption DEF Prio
<1>2. r \in SchedState
  BY <1>1 DEF WellFormed, SchedState
<1>3. /\ r.status = k.status /\ r.ready = k.ready
      /\ r.queueBitmap = k.queueBitmap /\ r.pend = k.pend
  BY DEF WellFormed, SchedState
<1>4. \A u \in Task \cup {Idle} : r.priority[u] \in Prio
  BY DEF WellFormed, SchedState, SpecialTasks, TCB
<1> QED BY <1>2, <1>3, <1>4
        DEF Keeps, WellFormed, NoNewWaiter, SpecialTasks, BitmapMatches

LEMMA ModifyTaskSchedParamKeeps ==
    ASSUME NEW k, WellFormed(k), NEW t \in Task, NEW p \in Prio
    PROVE  Keeps(k, OsSchedModifyTaskSchedParam(k, t, p))
<1> DEFINE m == OsSchedTaskDeQueue(k, t)
           r == [m EXCEPT !.priority[t] = p]
<1>1. Keeps(k, m)
  BY DeQueueKeeps
<1>2. Keeps(m, r)
  BY <1>1, PriorityKeeps, KeepsWellFormed
<1>3. OsSchedModifyTaskSchedParam(k, t, p) =
        IF "READY" \in k.status[t] THEN OsSchedTaskEnQueue(r, t)
        ELSE [k EXCEPT !.priority[t] = p]
  BY DEF OsSchedModifyTaskSchedParam
<1> HIDE DEF m, r
<1>4. Keeps(k, OsSchedTaskEnQueue(r, t))
  BY <1>1, <1>2, EnQueueKeeps, KeepsWellFormed, KeepsTrans
<1> QED BY <1>3, <1>4, PriorityKeeps

\* The running task is the same after a change of a priority, whose ever it is.
LEMMA ModifyTaskSchedParamRun ==
    ASSUME NEW k, WellFormed(k), NEW t \in Task, NEW p \in Prio
    PROVE  OsSchedModifyTaskSchedParam(k, t, p).run = k.run
<1> DEFINE m == OsSchedTaskDeQueue(k, t)
           r == [m EXCEPT !.priority[t] = p]
<1>1. Keeps(k, m) /\ WellFormed(m)
  BY DeQueueKeeps, KeepsWellFormed
<1>2. m.run = k.run
  BY DEF OsSchedTaskDeQueue, OsSchedPriQueueDelete, WellFormed, SchedState
<1>3. Keeps(m, r) /\ WellFormed(r)
  BY <1>1, PriorityKeeps, KeepsWellFormed
<1>4. r.run = m.run
  BY <1>1 DEF WellFormed, SchedState
<1>5. OsSchedModifyTaskSchedParam(k, t, p) =
        IF "READY" \in k.status[t] THEN OsSchedTaskEnQueue(r, t)
        ELSE [k EXCEPT !.priority[t] = p]
  BY DEF OsSchedModifyTaskSchedParam
<1> HIDE DEF m, r
<1>6. OsSchedTaskEnQueue(r, t).run = r.run
  BY <1>3 DEF OsSchedTaskEnQueue, ReadyQueueIn, OsSchedPriQueueEnHead,
              OsSchedPriQueueEnTail, WellFormed, SchedState
<1>7. [k EXCEPT !.priority[t] = p].run = k.run
  BY DEF WellFormed, SchedState
<1> QED BY <1>2, <1>4, <1>5, <1>6, <1>7

\* A task that exits is neither ready nor has it a timeout.
LEMMA TaskExitKeeps ==
    ASSUME NEW k, WellFormed(k), NEW t \in Task
    PROVE  /\ Keeps(k, OsSchedTaskExit(k, t))
           /\ OsSchedTaskExit(k, t).status[t] \cap {"READY", "DELAY", "PEND_TIME"} = {}
<1> DEFINE d  == OsSchedTaskDeQueue(k, t)
           m  == LeaveWaitList(k, t)
           w  == [m EXCEPT !.status[t] = @ \ {"PEND"}]
           k1 == IF Has(k, t, {"READY"}) THEN d ELSE IF Has(k, t, {"PEND"}) THEN w ELSE k
           n  == OsDeleteSortLink(k1, t)
           v  == [n EXCEPT !.status[t] = @ \ {"DELAY", "PEND_TIME"}]
           k2 == IF Has(k1, t, {"DELAY", "PEND_TIME"}) THEN v ELSE k1
           r  == [k2 EXCEPT !.status[t] = @ \cup {"EXIT"}]
<1>0. t \in TCB
  BY DEF TCB
<1>1. OsSchedTaskExit(k, t) = r
  BY DEF OsSchedTaskExit
<1>2. Keeps(k, d) /\ d.status[t] = k.status[t] \ {"READY"}
  BY DeQueueKeeps
<1>3. Keeps(k, m) /\ m.status = k.status /\ WellFormed(m)
  BY LeaveWaitListKeeps, KeepsWellFormed
<1>4. Keeps(m, w) /\ w.status[t] = m.status[t] \ {"PEND"}
  <2> HIDE DEF m
  <2>1. Keeps(m, w)
    BY <1>3, DropFlagsKeeps
  <2> QED BY <1>0, <1>3, <2>1 DEF WellFormed, SchedState
<1> HIDE DEF d, m, w
<1>5. Keeps(k, k1) /\ "READY" \notin k1.status[t]
  BY <1>2, <1>3, <1>4, KeepsTrans, KeepsSelf DEF Has
<1> HIDE DEF k1
<1>6. Keeps(k1, n) /\ n.status = k1.status /\ WellFormed(n)
  BY <1>0, <1>5, DeleteSortLinkKeeps, KeepsWellFormed
<1> HIDE DEF n
<1>7. Keeps(n, v) /\ v.status[t] = n.status[t] \ {"DELAY", "PEND_TIME"}
  <2>1. Keeps(n, v)
    BY <1>6, DropFlagsKeeps
  <2> QED BY <1>0, <1>6, <2>1 DEF WellFormed, SchedState
<1> HIDE DEF v
<1>8. Keeps(k, k2) /\ WellFormed(k2)
  BY <1>5, <1>6, <1>7, KeepsTrans, KeepsWellFormed
<1>9. k2.status[t] \cap {"READY", "DELAY", "PEND_TIME"} = {}
  BY <1>5, <1>6, <1>7 DEF Has
<1> HIDE DEF k2
<1>10. Keeps(k2, r) /\ r.status[t] = k2.status[t] \cup {"EXIT"}
  <2>1. Keeps(k2, r)
    BY <1>8, AddFlagsKeeps DEF Flag
  <2> QED BY <1>0, <1>8, <2>1 DEF WellFormed, SchedState
<1> QED BY <1>1, <1>8, <1>9, <1>10, KeepsTrans

-----------------------------------------------------------------------------
(* Scheduling. *)

\* The fields that say what runs.
LEMMA PendSVKeeps ==
    ASSUME NEW k, WellFormed(k), NEW b \in BOOLEAN
    PROVE  Keeps(k, [k EXCEPT !.pendSV = b])
<1> DEFINE r == [k EXCEPT !.pendSV = b]
<1>1. /\ r \in SchedState /\ r.status = k.status /\ r.priority = k.priority
      /\ r.ready = k.ready /\ r.queueBitmap = k.queueBitmap /\ r.pend = k.pend
  BY DEF WellFormed, SchedState
<1> QED BY <1>1, OtherFieldsKeep

LEMMA TickKeeps ==
    ASSUME NEW k, WellFormed(k), NEW b \in BOOLEAN
    PROVE  Keeps(k, [k EXCEPT !.tick = b])
<1> DEFINE r == [k EXCEPT !.tick = b]
<1>1. /\ r \in SchedState /\ r.status = k.status /\ r.priority = k.priority
      /\ r.ready = k.ready /\ r.queueBitmap = k.queueBitmap /\ r.pend = k.pend
  BY DEF WellFormed, SchedState
<1> QED BY <1>1, OtherFieldsKeep

LEMMA RunKeeps ==
    ASSUME NEW k, WellFormed(k), NEW t \in TCB
    PROVE  Keeps(k, [k EXCEPT !.run = t])
<1> DEFINE r == [k EXCEPT !.run = t]
<1>1. /\ r \in SchedState /\ r.status = k.status /\ r.priority = k.priority
      /\ r.ready = k.ready /\ r.queueBitmap = k.queueBitmap /\ r.pend = k.pend
  BY DEF WellFormed, SchedState
<1> QED BY <1>1, OtherFieldsKeep

LEMMA ScheduleKeeps ==
    ASSUME NEW k, WellFormed(k)
    PROVE  Keeps(k, LOS_Schedule(k))
  BY PendSVKeeps, KeepsSelf DEF LOS_Schedule

\* The task that the processor is given to.
LEMMA RunningKeeps ==
    ASSUME NEW k, WellFormed(k), NEW n \in Task \cup {Idle}
    PROVE  Keeps(k, [k EXCEPT !.status[n] = @ \cup {"RUNNING"}, !.run = n])
<1> DEFINE S == k.status[n] \cup {"RUNNING"}
           m == [k EXCEPT !.status[n] = S]
<1>1. n \in TCB /\ Fits(n, S)
  BY SchedAssumption DEF TCB, Fits, Flag, WellFormed, SchedState, SpecialTasks
<1>2. Keeps(k, m)
  BY <1>1, StatusKeeps
<1>3. [k EXCEPT !.status[n] = @ \cup {"RUNNING"}, !.run = n] = [m EXCEPT !.run = n]
  OBVIOUS
<1> HIDE DEF m
<1> QED BY <1>1, <1>2, <1>3, RunKeeps, KeepsTrans, KeepsWellFormed

LEMMA StartKeeps ==
    ASSUME NEW k, WellFormed(k)
    PROVE  Keeps(k, OsSchedStart(k))
<1> DEFINE n  == OsGetTopTask(k)
           k1 == [k EXCEPT !.status[n] = @ \cup {"RUNNING"}, !.run = n]
           d  == OsSchedTaskDeQueue(k1, n)
           r  == [d EXCEPT !.started = TRUE]
<1>1. n \in Task \cup {Idle}
  BY TopTaskType
<1>2. OsSchedStart(k) = r
  BY DEF OsSchedStart
<1> HIDE DEF n
<1>3. Keeps(k, k1)
  BY <1>1, RunningKeeps
<1> HIDE DEF k1
<1>4. Keeps(k1, d)
  BY <1>1, <1>3, DeQueueKeeps, KeepsWellFormed
<1> HIDE DEF d
<1>5. WellFormed(d)
  BY <1>4, KeepsWellFormed
<1>6. /\ r \in SchedState /\ r.status = d.status /\ r.priority = d.priority
      /\ r.ready = d.ready /\ r.queueBitmap = d.queueBitmap /\ r.pend = d.pend
  BY <1>5 DEF WellFormed, SchedState
<1>7. Keeps(d, r)
  BY <1>5, <1>6, OtherFieldsKeep
<1> QED BY <1>2, <1>3, <1>4, <1>7, KeepsTrans

LEMMA PutBackKeeps ==
    ASSUME NEW k, WellFormed(k)
    PROVE  Keeps(k, PutBack(k))
<1>1. CASE Has(k, k.run, {"PEND_TIME", "DELAY"})
  <2>1. k.run \in Task
    BY <1>1 DEF Has, TCB, WellFormed, SchedState, SpecialTasks
  <2> QED BY <1>1, <2>1, Add2SortLinkKeeps DEF PutBack
<1>2. CASE ~Has(k, k.run, {"PEND_TIME", "DELAY"}) /\ ~Has(k, k.run, OS_TASK_BLOCKED_STATUS)
  <2>1. k.run \in Task \cup {Idle}
    BY <1>2 DEF Has, OS_TASK_BLOCKED_STATUS, TCB, WellFormed, SchedState, SpecialTasks
  <2> QED BY <1>2, <2>1, EnQueueKeeps DEF PutBack
<1>3. CASE ~Has(k, k.run, {"PEND_TIME", "DELAY"}) /\ Has(k, k.run, OS_TASK_BLOCKED_STATUS)
  BY <1>3, KeepsSelf DEF PutBack
<1> QED BY <1>1, <1>2, <1>3

LEMMA TaskSwitchKeeps ==
    ASSUME NEW k, WellFormed(k)
    PROVE  Keeps(k, OsSchedTaskSwitch(k))
<1> DEFINE k1 == PutBack(k)
           n  == OsGetTopTask(k1)
           S  == k1.status[k.run] \ {"RUNNING"}
           k2 == [k1 EXCEPT !.status[k.run] = S]
           k3 == [k2 EXCEPT !.status[n] = @ \cup {"RUNNING"}, !.run = n]
           d  == OsSchedTaskDeQueue(k3, n)
           r  == [d EXCEPT !.pendSV = FALSE]
<1>1. Keeps(k, k1) /\ WellFormed(k1)
  BY PutBackKeeps, KeepsWellFormed
<1>2. OsSchedTaskSwitch(k) = IF k1.panic THEN k1 ELSE r
  BY DEF OsSchedTaskSwitch
<1>3. k.run \in TCB
  BY DEF WellFormed, SchedState
<1> HIDE DEF k1
<1>4. n \in Task \cup {Idle}
  BY <1>1, TopTaskType
<1> HIDE DEF n
<1>5. Fits(k.run, S)
  BY <1>1, <1>3 DEF Fits, WellFormed, SchedState, SpecialTasks
<1>6. Keeps(k1, k2) /\ WellFormed(k2)
  BY <1>1, <1>3, <1>5, StatusKeeps, KeepsWellFormed
<1> HIDE DEF k2
<1>7. Keeps(k2, k3) /\ WellFormed(k3)
  BY <1>4, <1>6, RunningKeeps, KeepsWellFormed
<1> HIDE DEF k3
<1>8. Keeps(k3, d) /\ WellFormed(d)
  BY <1>4, <1>7, DeQueueKeeps, KeepsWellFormed
<1> HIDE DEF d
<1>9. Keeps(d, r)
  BY <1>8, PendSVKeeps
<1> HIDE DEF r
<1>10. Keeps(k, r)
  BY <1>1, <1>6, <1>7, <1>8, <1>9, KeepsTrans
<1> QED BY <1>1, <1>2, <1>10

LEMMA TimeSliceUpdateKeeps ==
    ASSUME NEW k, WellFormed(k), NEW used \in Nat
    PROVE  Keeps(k, OsTimeSliceUpdate(k, used))
<1> DEFINE x == IF k.timeSlice[k.run] >= used THEN k.timeSlice[k.run] - used ELSE 0
           r == [k EXCEPT !.timeSlice[k.run] = x]
<1>1. x \in 0 .. TimeSlice
  <2>1. k.timeSlice[k.run] \in 0 .. TimeSlice
    BY DEF WellFormed, SchedState
  <2> QED BY <2>1, SchedAssumption
<1>2. OsTimeSliceUpdate(k, used) = IF k.run = Idle THEN k ELSE r
  BY DEF OsTimeSliceUpdate
<1> HIDE DEF x
<1>3. /\ r \in SchedState /\ r.status = k.status /\ r.priority = k.priority
      /\ r.ready = k.ready /\ r.queueBitmap = k.queueBitmap /\ r.pend = k.pend
  BY <1>1 DEF WellFormed, SchedState
<1> QED BY <1>2, <1>3, OtherFieldsKeep, KeepsSelf

LEMMA ElapseKeeps ==
    ASSUME NEW k, WellFormed(k)
    PROVE  Keeps(k, Elapse(k))
<1> DEFINE d == [t \in TCB |-> IF k.due[t] > 0 THEN k.due[t] - 1 ELSE k.due[t]]
           r == [k EXCEPT !.due = d]
<1>1. d \in [TCB -> -1 .. MaxDelay]
  <2>1. \A t \in TCB : k.due[t] \in -1 .. MaxDelay
    BY DEF WellFormed, SchedState
  <2>2. MaxDelay \in Nat
    BY SchedAssumption
  <2> QED BY <2>1, <2>2
<1>2. Elapse(k) = r
  BY DEF Elapse
<1> HIDE DEF d
<1>3. /\ r \in SchedState /\ r.status = k.status /\ r.priority = k.priority
      /\ r.ready = k.ready /\ r.queueBitmap = k.queueBitmap /\ r.pend = k.pend
  BY <1>1 DEF WellFormed, SchedState
<1> QED BY <1>2, <1>3, OtherFieldsKeep

-----------------------------------------------------------------------------
(* What the functions leave alone: only LOS_Start, LOS_Schedule and the    *)
(* context switch change what runs, what is locked or what is pending.     *)

SameControl(k, r) ==
    r.run = k.run /\ r.lock = k.lock /\ r.pendSV = k.pendSV /\ r.started = k.started

LEMMA EnQueueControl ==
    ASSUME NEW k, WellFormed(k), NEW t
    PROVE  SameControl(k, OsSchedTaskEnQueue(k, t))
  BY DEF SameControl, OsSchedTaskEnQueue, ReadyQueueIn, OsSchedPriQueueEnHead,
         OsSchedPriQueueEnTail, WellFormed, SchedState

LEMMA DeQueueControl ==
    ASSUME NEW k, WellFormed(k), NEW t
    PROVE  SameControl(k, OsSchedTaskDeQueue(k, t))
  BY DEF SameControl, OsSchedTaskDeQueue, OsSchedPriQueueDelete, WellFormed, SchedState

LEMMA SortLinkControl ==
    ASSUME NEW k, WellFormed(k), NEW t
    PROVE  /\ SameControl(k, OsDeleteNodeSortLink(k, t))
           /\ SameControl(k, OsDeleteSortLink(k, t))
           /\ SameControl(k, OsAdd2SortLink(k, t))
  BY DEF SameControl, OsDeleteSortLink, OsDeleteNodeSortLink, OsAdd2SortLink,
         WellFormed, SchedState

LEMMA TaskWakeControl ==
    ASSUME NEW k, WellFormed(k), NEW t \in Task
    PROVE  SameControl(k, OsSchedTaskWake(k, t))
<1> DEFINE k0 == LeaveWaitList(k, t)
           k1 == [k0 EXCEPT !.status[t] = @ \ {"PEND"}]
           k2 == ClearPendTime(k1, t)
<1>1. WellFormed(k1) /\ SameControl(k, k1)
  <2>1. WellFormed(k0)
    BY LeaveWaitListKeeps, KeepsWellFormed
  <2>2. WellFormed(k1)
    BY <2>1, DropFlagsKeeps, KeepsWellFormed
  <2> QED BY <2>2 DEF SameControl, LeaveWaitList, WellFormed, SchedState
<1>2. OsSchedTaskWake(k, t) = IF Has(k2, t, {"SUSPEND", "RUNNING"}) THEN k2
                              ELSE OsSchedTaskEnQueue(k2, t)
  BY DEF OsSchedTaskWake
<1> HIDE DEF k1
<1>3. WellFormed(k2)
  BY <1>1, ClearPendTimeKeeps, KeepsWellFormed
<1>4. SameControl(k1, k2)
  BY <1>1 DEF SameControl, ClearPendTime, OsDeleteSortLink, OsDeleteNodeSortLink,
              WellFormed, SchedState
<1> HIDE DEF k2
<1> QED BY <1>1, <1>2, <1>3, <1>4, EnQueueControl DEF SameControl

LEMMA WakePendTimeTaskControl ==
    ASSUME NEW k, WellFormed(k), NEW t \in Task
    PROVE  SameControl(k, OsSchedWakePendTimeTask(k, t))
<1> DEFINE k1 == [k EXCEPT !.status[t] = @ \ {"PEND", "PEND_TIME", "DELAY"}]
           m  == LeaveWaitList(k1, t)
           w  == [m EXCEPT !.status[t] = @ \cup {"TIMEOUT"}]
           k2 == IF Has(k, t, {"PEND"}) THEN w ELSE k1
<1>1. WellFormed(k1) /\ SameControl(k, k1)
  <2>1. SameControl(k, k1)
    BY DEF SameControl, WellFormed, SchedState
  <2> QED BY <2>1, DropFlagsKeeps, KeepsWellFormed
<1>2. OsSchedWakePendTimeTask(k, t) = IF ~Has(k, t, {"PEND", "DELAY"}) THEN k
                                      ELSE IF Has(k, t, {"SUSPEND"}) THEN k2
                                      ELSE OsSchedTaskEnQueue(k2, t)
  BY DEF OsSchedWakePendTimeTask
<1> HIDE DEF k1
<1>3. WellFormed(m) /\ SameControl(k1, m)
  <2>1. SameControl(k1, m)
    BY <1>1 DEF SameControl, LeaveWaitList, WellFormed, SchedState
  <2> QED BY <1>1, <2>1, LeaveWaitListKeeps, KeepsWellFormed
<1> HIDE DEF m
<1>4. WellFormed(w) /\ SameControl(m, w)
  <2>1. SameControl(m, w)
    BY <1>3 DEF SameControl, WellFormed, SchedState
  <2> QED BY <1>3, <2>1, AddFlagsKeeps, KeepsWellFormed DEF Flag
<1> HIDE DEF w
<1>5. WellFormed(k2) /\ SameControl(k, k2)
  BY <1>1, <1>3, <1>4 DEF SameControl
<1> HIDE DEF k2
<1>6. SameControl(k, OsSchedTaskEnQueue(k2, t))
  BY <1>5, EnQueueControl DEF SameControl
<1> QED BY <1>2, <1>5, <1>6 DEF SameControl

LEMMA SuspendResumeControl ==
    ASSUME NEW k, WellFormed(k), NEW t
    PROVE  SameControl(k, OsSchedSuspend(k, t)) /\ SameControl(k, OsSchedResume(k, t))
  BY DEF SameControl, OsSchedSuspend, OsSchedResume, OsSchedTaskDeQueue,
         OsSchedPriQueueDelete, OsSchedTaskEnQueue, ReadyQueueIn,
         OsSchedPriQueueEnHead, OsSchedPriQueueEnTail, WellFormed, SchedState

LEMMA ModifyControl ==
    ASSUME NEW k, WellFormed(k), NEW t \in Task, NEW p \in Prio
    PROVE  SameControl(k, OsSchedModifyTaskSchedParam(k, t, p))
<1> DEFINE d == OsSchedTaskDeQueue(k, t)
           r == [d EXCEPT !.priority[t] = p]
<1>1. SameControl(k, d) /\ WellFormed(d)
  BY DeQueueControl, DeQueueKeeps, KeepsWellFormed
<1>2. OsSchedModifyTaskSchedParam(k, t, p) =
        IF "READY" \in k.status[t] THEN OsSchedTaskEnQueue(r, t)
        ELSE [k EXCEPT !.priority[t] = p]
  BY DEF OsSchedModifyTaskSchedParam
<1> HIDE DEF d
<1>3. SameControl(d, r) /\ WellFormed(r)
  <2>1. WellFormed(r)
    BY <1>1, PriorityKeeps, KeepsWellFormed
  <2> QED BY <1>1, <2>1 DEF SameControl, WellFormed, SchedState
<1> HIDE DEF r
<1>4. SameControl(k, [k EXCEPT !.priority[t] = p])
  BY DEF SameControl, WellFormed, SchedState
<1> QED BY <1>1, <1>2, <1>3, <1>4, EnQueueControl DEF SameControl

LEMMA TaskExitControl ==
    ASSUME NEW k, WellFormed(k), NEW t \in Task
    PROVE  SameControl(k, OsSchedTaskExit(k, t))
<1> DEFINE m  == LeaveWaitList(k, t)
           w  == [m EXCEPT !.status[t] = @ \ {"PEND"}]
           d  == OsSchedTaskDeQueue(k, t)
           k1 == IF Has(k, t, {"READY"}) THEN d ELSE IF Has(k, t, {"PEND"}) THEN w ELSE k
           n  == OsDeleteSortLink(k1, t)
           v  == [n EXCEPT !.status[t] = @ \ {"DELAY", "PEND_TIME"}]
           k2 == IF Has(k1, t, {"DELAY", "PEND_TIME"}) THEN v ELSE k1
<1>1. OsSchedTaskExit(k, t) = [k2 EXCEPT !.status[t] = @ \cup {"EXIT"}]
  BY DEF OsSchedTaskExit
<1>2. SameControl(k, w) /\ WellFormed(w)
  <2>1. WellFormed(m)
    BY LeaveWaitListKeeps, KeepsWellFormed
  <2>2. WellFormed(w)
    BY <2>1, DropFlagsKeeps, KeepsWellFormed
  <2> QED BY <2>2 DEF SameControl, LeaveWaitList, WellFormed, SchedState
<1>3. SameControl(k, d) /\ WellFormed(d)
  BY DeQueueControl, DeQueueKeeps, KeepsWellFormed
<1> HIDE DEF w, d
<1>4. SameControl(k, k1) /\ WellFormed(k1)
  BY <1>2, <1>3 DEF SameControl
<1> HIDE DEF k1
<1>5. SameControl(k1, n) /\ WellFormed(n)
  BY <1>4, SortLinkControl, DeleteSortLinkKeeps, KeepsWellFormed DEF TCB
<1> HIDE DEF n
<1>6. SameControl(n, v) /\ WellFormed(v)
  <2>1. WellFormed(v)
    BY <1>5, DropFlagsKeeps, KeepsWellFormed
  <2> QED BY <1>5, <2>1 DEF SameControl, WellFormed, SchedState
<1> HIDE DEF v
<1>7. SameControl(k, k2) /\ WellFormed(k2)
  BY <1>4, <1>5, <1>6 DEF SameControl
<1> HIDE DEF k2
<1> QED BY <1>1, <1>7 DEF SameControl, WellFormed, SchedState

LEMMA TimeControl ==
    ASSUME NEW k, WellFormed(k), NEW n
    PROVE  SameControl(k, OsTimeSliceUpdate(k, n)) /\ SameControl(k, Elapse(k))
  BY DEF SameControl, OsTimeSliceUpdate, Elapse, WellFormed, SchedState

\* What the running task does to itself.
LEMMA OwnControl ==
    ASSUME NEW k, WellFormed(k), NEW list, NEW ticks
    PROVE  /\ SameControl(k, OsSchedYield(k))
           /\ SameControl(k, OsSchedDelay(k, ticks))
           /\ SameControl(k, OsSchedTaskWait(k, list, ticks))
  BY DEF SameControl, OsSchedYield, OsSchedDelay, OsSchedTaskWait, WellFormed, SchedState

-----------------------------------------------------------------------------
(* Suspension: a suspended task stays so in every function but its resume. *)

\* A status of a task that is suspended, and one that is not also ready.
Parked(S) == "SUSPEND" \in S /\ "READY" \notin S
NotBoth(S) == ~("SUSPEND" \in S /\ "READY" \in S)

StaysParked(k, r) ==
    \A x \in Task : /\ Parked(k.status[x]) => Parked(r.status[x])
                    /\ NotBoth(k.status[x]) => NotBoth(r.status[x])

LEMMA ParkedTrans ==
    ASSUME NEW k, NEW m, NEW r, StaysParked(k, m), StaysParked(m, r)
    PROVE  StaysParked(k, r)
  BY DEF StaysParked

LEMMA SameStatusParked ==
    ASSUME NEW k, NEW r, r.status = k.status
    PROVE  StaysParked(k, r)
  BY DEF StaysParked

\* One TCB gets the status S.
LEMMA StatusParked ==
    ASSUME NEW k, WellFormed(k), NEW t, NEW S, NEW r,
           r.status = [k.status EXCEPT ![t] = S],
           Parked(k.status[t]) => Parked(S), NotBoth(k.status[t]) => NotBoth(S)
    PROVE  StaysParked(k, r)
<1> SUFFICES ASSUME NEW x \in Task
             PROVE  /\ Parked(k.status[x]) => Parked(r.status[x])
                    /\ NotBoth(k.status[x]) => NotBoth(r.status[x])
  BY DEF StaysParked
<1>1. k.status \in [TCB -> SUBSET Flag] /\ x \in TCB
  BY DEF WellFormed, SchedState, TCB
<1>2. CASE x = t
  <2>1. r.status[x] = S
    BY <1>1, <1>2
  <2> QED BY <1>2, <2>1
<1>3. CASE x # t
  <2>1. r.status[x] = k.status[x]
    BY <1>1, <1>3
  <2> QED BY <2>1
<1> QED BY <1>2, <1>3

\* Flags other than these two come and go.
LEMMA FlagsParked ==
    ASSUME NEW k, WellFormed(k), NEW t, NEW F, "SUSPEND" \notin F, "READY" \notin F
    PROVE  /\ StaysParked(k, [k EXCEPT !.status[t] = @ \ F])
           /\ StaysParked(k, [k EXCEPT !.status[t] = @ \cup F])
<1> DEFINE D == k.status[t] \ F
           U == k.status[t] \cup F
<1>1. /\ Parked(k.status[t]) => Parked(D) /\ Parked(U)
      /\ NotBoth(k.status[t]) => NotBoth(D) /\ NotBoth(U)
  BY DEF Parked, NotBoth
<1> HIDE DEF D, U
<1>2. /\ [k EXCEPT !.status[t] = D].status = [k.status EXCEPT ![t] = D]
      /\ [k EXCEPT !.status[t] = U].status = [k.status EXCEPT ![t] = U]
  BY DEF WellFormed, SchedState
<1>3. /\ StaysParked(k, [k EXCEPT !.status[t] = D])
      /\ StaysParked(k, [k EXCEPT !.status[t] = U])
  BY <1>1, <1>2, StatusParked
<1> QED BY <1>3 DEF D, U

LEMMA EnQueueStatus ==
    ASSUME NEW k, WellFormed(k), NEW t \in Task \cup {Idle}
    PROVE  OsSchedTaskEnQueue(k, t).status =
             IF "READY" \in k.status[t] THEN k.status
             ELSE [k.status EXCEPT ![t] =
                     (@ \ {"PEND", "SUSPEND", "DELAY", "PEND_TIME"}) \cup {"READY"}]
<1> DEFINE m == ReadyQueueIn(k, t)
<1>1. m.status = k.status /\ WellFormed(m)
  BY ReadyQueueInKeeps, KeepsWellFormed
<1>2. OsSchedTaskEnQueue(k, t) =
        IF "READY" \in k.status[t] THEN [k EXCEPT !.panic = TRUE]
        ELSE [m EXCEPT !.status[t] =
                 (@ \ {"PEND", "SUSPEND", "DELAY", "PEND_TIME"}) \cup {"READY"}]
  BY DEF OsSchedTaskEnQueue
<1> HIDE DEF m
<1> QED BY <1>1, <1>2 DEF WellFormed, SchedState

\* The others stay where they are, and a suspended task must not be enqueued.
LEMMA EnQueueParked ==
    ASSUME NEW k, WellFormed(k), NEW t \in Task \cup {Idle}, "SUSPEND" \notin k.status[t]
    PROVE  StaysParked(k, OsSchedTaskEnQueue(k, t))
<1> DEFINE S == (k.status[t] \ {"PEND", "SUSPEND", "DELAY", "PEND_TIME"}) \cup {"READY"}
<1>1. NotBoth(S) /\ ~Parked(k.status[t])
  BY DEF Parked, NotBoth
<1>2. OsSchedTaskEnQueue(k, t).status =
        IF "READY" \in k.status[t] THEN k.status ELSE [k.status EXCEPT ![t] = S]
  BY EnQueueStatus
<1> HIDE DEF S
<1> QED BY <1>1, <1>2, StatusParked, SameStatusParked

LEMMA DeQueueParked ==
    ASSUME NEW k, WellFormed(k), NEW t \in Task \cup {Idle}
    PROVE  /\ StaysParked(k, OsSchedTaskDeQueue(k, t))
           /\ OsSchedTaskDeQueue(k, t).status = [k.status EXCEPT ![t] = @ \ {"READY"}]
<1> DEFINE m == IF t = Idle THEN k ELSE OsSchedPriQueueDelete(k, t)
<1>1. m.status = k.status /\ WellFormed(m)
  BY PriQueueDeleteKeeps, KeepsWellFormed
<1>2. OsSchedTaskDeQueue(k, t) =
        IF "READY" \in k.status[t] THEN [m EXCEPT !.status[t] = @ \ {"READY"}] ELSE k
  BY DEF OsSchedTaskDeQueue
<1> HIDE DEF m
<1>3. k.status \in [TCB -> SUBSET Flag] /\ t \in TCB
  BY DEF WellFormed, SchedState, TCB
<1>4. OsSchedTaskDeQueue(k, t).status = [k.status EXCEPT ![t] = @ \ {"READY"}]
  <2>1. CASE "READY" \in k.status[t]
    BY <1>1, <1>2, <2>1 DEF WellFormed, SchedState
  <2>2. CASE "READY" \notin k.status[t]
    <3>1. k.status[t] \ {"READY"} = k.status[t]
      BY <2>2
    <3> QED BY <1>2, <1>3, <2>2, <3>1
  <2> QED BY <2>1, <2>2
<1> QED BY <1>3, <1>4 DEF StaysParked, Parked, NotBoth

LEMMA SortLinkParked ==
    ASSUME NEW k, WellFormed(k), NEW t \in Task
    PROVE  /\ OsDeleteSortLink(k, t).status = k.status
           /\ OsDeleteNodeSortLink(k, t).status = k.status
           /\ OsAdd2SortLink(k, t).status = k.status
  BY DEF OsDeleteSortLink, OsDeleteNodeSortLink, OsAdd2SortLink, WellFormed, SchedState

LEMMA TaskWakeParked ==
    ASSUME NEW k, WellFormed(k), NEW t \in Task
    PROVE  StaysParked(k, OsSchedTaskWake(k, t))
<1> DEFINE k0 == LeaveWaitList(k, t)
           k1 == [k0 EXCEPT !.status[t] = @ \ {"PEND"}]
           m  == OsDeleteSortLink(k1, t)
           w  == [m EXCEPT !.status[t] = @ \ {"PEND_TIME"}]
           k2 == IF "PEND_TIME" \in k1.status[t] THEN w ELSE k1
<1>1. OsSchedTaskWake(k, t) = IF Has(k2, t, {"SUSPEND", "RUNNING"}) THEN k2
                              ELSE OsSchedTaskEnQueue(k2, t)
  BY DEF OsSchedTaskWake, ClearPendTime
<1>2. WellFormed(k0) /\ StaysParked(k, k0)
  BY LeaveWaitListKeeps, KeepsWellFormed, SameStatusParked
<1> HIDE DEF k0
<1>3. WellFormed(k1) /\ StaysParked(k0, k1)
  BY <1>2, DropFlagsKeeps, KeepsWellFormed, FlagsParked
<1> HIDE DEF k1
<1>4. WellFormed(m) /\ StaysParked(k1, m)
  BY <1>3, DeleteSortLinkKeeps, KeepsWellFormed, SameStatusParked DEF TCB
<1> HIDE DEF m
<1>5. WellFormed(w) /\ StaysParked(m, w)
  BY <1>4, DropFlagsKeeps, KeepsWellFormed, FlagsParked
<1> HIDE DEF w
<1>6. WellFormed(k2) /\ StaysParked(k, k2)
  BY <1>2, <1>3, <1>4, <1>5, ParkedTrans
<1> HIDE DEF k2
<1>7. ~Has(k2, t, {"SUSPEND", "RUNNING"}) => "SUSPEND" \notin k2.status[t]
  BY DEF Has
<1> QED BY <1>1, <1>6, <1>7, EnQueueParked, ParkedTrans

LEMMA WakePendTimeTaskParked ==
    ASSUME NEW k, WellFormed(k), NEW t \in Task
    PROVE  StaysParked(k, OsSchedWakePendTimeTask(k, t))
<1> DEFINE k1 == [k EXCEPT !.status[t] = @ \ {"PEND", "PEND_TIME", "DELAY"}]
           m  == LeaveWaitList(k1, t)
           w  == [m EXCEPT !.status[t] = @ \cup {"TIMEOUT"}]
           k2 == IF Has(k, t, {"PEND"}) THEN w ELSE k1
<1>0. t \in TCB
  BY DEF TCB
<1>1. OsSchedWakePendTimeTask(k, t) = IF ~Has(k, t, {"PEND", "DELAY"}) THEN k
                                      ELSE IF Has(k, t, {"SUSPEND"}) THEN k2
                                      ELSE OsSchedTaskEnQueue(k2, t)
  BY DEF OsSchedWakePendTimeTask
<1>2. WellFormed(k1) /\ StaysParked(k, k1)
  BY DropFlagsKeeps, KeepsWellFormed, FlagsParked
<1>3. k1.status[t] \subseteq k.status[t]
  BY <1>0 DEF WellFormed, SchedState
<1> HIDE DEF k1
<1>4. WellFormed(m) /\ StaysParked(k1, m) /\ m.status = k1.status
  BY <1>2, LeaveWaitListKeeps, KeepsWellFormed, SameStatusParked
<1> HIDE DEF m
<1>5. WellFormed(w) /\ StaysParked(m, w)
  BY <1>4, AddFlagsKeeps, KeepsWellFormed, FlagsParked DEF Flag
<1>6. w.status[t] = m.status[t] \cup {"TIMEOUT"}
  BY <1>0, <1>4 DEF WellFormed, SchedState
<1> HIDE DEF w
<1>7. WellFormed(k2) /\ StaysParked(k, k2)
  BY <1>2, <1>4, <1>5, ParkedTrans
<1>8. ~Has(k, t, {"SUSPEND"}) => "SUSPEND" \notin k2.status[t]
  BY <1>3, <1>4, <1>6 DEF Has
<1> HIDE DEF k2
<1>9. StaysParked(k, k)
  BY SameStatusParked
<1> QED BY <1>1, <1>7, <1>8, <1>9, EnQueueParked, ParkedTrans

LEMMA SuspendParked ==
    ASSUME NEW k, WellFormed(k), NEW t \in Task
    PROVE  StaysParked(k, OsSchedSuspend(k, t))
<1> DEFINE d == OsSchedTaskDeQueue(k, t)
<1>1. WellFormed(d) /\ d.status = [k.status EXCEPT ![t] = @ \ {"READY"}]
  BY DeQueueParked, DeQueueKeeps, KeepsWellFormed
<1>2. OsSchedSuspend(k, t) = [d EXCEPT !.status[t] = @ \cup {"SUSPEND"}]
  BY DEF OsSchedSuspend
<1> HIDE DEF d
<1> DEFINE D == k.status[t] \ {"READY"}
           S == D \cup {"SUSPEND"}
<1>3. t \in TCB /\ k.status \in [TCB -> SUBSET Flag] /\ d.status[t] = D
  BY <1>1 DEF TCB, WellFormed, SchedState
<1>4. Parked(S) /\ NotBoth(S)
  BY DEF Parked, NotBoth
<1> HIDE DEF D
<1>5. OsSchedSuspend(k, t).status = [d.status EXCEPT ![t] = S]
  BY <1>1, <1>2, <1>3 DEF WellFormed, SchedState
<1> HIDE DEF S
<1>6. OsSchedSuspend(k, t).status = [k.status EXCEPT ![t] = S]
  BY <1>1, <1>3, <1>5
<1> QED BY <1>4, <1>6, StatusParked

\* Only the task that is resumed leaves its suspension.
LEMMA ResumeParked ==
    ASSUME NEW k, WellFormed(k), NEW t \in Task, NEW x \in Task,
           NotBoth(k.status[x])
    PROVE  /\ NotBoth(OsSchedResume(k, t).status[x])
           /\ x # t => OsSchedResume(k, t).status[x] = k.status[x]
<1> DEFINE m == [k EXCEPT !.status[t] = @ \ {"SUSPEND"}]
<1>1. OsSchedResume(k, t) = IF ResumeNeedSched(k, t) THEN OsSchedTaskEnQueue(m, t) ELSE m
  BY DEF OsSchedResume
<1>2. WellFormed(m)
  BY DropFlagsKeeps, KeepsWellFormed
<1>3. /\ m.status = [k.status EXCEPT ![t] = @ \ {"SUSPEND"}]
      /\ k.status \in [TCB -> SUBSET Flag] /\ t \in TCB /\ x \in TCB
  BY DEF WellFormed, SchedState, TCB
<1> HIDE DEF m
<1>4. OsSchedTaskEnQueue(m, t).status =
        IF "READY" \in m.status[t] THEN m.status
        ELSE [m.status EXCEPT ![t] =
                (@ \ {"PEND", "SUSPEND", "DELAY", "PEND_TIME"}) \cup {"READY"}]
  BY <1>2, EnQueueStatus
<1>5. CASE x = t
  <2>1. "SUSPEND" \notin m.status[t]
    BY <1>3
  <2>2. "SUSPEND" \notin OsSchedTaskEnQueue(m, t).status[t]
    BY <1>3, <1>4, <2>1
  <2> QED BY <1>1, <1>5, <2>1, <2>2 DEF NotBoth
<1>6. CASE x # t
  <2>1. m.status[x] = k.status[x] /\ OsSchedTaskEnQueue(m, t).status[x] = m.status[x]
    BY <1>3, <1>4, <1>6
  <2> QED BY <1>1, <1>6, <2>1
<1> QED BY <1>5, <1>6

LEMMA ModifyParked ==
    ASSUME NEW k, WellFormed(k), NEW t \in Task, NEW p \in Prio, NotBoth(k.status[t])
    PROVE  StaysParked(k, OsSchedModifyTaskSchedParam(k, t, p))
<1> DEFINE d == OsSchedTaskDeQueue(k, t)
           r == [d EXCEPT !.priority[t] = p]
<1>1. /\ StaysParked(k, d) /\ WellFormed(d)
      /\ d.status = [k.status EXCEPT ![t] = @ \ {"READY"}]
  BY DeQueueParked, DeQueueKeeps, KeepsWellFormed
<1>2. OsSchedModifyTaskSchedParam(k, t, p) =
        IF "READY" \in k.status[t] THEN OsSchedTaskEnQueue(r, t)
        ELSE [k EXCEPT !.priority[t] = p]
  BY DEF OsSchedModifyTaskSchedParam
<1> HIDE DEF d
<1>3. WellFormed(r) /\ r.status = d.status
  <2>1. WellFormed(r)
    BY <1>1, PriorityKeeps, KeepsWellFormed
  <2> QED BY <1>1, <2>1 DEF WellFormed, SchedState
<1> HIDE DEF r
<1>4. CASE "READY" \in k.status[t]
  <2>1. "SUSPEND" \notin r.status[t]
    BY <1>1, <1>3, <1>4 DEF NotBoth, WellFormed, SchedState, TCB
  <2> QED BY <1>1, <1>2, <1>3, <1>4, <2>1, EnQueueParked, SameStatusParked, ParkedTrans
<1>5. CASE "READY" \notin k.status[t]
  <2>1. [k EXCEPT !.priority[t] = p].status = k.status
    BY DEF WellFormed, SchedState
  <2> QED BY <1>2, <1>5, <2>1, SameStatusParked
<1> QED BY <1>4, <1>5

LEMMA TaskExitParked ==
    ASSUME NEW k, WellFormed(k), NEW t \in Task
    PROVE  StaysParked(k, OsSchedTaskExit(k, t))
<1> DEFINE m  == LeaveWaitList(k, t)
           w  == [m EXCEPT !.status[t] = @ \ {"PEND"}]
           d  == OsSchedTaskDeQueue(k, t)
           k1 == IF Has(k, t, {"READY"}) THEN d ELSE IF Has(k, t, {"PEND"}) THEN w ELSE k
           n  == OsDeleteSortLink(k1, t)
           v  == [n EXCEPT !.status[t] = @ \ {"DELAY", "PEND_TIME"}]
           k2 == IF Has(k1, t, {"DELAY", "PEND_TIME"}) THEN v ELSE k1
<1>1. OsSchedTaskExit(k, t) = [k2 EXCEPT !.status[t] = @ \cup {"EXIT"}]
  BY DEF OsSchedTaskExit
<1>2. StaysParked(k, m) /\ WellFormed(m)
  BY LeaveWaitListKeeps, KeepsWellFormed, SameStatusParked
<1> HIDE DEF m
<1>3. StaysParked(m, w) /\ WellFormed(w)
  BY <1>2, DropFlagsKeeps, KeepsWellFormed, FlagsParked
<1>4. StaysParked(k, d) /\ WellFormed(d)
  BY DeQueueParked, DeQueueKeeps, KeepsWellFormed
<1> HIDE DEF w, d
<1>5. StaysParked(k, k1) /\ WellFormed(k1)
  <2>1. StaysParked(k, k)
    BY SameStatusParked
  <2> QED BY <1>2, <1>3, <1>4, <2>1, ParkedTrans
<1> HIDE DEF k1
<1>6. StaysParked(k1, n) /\ WellFormed(n)
  BY <1>5, SortLinkParked, SameStatusParked, DeleteSortLinkKeeps, KeepsWellFormed DEF TCB
<1> HIDE DEF n
<1>7. StaysParked(n, v) /\ WellFormed(v)
  BY <1>6, DropFlagsKeeps, KeepsWellFormed, FlagsParked
<1> HIDE DEF v
<1>8. StaysParked(k, k2) /\ WellFormed(k2)
  BY <1>5, <1>6, <1>7, ParkedTrans
<1> HIDE DEF k2
<1> QED BY <1>1, <1>8, FlagsParked, ParkedTrans

-----------------------------------------------------------------------------
(* The tasks. *)

\* Inductive: OsGetTopTask has a task only because the bitmap is right.
TaskInv == TaskTypeOK /\ BitmapMatchesQueues

\* A step of the tasks makes nobody wait on an IPC object.
NoNewObjWaiter ==
    \A o \in WaitObj : kernel.pend[o] = <<>> => kernel'.pend[o] = <<>>

LEMMA InvWellFormed == TaskInv => WellFormed(kernel)
  BY DEF TaskInv, TaskTypeOK, BitmapMatchesQueues, WellFormed

LEMMA InitInv == Init => TaskInv
<1> SUFFICES ASSUME Init PROVE TaskInv
  OBVIOUS
<1> USE SchedAssumption, TaskAssumption
<1>1. PICK freeList \in [1 .. Cardinality(Task) -> Task] :
        kernel = [
            status      |-> [t \in TCB |-> IF t = Idle THEN {"READY", "STACK_FREE"}
                                           ELSE IF t = Boot THEN {"UNUSED", "RUNNING"}
                                           ELSE {"UNUSED"}],
            priority    |-> [t \in TCB |-> IF t = Idle THEN Lowest
                                           ELSE IF t = Boot THEN Lowest + 1 ELSE 0],
            timeSlice   |-> [t \in TCB |-> 0],
            waitTimes   |-> [t \in TCB |-> 0],
            due         |-> [t \in TCB |-> IF t = Idle THEN NoTime ELSE 0],
            ready       |-> [p \in Prio |-> <<>>],
            queueBitmap |-> {},
            pend        |-> [o \in WaitList |-> <<>>],
            sortLink    |-> <<>>,
            free        |-> freeList,
            recycle     |-> <<>>,
            run         |-> Boot,
            lock        |-> 0,
            started     |-> FALSE,
            pendSV      |-> FALSE,
            tick        |-> FALSE,
            panic       |-> FALSE]
  BY DEF Init
<1>2. freeList \in Seq(Task)
  BY FS_CardinalityType
<1>3. kernel \in SchedState
  <2>1. kernel.status \in [TCB -> SUBSET Flag]
    BY <1>1 DEF Flag
  <2>2. kernel.priority \in [TCB -> 0 .. Lowest + 1]
    BY <1>1
  <2>3. kernel.due \in [TCB -> -1 .. MaxDelay]
    BY <1>1 DEF NoTime
  <2>4. kernel.timeSlice \in [TCB -> 0 .. TimeSlice] /\ kernel.waitTimes \in [TCB -> 0 .. MaxDelay]
    BY <1>1
  <2>5. kernel.ready \in [Prio -> Seq(Task)] /\ kernel.pend \in [WaitList -> Seq(Task)]
    BY <1>1
  <2>6. Boot \in TCB
    BY DEF TCB
  <2> QED BY <1>1, <1>2, <2>1, <2>2, <2>3, <2>4, <2>5, <2>6 DEF SchedState
<1>4. SpecialTasks(kernel) /\ BitmapMatches(kernel)
  BY <1>1 DEF SpecialTasks, BitmapMatches, TCB, Prio
<1>5. \A t \in TCB : todo[t] = <<>> /\ arg[t] = NoArg
  BY DEF Init
<1> QED BY <1>3, <1>4, <1>5
        DEF Init, TaskInv, TaskTypeOK, BitmapMatchesQueues, ObjectIsTask

-----------------------------------------------------------------------------
(* The shapes of the actions. *)

\* Only the kernel's state changes.
LEMMA KernelStep ==
    ASSUME TaskInv, NEW k, Keeps(kernel, k),
           kernel' = k, UNCHANGED <<todo, arg, handles>>
    PROVE  TaskInv' /\ NoNewObjWaiter
  BY DEF Keeps, WellFormed, NoNewWaiter, NoNewObjWaiter, TaskInv, TaskTypeOK,
         BitmapMatchesQueues, WaitList

\* The rest of t's call is steps on x; the kernel's state is the one of the action.
LEMMA CallStep ==
    ASSUME TaskInv, NEW t \in TCB, WellFormed(kernel'),
           NEW steps \in Seq(Step), NEW x \in WaitList \cup {NoArg},
           ObjectIsTask(steps) => x \in Task,
           todo' = [todo EXCEPT ![t] = steps],
           arg' = [arg EXCEPT ![t] = IF steps = <<>> THEN NoArg ELSE x],
           handles' \subseteq Task
    PROVE  TaskInv'
<1>1. todo' \in [TCB -> Seq(Step)] /\ arg' \in [TCB -> WaitList \cup {NoArg}]
  BY DEF TaskInv, TaskTypeOK
<1>2. \A u \in TCB : ObjectIsTask(todo'[u]) => arg'[u] \in Task
  <2>1. steps = <<>> => ~ObjectIsTask(steps)
    BY DEF ObjectIsTask
  <2> QED BY <2>1 DEF TaskInv, TaskTypeOK
<1> QED BY <1>1, <1>2 DEF WellFormed, TaskInv, TaskTypeOK, BitmapMatchesQueues

LEMMA CallKeeps ==
    ASSUME TaskInv, NEW t \in TCB, NEW k, Keeps(kernel, k),
           NEW steps \in Seq(Step), NEW x \in WaitList \cup {NoArg},
           ObjectIsTask(steps) => x \in Task,
           Call(t, k, steps, x)
    PROVE  TaskInv' /\ NoNewObjWaiter
<1>1. WellFormed(kernel') /\ NoNewObjWaiter
  BY DEF Call, Keeps, NoNewWaiter, NoNewObjWaiter, WaitList
<1>2. /\ todo' = [todo EXCEPT ![t] = steps]
      /\ arg' = [arg EXCEPT ![t] = IF steps = <<>> THEN NoArg ELSE x]
      /\ handles' \subseteq Task
  BY DEF Call, TaskInv, TaskTypeOK
<1> QED BY <1>1, <1>2, CallStep

LEMMA ContinueKeeps ==
    ASSUME TaskInv, NEW t \in TCB, todo[t] # <<>>, NEW k, Keeps(kernel, k),
           Continue(t, k)
    PROVE  TaskInv' /\ NoNewObjWaiter
<1> DEFINE steps == Tail(todo[t])
<1>1. todo[t] \in Seq(Step) /\ arg[t] \in WaitList \cup {NoArg}
  BY DEF TaskInv, TaskTypeOK
<1>2. steps \in Seq(Step)
  BY <1>1, HeadTailProperties
<1>3. ObjectIsTask(steps) => ObjectIsTask(todo[t])
  BY <1>1, HeadTailProperties DEF ObjectIsTask
<1>4. ObjectIsTask(steps) => arg[t] \in Task
  BY <1>3 DEF TaskInv, TaskTypeOK
<1>5. Call(t, k, steps, arg[t])
  BY DEF Continue
<1> HIDE DEF steps
<1> QED BY <1>1, <1>2, <1>4, <1>5, CallKeeps

\* The calls that have no object.
LEMMA PlainSteps ==
    /\ <<>> \in Seq(Step) /\ ~ObjectIsTask(<<>>)
    /\ <<"schedule">> \in Seq(Step) /\ ~ObjectIsTask(<<"schedule">>)
    /\ <<"recycle", "take">> \in Seq(Step) /\ ~ObjectIsTask(<<"recycle", "take">>)
    /\ NoArg \in WaitList \cup {NoArg}
<1>1. ~ObjectIsTask(<<>>)
  BY DEF ObjectIsTask, Step
<1>2. <<"schedule">> \in Seq(Step) /\ ~ObjectIsTask(<<"schedule">>)
  BY DEF ObjectIsTask, Step
<1>3. <<"recycle", "take">> \in Seq(Step) /\ ~ObjectIsTask(<<"recycle", "take">>)
  BY DEF ObjectIsTask, Step
<1> QED BY <1>1, <1>2, <1>3

LEMMA DoingArg ==
    ASSUME TaskInv, NEW t \in TCB, NEW step \in Step, Doing(t, step)
    PROVE  /\ todo[t] # <<>>
           /\ step \in {"enqueue", "noStack", "join", "joinReclaim"} => arg[t] \in Task
<1>1. todo[t] \in Seq(Step) /\ todo[t] # <<>> /\ todo[t][1] = step
  <2>1. todo[t] \in Seq(Step) /\ todo[t] # <<>> /\ Head(todo[t]) = step
    BY DEF Doing, TaskInv, TaskTypeOK
  <2> QED BY <2>1
<1>2. 1 \in DOMAIN todo[t]
  BY <1>1
<1> QED BY <1>1, <1>2 DEF TaskInv, TaskTypeOK, ObjectIsTask

-----------------------------------------------------------------------------
(* The operations on TCBs. *)

LEMMA InsertTCBKeeps ==
    ASSUME NEW k, WellFormed(k), NEW t \in Task
    PROVE  Keeps(k, OsInsertTCBToFreeList(k, t))
<1> DEFINE m == [k EXCEPT !.status[t] = {"UNUSED"}]
           s == <<t>> \o m.free
           r == [m EXCEPT !.priority[t] = 0, !.timeSlice[t] = 0, !.waitTimes[t] = 0,
                          !.due[t] = 0, !.pend[t] = <<>>, !.free = s]
<1>1. t \in TCB /\ Fits(t, {"UNUSED"})
  BY SchedAssumption DEF TCB, Fits, Flag
<1>2. Keeps(k, m) /\ WellFormed(m)
  BY <1>1, StatusKeeps, KeepsWellFormed
<1>3. OsInsertTCBToFreeList(k, t) = r
  BY DEF OsInsertTCBToFreeList
<1> HIDE DEF m
<1>4. s \in Seq(Task)
  BY <1>2 DEF WellFormed, SchedState
<1> HIDE DEF s
<1>5. /\ 0 \in 0 .. Lowest + 1 /\ 0 \in 0 .. TimeSlice /\ 0 \in 0 .. MaxDelay
      /\ 0 \in -1 .. MaxDelay /\ 0 \in Prio /\ <<>> \in Seq(Task)
  BY SchedAssumption DEF Prio
<1>6. r \in SchedState
  BY <1>2, <1>4, <1>5 DEF WellFormed, SchedState
<1>7. /\ r.status = m.status /\ r.ready = m.ready /\ r.queueBitmap = m.queueBitmap
      /\ r.priority = [m.priority EXCEPT ![t] = 0] /\ r.pend = [m.pend EXCEPT ![t] = <<>>]
  BY <1>2 DEF WellFormed, SchedState
<1> HIDE DEF r
<1>8. SpecialTasks(r) /\ BitmapMatches(r)
  <2>1. \A u \in Task \cup {Idle} : r.priority[u] \in Prio
    BY <1>2, <1>5, <1>7 DEF WellFormed, SchedState, SpecialTasks, TCB
  <2> QED BY <1>2, <1>7, <2>1 DEF WellFormed, SpecialTasks, BitmapMatches
<1>9. NoNewWaiter(m, r)
  BY <1>2, <1>7 DEF WellFormed, SchedState, NoNewWaiter
<1> QED BY <1>2, <1>3, <1>6, <1>8, <1>9, KeepsTrans DEF Keeps, WellFormed

LEMMA RecycleKeeps ==
    ASSUME NEW k, WellFormed(k), NEW t \in Task
    PROVE  Keeps(k, OsRecycleTaskResources(k, t))
<1> DEFINE m == [k EXCEPT !.status[t] = @ \ {"STACK_FREE"}]
<1>1. Keeps(k, m)
  BY DropFlagsKeeps
<1>2. OsRecycleTaskResources(k, t) = IF Has(k, t, {"JOINABLE"}) THEN m
                                     ELSE OsInsertTCBToFreeList(m, t)
  BY DEF OsRecycleTaskResources
<1> HIDE DEF m
<1> QED BY <1>1, <1>2, InsertTCBKeeps, KeepsWellFormed, KeepsTrans

\* A TCB taken from a list that holds tasks only.
LEMMA ListFieldKeeps ==
    ASSUME NEW k, WellFormed(k), NEW s \in Seq(Task)
    PROVE  Keeps(k, [k EXCEPT !.free = s]) /\ Keeps(k, [k EXCEPT !.recycle = s])
<1>1. ASSUME NEW r \in {[k EXCEPT !.free = s], [k EXCEPT !.recycle = s]}
      PROVE  /\ r \in SchedState /\ r.status = k.status /\ r.priority = k.priority
             /\ r.ready = k.ready /\ r.queueBitmap = k.queueBitmap /\ r.pend = k.pend
  <2>1. k \in SchedState
    BY DEF WellFormed
  <2>2. CASE r = [k EXCEPT !.free = s]
    BY <2>1, <2>2 DEF SchedState
  <2>3. CASE r = [k EXCEPT !.recycle = s]
    BY <2>1, <2>3 DEF SchedState
  <2> QED BY <2>2, <2>3
<1> QED BY <1>1, OtherFieldsKeep

LEMMA JoinPostKeeps ==
    ASSUME NEW k, WellFormed(k), NEW x \in Task
    PROVE  Keeps(k, OsTaskJoinPostUnsafe(k, x))
<1>1. CASE Has(k, x, {"JOINABLE"}) /\ k.pend[x] # <<>>
  <2>1. k.pend[x] \in Seq(Task)
    BY DEF WellFormed, SchedState, WaitList
  <2>2. Head(k.pend[x]) \in Task
    BY <1>1, <2>1
  <2> QED BY <1>1, <2>2, TaskWakeKeeps DEF OsTaskJoinPostUnsafe
<1>2. CASE ~(Has(k, x, {"JOINABLE"}) /\ k.pend[x] # <<>>)
  BY <1>2, KeepsSelf DEF OsTaskJoinPostUnsafe
<1> QED BY <1>1, <1>2

LEMMA LockKeeps ==
    ASSUME NEW k, WellFormed(k), NEW n \in Nat
    PROVE  Keeps(k, [k EXCEPT !.lock = n])
<1> DEFINE r == [k EXCEPT !.lock = n]
<1>1. /\ r \in SchedState /\ r.status = k.status /\ r.priority = k.priority
      /\ r.ready = k.ready /\ r.queueBitmap = k.queueBitmap /\ r.pend = k.pend
  BY DEF WellFormed, SchedState
<1> QED BY <1>1, OtherFieldsKeep

LEMMA ExitedKeeps ==
    ASSUME WellFormed(kernel), NEW x \in Task
    PROVE  /\ Keeps(kernel, Exited(x))
           /\ Exited(x).status[x] \cap {"READY", "DELAY", "PEND_TIME"} = {}
<1> DEFINE u == IF Has(kernel, x, {"RUNNING"}) THEN [kernel EXCEPT !.lock = 0] ELSE kernel
           j == OsTaskJoinPostUnsafe(u, x)
<1>1. Keeps(kernel, u) /\ WellFormed(u)
  <2>1. Keeps(kernel, [kernel EXCEPT !.lock = 0])
    BY LockKeeps
  <2> QED BY <2>1, KeepsSelf, KeepsWellFormed
<1>2. Exited(x) = OsSchedTaskExit(j, x)
  BY DEF Exited
<1> HIDE DEF u
<1>3. Keeps(u, j) /\ WellFormed(j)
  BY <1>1, JoinPostKeeps, KeepsWellFormed
<1> HIDE DEF j
<1> QED BY <1>1, <1>2, <1>3, TaskExitKeeps, KeepsTrans

LEMMA RunningTaskDeleteKeeps ==
    ASSUME NEW k, WellFormed(k), NEW x \in Task,
           k.status[x] \cap {"READY", "DELAY", "PEND_TIME"} = {}
    PROVE  Keeps(k, OsRunningTaskDelete(k, x))
<1> DEFINE S == k.status[x] \cup {"UNUSED"}
           a == [k EXCEPT !.status[x] = S]
           b == [a EXCEPT !.status[Boot] = S]
           s == Append(b.recycle, x)
           c == [b EXCEPT !.recycle = s]
<1>1. x \in TCB /\ Boot \in TCB /\ Fits(x, S) /\ Fits(Boot, S)
  BY SchedAssumption DEF TCB, Fits, Flag, WellFormed, SchedState
<1>2. OsRunningTaskDelete(k, x) = [c EXCEPT !.run = Boot]
  BY DEF OsRunningTaskDelete
<1> HIDE DEF S
<1>3. Keeps(k, a) /\ WellFormed(a)
  BY <1>1, StatusKeeps, KeepsWellFormed
<1> HIDE DEF a
<1>4. Keeps(a, b) /\ WellFormed(b)
  BY <1>1, <1>3, StatusKeeps, KeepsWellFormed
<1> HIDE DEF b
<1>5. s \in Seq(Task)
  BY <1>4, AppendProperties DEF WellFormed, SchedState
<1>6. Keeps(b, c) /\ WellFormed(c)
  BY <1>4, <1>5, ListFieldKeeps, KeepsWellFormed
<1> HIDE DEF c
<1>7. Keeps(c, [c EXCEPT !.run = Boot])
  BY <1>1, <1>6, RunKeeps
<1> QED BY <1>2, <1>3, <1>4, <1>6, <1>7, KeepsTrans

-----------------------------------------------------------------------------
(* The actions. *)

\* A task that holds TaskInv and is named in a call is one of the application.
LEMMA NamedIsTask ==
    ASSUME TaskInv
    PROVE  /\ kernel.run \in TCB
           /\ \A x : x \in handles => x \in Task
  BY DEF TaskInv, TaskTypeOK, SchedState

LEMMA StartStep == ASSUME TaskInv, Start PROVE TaskInv' /\ NoNewObjWaiter
  BY InvWellFormed, StartKeeps, KernelStep DEF Start

LEMMA RecycleStep ==
    ASSUME TaskInv, NEW t \in TCB, OsRecycleFinishedTask(t)
    PROVE  TaskInv' /\ NoNewObjWaiter
<1> DEFINE s == Tail(kernel.recycle)
           x == Head(kernel.recycle)
           m == [kernel EXCEPT !.recycle = s]
<1>1. s \in Seq(Task) /\ x \in Task
  <2>1. kernel.recycle \in Seq(Task) /\ kernel.recycle # <<>>
    BY DEF OsRecycleFinishedTask, TaskInv, TaskTypeOK, SchedState
  <2> QED BY <2>1, HeadTailProperties
<1>2. kernel' = OsRecycleTaskResources(m, x) /\ UNCHANGED <<todo, arg, handles>>
  BY DEF OsRecycleFinishedTask
<1> HIDE DEF s, x
<1>3. Keeps(kernel, m) /\ WellFormed(m)
  <2>1. Keeps(kernel, m)
    BY <1>1, InvWellFormed, ListFieldKeeps
  <2> QED BY <2>1, KeepsWellFormed
<1> HIDE DEF m
<1>4. Keeps(kernel, OsRecycleTaskResources(m, x))
  BY <1>1, <1>3, RecycleKeeps, KeepsTrans
<1> QED BY <1>2, <1>4, KernelStep

LEMMA CreateStep ==
    ASSUME TaskInv, NEW t \in TCB, TaskCreate(t)
    PROVE  TaskInv' /\ NoNewObjWaiter
<1>1. Call(t, kernel, <<"recycle", "take">>, NoArg)
  BY DEF TaskCreate
<1> QED BY <1>1, InvWellFormed, KeepsSelf, PlainSteps, CallKeeps

LEMMA NothingToRecycleStep ==
    ASSUME TaskInv, NEW t \in TCB, NothingToRecycle(t)
    PROVE  TaskInv' /\ NoNewObjWaiter
  BY InvWellFormed, KeepsSelf, ContinueKeeps DEF NothingToRecycle, Doing

LEMMA NoTcbStep ==
    ASSUME TaskInv, NEW t \in TCB, NoTcb(t)
    PROVE  TaskInv' /\ NoNewObjWaiter
  BY InvWellFormed, KeepsSelf, ContinueKeeps DEF NoTcb, Doing

LEMMA NoStackStep ==
    ASSUME TaskInv, NEW t \in TCB, NoStack(t)
    PROVE  TaskInv' /\ NoNewObjWaiter
<1>1. Doing(t, "noStack") /\ Continue(t, OsInsertTCBToFreeList(kernel, arg[t]))
  BY DEF NoStack
<1>2. todo[t] # <<>> /\ arg[t] \in Task
  BY <1>1, DoingArg DEF Step
<1> QED BY <1>1, <1>2, InvWellFormed, InsertTCBKeeps, ContinueKeeps

LEMMA ScheduleStep ==
    ASSUME TaskInv, NEW t \in TCB, Schedule(t)
    PROVE  TaskInv' /\ NoNewObjWaiter
  BY InvWellFormed, ScheduleKeeps, ContinueKeeps DEF Schedule, Doing

LEMMA NewTaskInitKeeps ==
    ASSUME NEW k, WellFormed(k), NEW x \in Task, NEW p \in CreatePrio, NEW joinable \in BOOLEAN
    PROVE  Keeps(k, OsNewTaskInit(k, x, p, joinable))
<1> DEFINE S == {"SUSPEND"} \cup (IF joinable THEN {"JOINABLE"} ELSE {})
           m == [k EXCEPT !.status[x] = S]
           n == [m EXCEPT !.priority[x] = p]
           r == [n EXCEPT !.timeSlice[x] = 0, !.waitTimes[x] = 0, !.due[x] = NoTime]
<1>1. x \in TCB /\ Fits(x, S) /\ p \in Prio
  BY SchedAssumption, TaskAssumption DEF TCB, Fits, Flag, Prio
<1>2. OsNewTaskInit(k, x, p, joinable) = r
  BY DEF OsNewTaskInit
<1> HIDE DEF S
<1>3. Keeps(k, m) /\ WellFormed(m)
  BY <1>1, StatusKeeps, KeepsWellFormed
<1> HIDE DEF m
<1>4. Keeps(m, n) /\ WellFormed(n)
  BY <1>1, <1>3, PriorityKeeps, KeepsWellFormed
<1> HIDE DEF n
<1>5. 0 \in 0 .. TimeSlice /\ 0 \in 0 .. MaxDelay /\ NoTime \in -1 .. MaxDelay
  BY SchedAssumption DEF NoTime
<1>6. /\ r \in SchedState /\ r.status = n.status /\ r.priority = n.priority
      /\ r.ready = n.ready /\ r.queueBitmap = n.queueBitmap /\ r.pend = n.pend
  BY <1>4, <1>5 DEF WellFormed, SchedState
<1>7. Keeps(n, r)
  BY <1>4, <1>6, OtherFieldsKeep
<1> QED BY <1>2, <1>3, <1>4, <1>7, KeepsTrans

LEMMA TakeTcbStep ==
    ASSUME TaskInv, NEW t \in TCB, TakeTcb(t)
    PROVE  TaskInv' /\ NoNewObjWaiter
<1> DEFINE x == Head(kernel.free)
           s == Tail(kernel.free)
           k == [kernel EXCEPT !.free = s]
<1>1. x \in Task /\ s \in Seq(Task)
  <2>1. kernel.free \in Seq(Task) /\ kernel.free # <<>>
    BY DEF TakeTcb, TaskInv, TaskTypeOK, SchedState
  <2> QED BY <2>1, HeadTailProperties
<1>2. PICK p \in CreatePrio, joinable \in BOOLEAN,
           rest \in {<<>>, <<"enqueue">>, <<"noStack">>} :
        /\ kernel' = [OsNewTaskInit(k, x, p, joinable) EXCEPT !.status[x] =
                         IF rest = <<"noStack">> THEN @ ELSE @ \cup {"STACK_FREE"}]
        /\ todo' = [todo EXCEPT ![t] = rest, ![x] = <<>>]
        /\ arg' = [arg EXCEPT ![t] = IF rest = <<>> THEN NoArg ELSE x, ![x] = NoArg]
        /\ handles' = IF rest = <<>> THEN handles \cup {x} ELSE handles \ {x}
  BY ZenonT(30) DEF TakeTcb
<1> DEFINE n == OsNewTaskInit(k, x, p, joinable)
           F == IF rest = <<"noStack">> THEN {} ELSE {"STACK_FREE"}
<1> HIDE DEF x, s
<1>3. Keeps(kernel, k) /\ WellFormed(k)
  <2>1. Keeps(kernel, k)
    BY <1>1, InvWellFormed, ListFieldKeeps
  <2> QED BY <2>1, KeepsWellFormed
<1> HIDE DEF k
<1>4. Keeps(k, n) /\ WellFormed(n)
  BY <1>1, <1>3, NewTaskInitKeeps, KeepsWellFormed
<1>5. kernel' = [n EXCEPT !.status[x] = @ \cup F]
  <2>1. CASE rest = <<"noStack">>
    BY <1>2, <2>1
  <2>2. CASE rest # <<"noStack">>
    BY <1>2, <2>2
  <2> QED BY <2>1, <2>2
<1> HIDE DEF n
<1>6. Keeps(n, kernel')
  <2>1. F \in SUBSET Flag
    BY DEF Flag
  <2> HIDE DEF F
  <2> QED BY <1>1, <1>4, <1>5, <2>1, AddFlagsKeeps
<1>7. Keeps(kernel, kernel')
  BY <1>3, <1>4, <1>6, KeepsTrans
<1>8. rest \in Seq(Step) /\ <<>> \in Seq(Step)
  <2>1. <<"enqueue">> \in Seq(Step)
    BY DEF Step
  <2>2. <<"noStack">> \in Seq(Step)
    BY DEF Step
  <2> QED BY <2>1, <2>2, PlainSteps
<1>9. x \in TCB /\ x \in WaitList
  BY <1>1 DEF TCB, WaitList
<1>10. /\ todo' \in [TCB -> Seq(Step)] /\ arg' \in [TCB -> WaitList \cup {NoArg}]
       /\ handles' \subseteq Task
  BY <1>1, <1>2, <1>8, <1>9 DEF TaskInv, TaskTypeOK
<1>11. \A u \in TCB : ObjectIsTask(todo'[u]) => arg'[u] \in Task
  <2>1. ~ObjectIsTask(<<>>)
    BY PlainSteps
  <2>2. todo \in [TCB -> Seq(Step)] /\ arg \in [TCB -> WaitList \cup {NoArg}]
    BY DEF TaskInv, TaskTypeOK
  <2>3. \A u \in TCB \ {t, x} : todo'[u] = todo[u] /\ arg'[u] = arg[u]
    BY <1>2, <2>2
  <2>4. todo'[x] = <<>>
    BY <1>2, <1>9, <2>2
  <2>5. t # x => todo'[t] = rest /\ (rest # <<>> => arg'[t] = x)
    BY <1>2, <2>2
  <2> QED BY <1>1, <2>1, <2>3, <2>4, <2>5 DEF TaskInv, TaskTypeOK
<1> QED BY <1>7, <1>10, <1>11 DEF Keeps, WellFormed, NoNewWaiter, NoNewObjWaiter,
           TaskInv, TaskTypeOK, BitmapMatchesQueues, WaitList

LEMMA EnqueueNewTaskStep ==
    ASSUME TaskInv, NEW t \in TCB, EnqueueNewTask(t)
    PROVE  TaskInv' /\ NoNewObjWaiter
<1> DEFINE steps == IF kernel.started THEN <<"schedule">> ELSE <<>>
<1>1. Doing(t, "enqueue")
  BY DEF EnqueueNewTask
<1>2. arg[t] \in Task
  BY <1>1, DoingArg DEF Step
<1>3. Keeps(kernel, kernel')
  BY <1>2, InvWellFormed, EnQueueKeeps DEF EnqueueNewTask
<1>4. steps \in Seq(Step) /\ ~ObjectIsTask(steps)
  BY PlainSteps
<1>5. /\ todo' = [todo EXCEPT ![t] = steps]
      /\ arg' = [arg EXCEPT ![t] = IF steps = <<>> THEN NoArg ELSE NoArg]
      /\ handles' \subseteq Task
  BY <1>2 DEF EnqueueNewTask, TaskInv, TaskTypeOK
<1> HIDE DEF steps
<1>6. TaskInv'
  BY <1>3, <1>4, <1>5, CallStep, KeepsWellFormed
<1> QED BY <1>3, <1>6 DEF Keeps, NoNewWaiter, NoNewObjWaiter, WaitList

\* What a call on the kernel's state k leaves: no step, or LOS_Schedule.
LEMMA PlainCall ==
    ASSUME TaskInv, NEW t \in TCB, NEW k, Keeps(kernel, k), NEW b \in BOOLEAN,
           Call(t, k, IF b THEN <<"schedule">> ELSE <<>>, NoArg)
    PROVE  TaskInv' /\ NoNewObjWaiter
<1> DEFINE steps == IF b THEN <<"schedule">> ELSE <<>>
<1>1. steps \in Seq(Step) /\ ~ObjectIsTask(steps)
  BY PlainSteps
<1> HIDE DEF steps
<1>2. Call(t, k, steps, NoArg)
  BY DEF steps
<1> QED BY <1>1, <1>2, PlainSteps, CallKeeps

LEMMA ResumeStep ==
    ASSUME TaskInv, NEW t \in TCB, NEW x \in Task, TaskResume(t, x)
    PROVE  TaskInv' /\ NoNewObjWaiter
<1>1. Call(t, OsSchedResume(kernel, x),
           IF ResumeNeedSched(kernel, x) THEN <<"schedule">> ELSE <<>>, NoArg)
  BY DEF TaskResume
<1>2. ResumeNeedSched(kernel, x) \in BOOLEAN
  BY DEF ResumeNeedSched
<1> QED BY <1>1, <1>2, InvWellFormed, ResumeKeeps, PlainCall

LEMMA SuspendStep ==
    ASSUME TaskInv, NEW t \in TCB, NEW x \in Task, TaskSuspend(t, x)
    PROVE  TaskInv' /\ NoNewObjWaiter
<1>1. Call(t, OsSchedSuspend(kernel, x), IF x = t THEN <<"schedule">> ELSE <<>>, NoArg)
  BY DEF TaskSuspend
<1>2. (x = t) \in BOOLEAN
  OBVIOUS
<1> QED BY <1>1, <1>2, InvWellFormed, SuspendKeeps, PlainCall

LEMMA IsrStepKeeps ==
    ASSUME TaskInv, NEW x \in Task, IsrTaskResume(x) \/ IsrTaskSuspend(x)
    PROVE  TaskInv' /\ NoNewObjWaiter
<1> DEFINE r == OsSchedResume(kernel, x)
           s == OsSchedSuspend(kernel, x)
<1>1. /\ kernel' \in {r, LOS_Schedule(r), s, LOS_Schedule(s)}
      /\ UNCHANGED <<todo, arg, handles>>
  BY DEF IsrTaskResume, IsrTaskSuspend
<1>2. Keeps(kernel, r) /\ Keeps(kernel, s)
  BY InvWellFormed, ResumeKeeps, SuspendKeeps
<1> HIDE DEF r, s
<1>3. Keeps(kernel, LOS_Schedule(r)) /\ Keeps(kernel, LOS_Schedule(s))
  BY <1>2, ScheduleKeeps, KeepsWellFormed, KeepsTrans
<1> QED BY <1>1, <1>2, <1>3, KernelStep

LEMMA JoinStep ==
    ASSUME TaskInv, NEW t \in TCB, NEW x \in Task, TaskJoin(t, x)
    PROVE  TaskInv' /\ NoNewObjWaiter
<1> DEFINE w == OsSchedTaskWait(kernel, x, NoTime)
           reclaim == <<"schedule", "joinReclaim">>
<1>1. \/ Call(t, kernel, <<>>, x) \/ Call(t, kernel, reclaim, x)
      \/ Call(t, w, reclaim, x) /\ Has(kernel, x, {"JOINABLE"})
  BY DEF TaskJoin, JoinPend
<1>2. x \in WaitList /\ x \notin WaitObj /\ Thread(t)
  BY SchedAssumption DEF WaitList, TaskJoin, App, Doing
<1>3. reclaim \in Seq(Step)
  BY DEF Step
<1> HIDE DEF reclaim
<1>4. CASE Call(t, kernel, <<>>, x)
  BY <1>2, <1>4, InvWellFormed, KeepsSelf, PlainSteps, CallKeeps
<1>5. CASE Call(t, kernel, reclaim, x)
  BY <1>2, <1>3, <1>5, InvWellFormed, KeepsSelf, CallKeeps
<1>6. CASE Call(t, w, reclaim, x)
  <2>1. kernel.run \in Task
    <3>1. kernel.run = t
      BY <1>2 DEF Thread
    <3>2. t \in Task
      BY DEF TaskJoin, App
    <3> QED BY <3>1, <3>2
  <2>2. WellFormed(w) /\ \A o \in WaitList \ {x} : w.pend[o] = kernel.pend[o]
    BY <1>2, <2>1, InvWellFormed, TaskWaitKeeps
  <2>3. /\ kernel' = w /\ todo' = [todo EXCEPT ![t] = reclaim]
        /\ arg' = [arg EXCEPT ![t] = IF reclaim = <<>> THEN NoArg ELSE x]
        /\ handles' \subseteq Task
    BY <1>6 DEF Call, TaskInv, TaskTypeOK
  <2> HIDE DEF w
  <2>4. TaskInv'
    BY <1>2, <1>3, <2>2, <2>3, CallStep
  <2>5. NoNewObjWaiter
    BY <1>2, <2>2, <2>3 DEF NoNewObjWaiter, WaitList
  <2> QED BY <2>4, <2>5
<1> QED BY <1>1, <1>4, <1>5, <1>6

LEMMA JoinReclaimStep ==
    ASSUME TaskInv, NEW t \in TCB, JoinReclaim(t)
    PROVE  TaskInv' /\ NoNewObjWaiter
<1> DEFINE x == arg[t]
           m == [kernel EXCEPT !.status[x] = @ \ {"JOINABLE"}]
<1>1. Doing(t, "joinReclaim") /\ Continue(t, OsRecycleTaskResources(m, x))
  BY DEF JoinReclaim
<1>2. todo[t] # <<>> /\ x \in Task
  BY <1>1, DoingArg DEF Step
<1>3. Keeps(kernel, m)
  BY <1>2, InvWellFormed, DropFlagsKeeps
<1> HIDE DEF m
<1>4. Keeps(kernel, OsRecycleTaskResources(m, x))
  BY <1>2, <1>3, RecycleKeeps, KeepsWellFormed, KeepsTrans
<1> QED BY <1>1, <1>2, <1>4, ContinueKeeps

LEMMA DetachStep ==
    ASSUME TaskInv, NEW t \in TCB, NEW x \in Task, TaskDetach(t, x)
    PROVE  TaskInv' /\ NoNewObjWaiter
<1> DEFINE m == [kernel EXCEPT !.status[x] = @ \ {"JOINABLE"}]
<1>1. Call(t, kernel, <<"join">>, x) \/ Call(t, m, <<>>, x)
  BY DEF TaskDetach
<1>2. x \in WaitList /\ <<"join">> \in Seq(Step)
  BY DEF WaitList, Step
<1>3. Keeps(kernel, m) /\ Keeps(kernel, kernel)
  <2>1. Keeps(kernel, m)
    BY InvWellFormed, DropFlagsKeeps
  <2> QED BY <2>1, InvWellFormed, KeepsSelf
<1> HIDE DEF m
<1>4. CASE Call(t, kernel, <<"join">>, x)
  BY <1>2, <1>3, <1>4, CallKeeps
<1>5. CASE Call(t, m, <<>>, x)
  BY <1>2, <1>3, <1>5, PlainSteps, CallKeeps
<1> QED BY <1>1, <1>4, <1>5

LEMMA DeleteSelfStep ==
    ASSUME TaskInv, NEW t \in TCB, DeleteSelf(t)
    PROVE  TaskInv' /\ NoNewObjWaiter
<1> DEFINE e == Exited(t)
           d == OsRunningTaskDelete(e, t)
<1>1. t \in Task /\ Boot \in TCB
  BY DEF DeleteSelf, App, TCB
<1>2. Call(t, e, <<"schedule">>, NoArg) \/ Call(Boot, d, <<"schedule">>, NoArg)
  BY DEF DeleteSelf
<1>3. Keeps(kernel, e) /\ e.status[t] \cap {"READY", "DELAY", "PEND_TIME"} = {}
  BY <1>1, InvWellFormed, ExitedKeeps
<1> HIDE DEF e
<1>4. Keeps(kernel, d)
  BY <1>1, <1>3, RunningTaskDeleteKeeps, KeepsWellFormed, KeepsTrans
<1> HIDE DEF d
<1> QED BY <1>1, <1>2, <1>3, <1>4, PlainSteps, CallKeeps

LEMMA DeleteOtherStep ==
    ASSUME TaskInv, NEW t \in TCB, NEW x \in Task, DeleteOther(t, x)
    PROVE  TaskInv' /\ NoNewObjWaiter
<1> DEFINE e == Exited(x)
<1>1. kernel' = OsRecycleTaskResources(e, x)
  BY DEF DeleteOther
<1>2. Keeps(kernel, e)
  BY InvWellFormed, ExitedKeeps
<1> HIDE DEF e
<1>3. Keeps(kernel, kernel')
  BY <1>1, <1>2, RecycleKeeps, KeepsWellFormed, KeepsTrans
<1>4. /\ x \in TCB /\ NoArg \in WaitList \cup {NoArg}
      /\ <<>> \in Seq(Step) /\ ~ObjectIsTask(<<>>)
  BY PlainSteps DEF TCB
<1>5. /\ todo' = [todo EXCEPT ![x] = <<>>]
      /\ arg' = [arg EXCEPT ![x] = IF <<>> = <<>> THEN NoArg ELSE NoArg]
      /\ handles' \subseteq Task
  BY DEF DeleteOther, TaskInv, TaskTypeOK
<1>6. TaskInv'
  BY <1>3, <1>4, <1>5, CallStep, KeepsWellFormed
<1> QED BY <1>3, <1>6 DEF Keeps, NoNewWaiter, NoNewObjWaiter, WaitList

LEMMA YieldStep ==
    ASSUME TaskInv, NEW t \in TCB, TaskYield(t)
    PROVE  TaskInv' /\ NoNewObjWaiter
  BY InvWellFormed, YieldKeeps, PlainSteps, CallKeeps DEF TaskYield

LEMMA DelayStep ==
    ASSUME TaskInv, NEW t \in TCB, NEW d \in Delay, TaskDelay(t, d)
    PROVE  TaskInv' /\ NoNewObjWaiter
<1> DEFINE k == IF d = 0 THEN OsSchedYield(kernel) ELSE OsSchedDelay(kernel, d)
<1>1. Call(t, k, <<"schedule">>, NoArg)
  BY DEF TaskDelay
<1>2. kernel.run \in Task /\ d \in 0 .. MaxDelay
  BY TaskAssumption DEF TaskDelay, App, Thread
<1>3. Keeps(kernel, k)
  BY <1>2, InvWellFormed, YieldKeeps, DelayKeeps
<1> HIDE DEF k
<1> QED BY <1>1, <1>3, PlainSteps, CallKeeps

LEMMA PriSetStep ==
    ASSUME TaskInv, NEW t \in TCB, NEW x \in Task, NEW p \in CreatePrio, TaskPriSet(t, x, p)
    PROVE  TaskInv' /\ NoNewObjWaiter
<1>1. Call(t, OsSchedModifyTaskSchedParam(kernel, x, p),
           IF ModifyNeedSched(kernel, x) THEN <<"schedule">> ELSE <<>>, NoArg)
  BY DEF TaskPriSet
<1>2. ModifyNeedSched(kernel, x) \in BOOLEAN /\ p \in Prio
  BY SchedAssumption, TaskAssumption DEF ModifyNeedSched, Has, Prio
<1> QED BY <1>1, <1>2, InvWellFormed, ModifyTaskSchedParamKeeps, PlainCall

LEMMA LockStep ==
    ASSUME TaskInv, NEW t \in TCB, TaskLock(t) \/ TaskUnlock(t)
    PROVE  TaskInv' /\ NoNewObjWaiter
<1> DEFINE u == [kernel EXCEPT !.lock = kernel.lock + 1]
           d == [kernel EXCEPT !.lock = kernel.lock - 1]
<1>1. kernel.lock \in Nat
  BY DEF TaskInv, TaskTypeOK, SchedState
<1>2. CASE TaskLock(t)
  <2>1. kernel' = u /\ UNCHANGED <<todo, arg, handles>>
    BY <1>2 DEF TaskLock
  <2>2. Keeps(kernel, u)
    BY <1>1, InvWellFormed, LockKeeps
  <2> QED BY <2>1, <2>2, KernelStep
<1>3. CASE TaskUnlock(t)
  <2>1. Call(t, d, IF kernel.lock = 1 THEN <<"schedule">> ELSE <<>>, NoArg)
    BY <1>3 DEF TaskUnlock
  <2>2. kernel.lock - 1 \in Nat /\ (kernel.lock = 1) \in BOOLEAN
    BY <1>1, <1>3 DEF TaskUnlock
  <2>3. Keeps(kernel, d)
    BY <2>2, InvWellFormed, LockKeeps
  <2> HIDE DEF d
  <2> QED BY <2>1, <2>2, <2>3, PlainCall
<1> QED BY <1>2, <1>3

LEMMA TimerStepKeeps ==
    ASSUME TaskInv, TimerStep
    PROVE  TaskInv' /\ NoNewObjWaiter
<1>1. CASE TickStart
  <2> DEFINE e == Elapse(kernel)
             r == [e EXCEPT !.tick = TRUE]
  <2>1. kernel' = r /\ UNCHANGED <<todo, arg, handles>>
    BY <1>1 DEF TickStart
  <2>2. Keeps(kernel, e)
    BY InvWellFormed, ElapseKeeps
  <2> HIDE DEF e
  <2>3. Keeps(e, r)
    BY <2>2, TickKeeps, KeepsWellFormed
  <2> QED BY <2>1, <2>2, <2>3, KeepsTrans, KernelStep
<1>2. CASE TickScan
  <2> DEFINE t == Head(kernel.sortLink)
             n == OsDeleteNodeSortLink(kernel, t)
  <2>1. kernel' = OsSchedWakePendTimeTask(n, t) /\ UNCHANGED <<todo, arg, handles>>
    BY <1>2 DEF TickScan
  <2>2. t \in Task /\ t \in TCB
    BY <1>2 DEF TickScan, Expired, TaskInv, TaskTypeOK, SchedState, TCB
  <2> HIDE DEF t
  <2>3. Keeps(kernel, n)
    BY <2>2, InvWellFormed, DeleteNodeSortLinkKeeps
  <2> HIDE DEF n
  <2> QED BY <2>1, <2>2, <2>3, WakePendTimeTaskKeeps, KeepsWellFormed, KeepsTrans, KernelStep
<1>3. CASE TickEnd
  <2>1. PICK used \in 0 .. 1 :
          kernel' = LOS_Schedule([OsTimeSliceUpdate(kernel, used) EXCEPT !.tick = FALSE])
    BY <1>3 DEF TickEnd
  <2> DEFINE u == OsTimeSliceUpdate(kernel, used)
             r == [u EXCEPT !.tick = FALSE]
  <2>2. Keeps(kernel, u)
    BY InvWellFormed, TimeSliceUpdateKeeps
  <2>3. kernel' = LOS_Schedule(r) /\ UNCHANGED <<todo, arg, handles>>
    BY <1>3, <2>1 DEF TickEnd
  <2> HIDE DEF u
  <2>4. Keeps(u, r)
    BY <2>2, TickKeeps, KeepsWellFormed
  <2> HIDE DEF r
  <2> QED BY <2>2, <2>3, <2>4, ScheduleKeeps, KeepsWellFormed, KeepsTrans, KernelStep
<1>4. CASE SliceEnd
  <2> DEFINE u == OsTimeSliceUpdate(kernel, kernel.timeSlice[kernel.run])
  <2>1. kernel' = LOS_Schedule(u) /\ UNCHANGED <<todo, arg, handles>>
    BY <1>4 DEF SliceEnd
  <2>2. kernel.timeSlice[kernel.run] \in Nat
    BY SchedAssumption DEF TaskInv, TaskTypeOK, SchedState
  <2>3. Keeps(kernel, u)
    BY <2>2, InvWellFormed, TimeSliceUpdateKeeps
  <2> HIDE DEF u
  <2> QED BY <2>1, <2>3, ScheduleKeeps, KeepsWellFormed, KeepsTrans, KernelStep
<1> QED BY <1>1, <1>2, <1>3, <1>4 DEF TimerStep

LEMMA PendSVStep ==
    ASSUME TaskInv, PendSV
    PROVE  TaskInv' /\ NoNewObjWaiter
<1>1. PICK used \in 0 .. 1 : kernel' = OsSchedTaskSwitch(OsTimeSliceUpdate(kernel, used))
  BY DEF PendSV
<1> DEFINE u == OsTimeSliceUpdate(kernel, used)
<1>2. Keeps(kernel, u)
  BY InvWellFormed, TimeSliceUpdateKeeps
<1>3. kernel' = OsSchedTaskSwitch(u) /\ UNCHANGED <<todo, arg, handles>>
  BY <1>1 DEF PendSV
<1> HIDE DEF u
<1> QED BY <1>2, <1>3, TaskSwitchKeeps, KeepsWellFormed, KeepsTrans, KernelStep

-----------------------------------------------------------------------------

\* Every step of the tasks, and with them of every module built on them.
LEMMA NextInv ==
    ASSUME TaskInv, TaskNext
    PROVE  TaskInv' /\ NoNewObjWaiter
<1>1. ASSUME NEW t \in TCB, TaskStep(t) PROVE TaskInv' /\ NoNewObjWaiter
  BY <1>1, RecycleStep, CreateStep, NothingToRecycleStep, TakeTcbStep, NoTcbStep,
     NoStackStep, EnqueueNewTaskStep, ScheduleStep, JoinReclaimStep, DeleteSelfStep,
     YieldStep, LockStep, DelayStep, ResumeStep, SuspendStep, JoinStep, DetachStep,
     DeleteOtherStep, PriSetStep
     DEF TaskStep
<1> QED BY <1>1, StartStep, PendSVStep, TimerStepKeeps, IsrStepKeeps DEF TaskNext, IsrStep

LEMMA StutterInv ==
    ASSUME TaskInv, UNCHANGED taskVars
    PROVE  TaskInv' /\ NoNewObjWaiter
<1>1. kernel' = kernel /\ UNCHANGED <<todo, arg, handles>>
  BY DEF taskVars
<1> QED BY <1>1, InvWellFormed, KeepsSelf, KernelStep

\* For any number of tasks and priorities and any calls, the kernel's state keeps
\* its types and the bitmap that OsGetTopTask searches matches the ready queues.
THEOREM TypeAndBitmap == TaskSpec => [](TaskTypeOK /\ BitmapMatchesQueues)
<1>1. Init => TaskInv
  BY InitInv
<1>2. TaskInv /\ [TaskNext]_taskVars => TaskInv'
  BY NextInv, StutterInv
<1>3. TaskInv => TaskTypeOK /\ BitmapMatchesQueues
  BY DEF TaskInv
<1> QED BY <1>1, <1>2, <1>3, PTL DEF TaskSpec

\* No step, an interrupt in the middle of a call included, leaves a list, a flag
\* set, a priority, a response time or the rest of a call outside its type.
THEOREM TaskTypes == TaskSpec => []TaskTypeOK
<1> QED BY TypeAndBitmap, PTL

-----------------------------------------------------------------------------
(* What gives the processor to another task, and when. *)

\* A switch is pending only while the scheduler is not locked, and until
\* LOS_Start nothing is locked, pending or switched.
ControlInv ==
    /\ kernel.pendSV => kernel.lock = 0
    /\ ~kernel.started => kernel.lock = 0 /\ kernel.run = Boot /\ ~kernel.pendSV

\* NoSwitchWhileLocked of one step.
KeepsProcessor ==
    kernel.lock > 0 /\ kernel'.run # kernel.run => DeleteSelf(kernel.run)

LEMMA TcbControl ==
    ASSUME NEW k, WellFormed(k), NEW t
    PROVE  /\ SameControl(k, OsInsertTCBToFreeList(k, t))
           /\ SameControl(k, OsRecycleTaskResources(k, t))
  BY DEF SameControl, OsRecycleTaskResources, OsInsertTCBToFreeList, WellFormed, SchedState

\* The scheduler's lock goes with the task that ends, and nothing else changes.
LEMMA ExitedControl ==
    ASSUME WellFormed(kernel), NEW x \in Task
    PROVE  /\ Exited(x).run = kernel.run /\ Exited(x).pendSV = kernel.pendSV
           /\ Exited(x).started = kernel.started
           /\ Exited(x).lock \in {kernel.lock, 0}
<1> DEFINE u == IF Has(kernel, x, {"RUNNING"}) THEN [kernel EXCEPT !.lock = 0] ELSE kernel
           j == OsTaskJoinPostUnsafe(u, x)
<1>1. /\ WellFormed(u) /\ u.run = kernel.run /\ u.pendSV = kernel.pendSV
      /\ u.started = kernel.started /\ u.lock \in {kernel.lock, 0}
  <2>1. WellFormed([kernel EXCEPT !.lock = 0])
    BY LockKeeps, KeepsWellFormed
  <2> QED BY <2>1 DEF WellFormed, SchedState
<1>2. Exited(x) = OsSchedTaskExit(j, x)
  BY DEF Exited
<1> HIDE DEF u
<1>3. WellFormed(j) /\ SameControl(u, j)
  <2>1. WellFormed(j)
    BY <1>1, JoinPostKeeps, KeepsWellFormed
  <2>2. u.pend[x] # <<>> => Head(u.pend[x]) \in Task
    <3>1. u.pend[x] \in Seq(Task)
      BY <1>1 DEF WellFormed, SchedState, WaitList
    <3> QED BY <3>1, HeadTailProperties
  <2>3. j = u \/ (Head(u.pend[x]) \in Task /\ j = OsSchedTaskWake(u, Head(u.pend[x])))
    BY <2>2 DEF OsTaskJoinPostUnsafe
  <2>4. SameControl(u, j)
    BY <1>1, <2>3, TaskWakeControl DEF SameControl
  <2> QED BY <2>1, <2>4
<1> HIDE DEF j
<1> QED BY <1>1, <1>2, <1>3, TaskExitControl DEF SameControl

-----------------------------------------------------------------------------
(* The actions of what gives the processor to another task. *)

\* A step that only asks for a switch, or takes the lock away.
LEMMA ControlStep ==
    ASSUME ControlInv, kernel'.run = kernel.run, kernel'.started = kernel.started,
           kernel'.pendSV = kernel.pendSV, kernel'.lock \in {kernel.lock, 0}
    PROVE  ControlInv' /\ KeepsProcessor
  BY DEF ControlInv, KeepsProcessor

LEMMA SameControlStep ==
    ASSUME ControlInv, SameControl(kernel, kernel')
    PROVE  ControlInv' /\ KeepsProcessor
  BY ControlStep DEF SameControl

LEMMA AskControlStep ==
    ASSUME ControlInv, NEW m, WellFormed(m), SameControl(kernel, m),
           kernel' = LOS_Schedule(m)
    PROVE  ControlInv' /\ KeepsProcessor
  BY DEF ControlInv, KeepsProcessor, SameControl, LOS_Schedule, WellFormed, SchedState

LEMMA CreationControl ==
    ASSUME TaskInv, ControlInv, NEW t \in TCB,
           \/ OsRecycleFinishedTask(t) \/ TaskCreate(t) \/ NothingToRecycle(t)
           \/ TakeTcb(t) \/ NoTcb(t) \/ NoStack(t) \/ EnqueueNewTask(t)
    PROVE  ControlInv' /\ KeepsProcessor
<1>1. WellFormed(kernel)
  BY InvWellFormed
<1>2. CASE OsRecycleFinishedTask(t)
  <2> DEFINE m == [kernel EXCEPT !.recycle = Tail(@)]
  <2>1. kernel' = OsRecycleTaskResources(m, Head(kernel.recycle))
    BY <1>2 DEF OsRecycleFinishedTask
  <2>2. Tail(kernel.recycle) \in Seq(Task)
    BY <1>1, <1>2, HeadTailProperties DEF OsRecycleFinishedTask, WellFormed, SchedState
  <2>3. WellFormed(m) /\ SameControl(kernel, m)
    BY <1>1, <2>2, ListFieldKeeps, KeepsWellFormed DEF SameControl, WellFormed, SchedState
  <2> HIDE DEF m
  <2>4. SameControl(m, kernel')
    BY <2>1, <2>3, TcbControl
  <2> QED BY <2>3, <2>4, SameControlStep DEF SameControl
<1>3. CASE TaskCreate(t) \/ NothingToRecycle(t) \/ NoTcb(t)
  BY <1>3, SameControlStep DEF TaskCreate, NothingToRecycle, NoTcb, Continue, Call, SameControl
<1>4. CASE TakeTcb(t)
  <2> DEFINE x == Head(kernel.free)
             m == [kernel EXCEPT !.free = Tail(@)]
             c(p, j) == OsNewTaskInit(m, x, p, j)
  <2>1. PICK p \in CreatePrio, j \in BOOLEAN, rest \in {<<>>, <<"enqueue">>, <<"noStack">>} :
          kernel' = [c(p, j) EXCEPT !.status[x] =
                        IF rest = <<"noStack">> THEN @ ELSE @ \cup {"STACK_FREE"}]
    BY <1>4 DEF TakeTcb
  <2>2. SameControl(kernel, m) /\ SameControl(m, c(p, j))
    BY <1>1 DEF OsNewTaskInit, SameControl, WellFormed, SchedState
  <2>3. SameControl(c(p, j), kernel')
    BY <1>1, <2>1 DEF OsNewTaskInit, SameControl, WellFormed, SchedState
  <2> HIDE DEF c, m
  <2> QED BY <2>2, <2>3, SameControlStep DEF SameControl
<1>5. CASE NoStack(t)
  BY <1>1, <1>5, TcbControl, SameControlStep DEF NoStack, Continue, Call
<1>6. CASE EnqueueNewTask(t)
  BY <1>1, <1>6, EnQueueControl, SameControlStep DEF EnqueueNewTask
<1> QED BY <1>2, <1>3, <1>4, <1>5, <1>6

LEMMA JoinControl ==
    ASSUME TaskInv, ControlInv, NEW t \in TCB,
           JoinReclaim(t) \/ \E x \in Task : TaskJoin(t, x) \/ TaskDetach(t, x)
    PROVE  ControlInv' /\ KeepsProcessor
<1>1. WellFormed(kernel)
  BY InvWellFormed
<1>2. CASE JoinReclaim(t)
  <2> DEFINE m == [kernel EXCEPT !.status[arg[t]] = @ \ {"JOINABLE"}]
  <2>1. kernel' = OsRecycleTaskResources(m, arg[t])
    BY <1>2 DEF JoinReclaim, Continue, Call
  <2>2. arg[t] \in Task
    BY <1>2, DoingArg DEF JoinReclaim, Step
  <2>3. WellFormed(m)
    BY <1>1, <2>2, DropFlagsKeeps, KeepsWellFormed
  <2>4. SameControl(kernel, m)
    BY <1>1 DEF SameControl, WellFormed, SchedState
  <2> HIDE DEF m
  <2>5. SameControl(m, kernel')
    BY <2>1, <2>3, TcbControl
  <2> QED BY <2>4, <2>5, SameControlStep DEF SameControl
<1>3. ASSUME NEW x \in Task, TaskJoin(t, x) PROVE ControlInv' /\ KeepsProcessor
  <2>1. kernel' \in {kernel, OsSchedTaskWait(kernel, x, NoTime)}
    BY <1>3 DEF TaskJoin, JoinPend, Call
  <2> QED BY <1>1, <2>1, OwnControl, SameControlStep DEF SameControl
<1>4. ASSUME NEW x \in Task, TaskDetach(t, x) PROVE ControlInv' /\ KeepsProcessor
  <2>1. SameControl(kernel, kernel')
    BY <1>1, <1>4 DEF TaskDetach, Call, SameControl, WellFormed, SchedState
  <2> QED BY <2>1, SameControlStep
<1> QED BY <1>2, <1>3, <1>4

LEMMA CallControl ==
    ASSUME TaskInv, ControlInv, NEW t \in TCB,
           \/ TaskYield(t) \/ \E d \in Delay : TaskDelay(t, d)
           \/ \E x \in Task : \/ TaskResume(t, x) \/ TaskSuspend(t, x)
                              \/ \E p \in CreatePrio : TaskPriSet(t, x, p)
    PROVE  ControlInv' /\ KeepsProcessor
<1>1. WellFormed(kernel) /\ CreatePrio \subseteq Prio
  BY InvWellFormed, TaskAssumption, SchedAssumption DEF Prio
<1>2. ASSUME NEW x \in Task, TaskResume(t, x) \/ TaskSuspend(t, x)
      PROVE  SameControl(kernel, kernel')
  BY <1>1, <1>2, SuspendResumeControl DEF TaskResume, TaskSuspend, Call
<1>3. ASSUME NEW x \in Task, NEW p \in CreatePrio, TaskPriSet(t, x, p)
      PROVE  SameControl(kernel, kernel')
  BY <1>1, <1>3, ModifyControl DEF TaskPriSet, Call
<1>4. CASE TaskYield(t)
  BY <1>1, <1>4, OwnControl, SameControlStep DEF TaskYield, Call
<1>5. ASSUME NEW d \in Delay, TaskDelay(t, d) PROVE SameControl(kernel, kernel')
  BY <1>1, <1>5, OwnControl DEF TaskDelay, Call
<1> QED BY <1>2, <1>3, <1>4, <1>5, SameControlStep

\* Only a task, and so only after LOS_Start and not while a switch is pending,
\* changes the lock; the end of the running task is the exception.
LEMMA LockControl ==
    ASSUME TaskInv, ControlInv, NEW t \in TCB,
           \/ TaskLock(t) \/ TaskUnlock(t) \/ DeleteSelf(t)
           \/ \E x \in Task : DeleteOther(t, x)
    PROVE  ControlInv' /\ KeepsProcessor
<1>1. WellFormed(kernel) /\ Boot \notin Task
  BY InvWellFormed, SchedAssumption
<1>2. CASE TaskLock(t) \/ TaskUnlock(t)
  <2>1. kernel.started /\ ~kernel.pendSV
    BY <1>1, <1>2 DEF TaskLock, TaskUnlock, App, Thread, ControlInv
  <2>2. /\ kernel'.run = kernel.run /\ kernel'.started = kernel.started
        /\ kernel'.pendSV = kernel.pendSV
    BY <1>1, <1>2 DEF TaskLock, TaskUnlock, Call, WellFormed, SchedState
  <2> QED BY <2>1, <2>2 DEF ControlInv, KeepsProcessor
<1>3. CASE DeleteSelf(t)
  <2>1. kernel.started /\ ~kernel.pendSV /\ t = kernel.run /\ t \in Task
    BY <1>1, <1>3 DEF DeleteSelf, App, Thread, ControlInv
  <2>2. kernel' \in {Exited(t), OsRunningTaskDelete(Exited(t), t)}
    BY <1>3 DEF DeleteSelf, Call
  <2>3. WellFormed(Exited(t))
    BY <1>1, <2>1, ExitedKeeps, KeepsWellFormed
  <2>4. kernel'.started = Exited(t).started /\ kernel'.pendSV = Exited(t).pendSV
    BY <2>2, <2>3 DEF OsRunningTaskDelete, WellFormed, SchedState
  <2>5. kernel'.started /\ ~kernel'.pendSV
    BY <1>1, <2>1, <2>4, ExitedControl
  <2> QED BY <1>3, <2>1, <2>5 DEF ControlInv, KeepsProcessor
<1>4. ASSUME NEW x \in Task, DeleteOther(t, x) PROVE ControlInv' /\ KeepsProcessor
  <2>1. WellFormed(Exited(x))
    BY <1>1, ExitedKeeps, KeepsWellFormed
  <2>2. SameControl(Exited(x), kernel')
    BY <1>4, <2>1, TcbControl DEF DeleteOther
  <2> QED BY <1>1, <2>2, ExitedControl, ControlStep DEF SameControl
<1> QED BY <1>2, <1>3, <1>4

LEMMA InterruptControl ==
    ASSUME TaskInv, ControlInv, TimerStep \/ IsrStep
    PROVE  ControlInv' /\ KeepsProcessor
<1>1. WellFormed(kernel) /\ SameControl(kernel, kernel)
  BY InvWellFormed DEF SameControl
<1>2. CASE TickStart
  <2>1. SameControl(kernel, kernel')
    BY <1>1, <1>2 DEF TickStart, Elapse, SameControl, WellFormed, SchedState
  <2> QED BY <2>1, SameControlStep
<1>3. CASE TickScan
  <2> DEFINE t == Head(kernel.sortLink)
             n == OsDeleteNodeSortLink(kernel, t)
  <2>1. kernel' = OsSchedWakePendTimeTask(n, t)
    BY <1>3 DEF TickScan
  <2>2. t \in Task /\ t \in TCB
    BY <1>3 DEF TickScan, Expired, TaskInv, TaskTypeOK, SchedState, TCB
  <2> HIDE DEF t
  <2>3. WellFormed(n) /\ SameControl(kernel, n)
    BY <1>1, <2>2, DeleteNodeSortLinkKeeps, KeepsWellFormed, SortLinkControl
  <2> HIDE DEF n
  <2>4. SameControl(n, kernel')
    BY <2>1, <2>2, <2>3, WakePendTimeTaskControl
  <2> QED BY <2>3, <2>4, SameControlStep DEF SameControl
<1>4. CASE TickEnd
  <2>1. PICK used \in 0 .. 1 :
          kernel' = LOS_Schedule([OsTimeSliceUpdate(kernel, used) EXCEPT !.tick = FALSE])
    BY <1>4 DEF TickEnd
  <2> DEFINE u == OsTimeSliceUpdate(kernel, used)
             r == [u EXCEPT !.tick = FALSE]
  <2>2. WellFormed(u) /\ SameControl(kernel, u)
    BY <1>1, TimeSliceUpdateKeeps, KeepsWellFormed, TimeControl
  <2>3. kernel' = LOS_Schedule(r)
    BY <2>1
  <2> HIDE DEF u
  <2>4. WellFormed(r)
    BY <2>2, TickKeeps, KeepsWellFormed
  <2>5. SameControl(u, r)
    BY <2>2 DEF SameControl, WellFormed, SchedState
  <2> HIDE DEF r
  <2> QED BY <2>2, <2>3, <2>4, <2>5, AskControlStep DEF SameControl
<1>5. CASE SliceEnd
  <2> DEFINE u == OsTimeSliceUpdate(kernel, kernel.timeSlice[kernel.run])
  <2>1. kernel.timeSlice[kernel.run] \in Nat
    BY SchedAssumption DEF TaskInv, TaskTypeOK, SchedState
  <2>2. WellFormed(u) /\ SameControl(kernel, u) /\ kernel' = LOS_Schedule(u)
    BY <1>1, <1>5, <2>1, TimeSliceUpdateKeeps, KeepsWellFormed, TimeControl DEF SliceEnd
  <2> QED BY <2>2, AskControlStep
<1>6. ASSUME NEW x \in Task, IsrTaskResume(x) \/ IsrTaskSuspend(x)
      PROVE  ControlInv' /\ KeepsProcessor
  <2>1. PICK m \in {OsSchedResume(kernel, x), OsSchedSuspend(kernel, x)} :
          kernel' = m \/ kernel' = LOS_Schedule(m)
    BY <1>6 DEF IsrTaskResume, IsrTaskSuspend
  <2>2. WellFormed(m) /\ SameControl(kernel, m)
    BY <1>1, <2>1, ResumeKeeps, SuspendKeeps, KeepsWellFormed, SuspendResumeControl
  <2> QED BY <2>1, <2>2, SameControlStep, AskControlStep
<1> QED BY <1>2, <1>3, <1>4, <1>5, <1>6 DEF TimerStep, IsrStep

\* LOS_Start and the context switch find the scheduler unlocked.
LEMMA SwitchControl ==
    ASSUME TaskInv, ControlInv, Start \/ PendSV
    PROVE  ControlInv' /\ KeepsProcessor
<1>1. WellFormed(kernel)
  BY InvWellFormed
<1>2. CASE Start
  <2> DEFINE n  == OsGetTopTask(kernel)
             k1 == [kernel EXCEPT !.status[n] = @ \cup {"RUNNING"}, !.run = n]
             d  == OsSchedTaskDeQueue(k1, n)
  <2>1. kernel' = [d EXCEPT !.started = TRUE]
    BY <1>2 DEF Start, OsSchedStart
  <2>2. n \in Task \cup {Idle}
    BY <1>1, TopTaskType
  <2> HIDE DEF n
  <2>3. WellFormed(k1)
    BY <1>1, <2>2, RunningKeeps, KeepsWellFormed
  <2>4. k1.lock = kernel.lock /\ k1.pendSV = kernel.pendSV
    BY <1>1 DEF WellFormed, SchedState
  <2> HIDE DEF k1
  <2>5. WellFormed(d) /\ SameControl(k1, d)
    BY <2>2, <2>3, DeQueueKeeps, KeepsWellFormed, DeQueueControl
  <2> HIDE DEF d
  <2>6. kernel'.started /\ kernel'.lock = kernel.lock /\ kernel'.pendSV = kernel.pendSV
    BY <2>1, <2>4, <2>5 DEF SameControl, WellFormed, SchedState
  <2> QED BY <1>2, <2>6 DEF Start, ControlInv, KeepsProcessor
<1>3. CASE PendSV
  <2>1. PICK used \in 0 .. 1 : kernel' = OsSchedTaskSwitch(OsTimeSliceUpdate(kernel, used))
    BY <1>3 DEF PendSV
  <2> DEFINE u  == OsTimeSliceUpdate(kernel, used)
             k1 == PutBack(u)
             n  == OsGetTopTask(k1)
             k2 == [k1 EXCEPT !.status[u.run] = @ \ {"RUNNING"}]
             k3 == [k2 EXCEPT !.status[n] = @ \cup {"RUNNING"}, !.run = n]
             d  == OsSchedTaskDeQueue(k3, n)
             r  == [d EXCEPT !.pendSV = FALSE]
  <2>2. kernel' = IF k1.panic THEN k1 ELSE r
    BY <2>1 DEF OsSchedTaskSwitch
  <2>3. WellFormed(u) /\ SameControl(kernel, u)
    BY <1>1, TimeSliceUpdateKeeps, KeepsWellFormed, TimeControl
  <2> HIDE DEF u
  <2>4. WellFormed(k1) /\ SameControl(u, k1)
    <3>1. WellFormed(k1)
      BY <2>3, PutBackKeeps, KeepsWellFormed
    <3> QED BY <2>3, <3>1, EnQueueControl, SortLinkControl DEF PutBack, SameControl
  <2> HIDE DEF k1
  <2>5. n \in Task \cup {Idle}
    BY <2>4, TopTaskType
  <2> HIDE DEF n
  <2>6. WellFormed(k2) /\ SameControl(k1, k2)
    <3>1. u.run \in TCB /\ Fits(u.run, k1.status[u.run] \ {"RUNNING"})
      BY <2>3, <2>4 DEF Fits, WellFormed, SchedState, SpecialTasks
    <3>2. WellFormed(k2)
      BY <2>4, <3>1, StatusKeeps, KeepsWellFormed
    <3> QED BY <2>4, <3>2 DEF SameControl, WellFormed, SchedState
  <2> HIDE DEF k2
  <2>7. WellFormed(k3)
    BY <2>5, <2>6, RunningKeeps, KeepsWellFormed
  <2>8. k3.lock = k2.lock /\ k3.started = k2.started
    BY <2>6 DEF WellFormed, SchedState
  <2> HIDE DEF k3
  <2>9. WellFormed(d) /\ SameControl(k3, d)
    BY <2>5, <2>7, DeQueueKeeps, KeepsWellFormed, DeQueueControl
  <2> HIDE DEF d
  <2>10. r.lock = d.lock /\ r.started = d.started
    BY <2>9 DEF WellFormed, SchedState
  <2> HIDE DEF r
  <2>11. kernel'.lock = kernel.lock /\ kernel'.started = kernel.started
    BY <2>2, <2>3, <2>4, <2>6, <2>8, <2>9, <2>10 DEF SameControl
  <2> QED BY <1>3, <2>11 DEF PendSV, ControlInv, KeepsProcessor
<1> QED BY <1>2, <1>3

LEMMA NextControl ==
    ASSUME TaskInv, ControlInv, [TaskNext]_taskVars
    PROVE  ControlInv' /\ KeepsProcessor
<1>1. CASE UNCHANGED taskVars
  BY <1>1, SameControlStep DEF taskVars, SameControl
<1>2. ASSUME NEW t \in TCB, TaskStep(t) PROVE ControlInv' /\ KeepsProcessor
  <2>1. CASE Schedule(t)
    <3>1. kernel' = LOS_Schedule(kernel)
      BY <2>1 DEF Schedule, Continue, Call
    <3> QED BY <3>1, InvWellFormed, AskControlStep DEF SameControl
  <2> QED BY <1>2, <2>1, CreationControl, LockControl, JoinControl, CallControl
          DEF TaskStep
<1> QED BY <1>1, <1>2, InterruptControl, SwitchControl DEF TaskNext
LEMMA InitControl == Init => ControlInv
  BY DEF Init, ControlInv

\* For any number of tasks and any calls, whatever resumes, wakes or creates a
\* task while the scheduler is locked: the processor stays with the running task
\* until it unlocks or ends itself.
THEOREM LockHolds == TaskSpec => NoSwitchWhileLocked
<1>1. Init => TaskInv /\ ControlInv
  BY InitInv, InitControl
<1>2. TaskInv /\ ControlInv /\ [TaskNext]_taskVars => (TaskInv /\ ControlInv)'
  BY NextInv, StutterInv, NextControl
<1>3. TaskInv /\ ControlInv /\ [TaskNext]_taskVars =>
        [kernel.lock > 0 /\ kernel'.run # kernel.run => DeleteSelf(kernel.run)]_taskVars
  BY NextControl DEF KeepsProcessor
<1> QED BY <1>1, <1>2, <1>3, PTL DEF TaskSpec, NoSwitchWhileLocked

-----------------------------------------------------------------------------
(* Suspension. *)

\* Inductive: no task is suspended and ready.
SuspendInv == \A x \in Task : NotBoth(kernel.status[x])

LEMMA ExitedParked ==
    ASSUME WellFormed(kernel), NEW x \in Task
    PROVE  StaysParked(kernel, Exited(x))
<1> DEFINE u == IF Has(kernel, x, {"RUNNING"}) THEN [kernel EXCEPT !.lock = 0] ELSE kernel
           j == OsTaskJoinPostUnsafe(u, x)
<1>1. WellFormed(u) /\ StaysParked(kernel, u)
  <2> DEFINE n == [kernel EXCEPT !.lock = 0]
  <2>1. WellFormed(n)
    BY LockKeeps, KeepsWellFormed
  <2>2. n.status = kernel.status
    BY DEF WellFormed, SchedState
  <2> HIDE DEF n
  <2>3. StaysParked(kernel, n) /\ StaysParked(kernel, kernel)
    BY <2>2, SameStatusParked
  <2>4. u = n \/ u = kernel
    BY DEF n
  <2> HIDE DEF u
  <2> QED BY <2>1, <2>3, <2>4
<1>2. Exited(x) = OsSchedTaskExit(j, x)
  BY DEF Exited
<1> HIDE DEF u
<1>3. WellFormed(j) /\ StaysParked(u, j)
  <2>1. WellFormed(j)
    BY <1>1, JoinPostKeeps, KeepsWellFormed
  <2>2. u.pend[x] \in Seq(Task)
    BY <1>1 DEF WellFormed, SchedState, WaitList
  <2>3. u.pend[x] # <<>> => Head(u.pend[x]) \in Task
    BY <2>2
  <2> QED BY <1>1, <2>1, <2>3, TaskWakeParked, SameStatusParked DEF OsTaskJoinPostUnsafe
<1> HIDE DEF j
<1> QED BY <1>1, <1>2, <1>3, TaskExitParked, ParkedTrans

\* A TCB that is reclaimed is not ready, and the others are what they were.
ParkedOrFree(k, r) ==
    \A x \in Task : /\ Parked(k.status[x]) => "READY" \notin r.status[x]
                    /\ NotBoth(k.status[x]) => NotBoth(r.status[x])

LEMMA InsertTCBParked ==
    ASSUME NEW k, WellFormed(k), NEW t \in Task
    PROVE  ParkedOrFree(k, OsInsertTCBToFreeList(k, t))
<1> SUFFICES ASSUME NEW x \in Task
             PROVE  LET r == OsInsertTCBToFreeList(k, t)
                    IN  /\ Parked(k.status[x]) => "READY" \notin r.status[x]
                        /\ NotBoth(k.status[x]) => NotBoth(r.status[x])
  BY DEF ParkedOrFree
<1>1. k.status \in [TCB -> SUBSET Flag] /\ t \in TCB /\ x \in TCB
  BY DEF WellFormed, SchedState, TCB
<1>2. OsInsertTCBToFreeList(k, t).status = [k.status EXCEPT ![t] = {"UNUSED"}]
  BY DEF OsInsertTCBToFreeList, WellFormed, SchedState
<1> QED BY <1>1, <1>2 DEF Parked, NotBoth

LEMMA RecycleParked ==
    ASSUME NEW k, WellFormed(k), NEW t \in Task
    PROVE  ParkedOrFree(k, OsRecycleTaskResources(k, t))
<1> DEFINE m == [k EXCEPT !.status[t] = @ \ {"STACK_FREE"}]
<1>1. StaysParked(k, m) /\ WellFormed(m)
  BY FlagsParked, DropFlagsKeeps, KeepsWellFormed
<1>2. OsRecycleTaskResources(k, t) = IF Has(k, t, {"JOINABLE"}) THEN m
                                     ELSE OsInsertTCBToFreeList(m, t)
  BY DEF OsRecycleTaskResources
<1> HIDE DEF m
<1>3. ParkedOrFree(k, m)
  BY <1>1 DEF StaysParked, ParkedOrFree, Parked
<1>4. ParkedOrFree(k, OsInsertTCBToFreeList(m, t))
  BY <1>1, InsertTCBParked DEF StaysParked, ParkedOrFree
<1> QED BY <1>2, <1>3, <1>4

-----------------------------------------------------------------------------
(* The actions and suspension. *)

\* SuspendedUntilResumed of one step.
SuspensionHolds ==
    \A x \in Task :
       Has(kernel, x, {"SUSPEND"}) /\ Has(kernel', x, {"READY"}) =>
          \/ IsrTaskResume(x)
          \/ \E t \in TCB : TaskResume(t, x)
          \/ \E t \in TCB : EnqueueNewTask(t) /\ arg[t] = x

LEMMA FreeStep ==
    ASSUME SuspendInv, NEW m, StaysParked(kernel, m), ParkedOrFree(m, kernel')
    PROVE  SuspendInv' /\ SuspensionHolds
  BY DEF SuspendInv, StaysParked, ParkedOrFree, SuspensionHolds, Has, Parked, NotBoth

LEMMA ParkedStep ==
    ASSUME SuspendInv, StaysParked(kernel, kernel')
    PROVE  SuspendInv' /\ SuspensionHolds
  BY DEF SuspendInv, StaysParked, SuspensionHolds, Has, Parked, NotBoth

LEMMA CreationParked ==
    ASSUME TaskInv, SuspendInv, NEW t \in TCB,
           \/ OsRecycleFinishedTask(t) \/ TaskCreate(t) \/ NothingToRecycle(t)
           \/ TakeTcb(t) \/ NoTcb(t) \/ NoStack(t) \/ EnqueueNewTask(t)
    PROVE  SuspendInv' /\ SuspensionHolds
<1>1. WellFormed(kernel) /\ StaysParked(kernel, kernel)
  BY InvWellFormed, SameStatusParked
<1>2. CASE OsRecycleFinishedTask(t)
  <2> DEFINE m == [kernel EXCEPT !.recycle = Tail(@)]
  <2>1. kernel' = OsRecycleTaskResources(m, Head(kernel.recycle))
    BY <1>2 DEF OsRecycleFinishedTask
  <2>2. kernel.recycle \in Seq(Task) /\ kernel.recycle # <<>>
    BY <1>1, <1>2 DEF OsRecycleFinishedTask, WellFormed, SchedState
  <2>3. Tail(kernel.recycle) \in Seq(Task) /\ Head(kernel.recycle) \in Task
    BY <2>2, HeadTailProperties
  <2>4. WellFormed(m)
    BY <1>1, <2>3, ListFieldKeeps, KeepsWellFormed
  <2>5. StaysParked(kernel, m)
    BY <1>1, SameStatusParked DEF WellFormed, SchedState
  <2> HIDE DEF m
  <2>6. ParkedOrFree(m, kernel')
    BY <2>1, <2>3, <2>4, RecycleParked
  <2> QED BY <2>5, <2>6, FreeStep
<1>3. CASE TaskCreate(t) \/ NothingToRecycle(t) \/ NoTcb(t)
  <2>1. kernel' = kernel
    BY <1>3 DEF TaskCreate, NothingToRecycle, NoTcb, Continue, Call
  <2> QED BY <1>1, <2>1, ParkedStep
<1>4. CASE TakeTcb(t)
  <2> DEFINE x == Head(kernel.free)
             m == [kernel EXCEPT !.free = Tail(@)]
  <2>1. PICK p \in CreatePrio, j \in BOOLEAN, rest \in {<<>>, <<"enqueue">>, <<"noStack">>} :
          kernel' = [OsNewTaskInit(m, x, p, j) EXCEPT !.status[x] =
                        IF rest = <<"noStack">> THEN @ ELSE @ \cup {"STACK_FREE"}]
    BY <1>4 DEF TakeTcb
  <2> DEFINE N == {"SUSPEND"} \cup (IF j THEN {"JOINABLE"} ELSE {})
             S == IF rest = <<"noStack">> THEN N ELSE N \cup {"STACK_FREE"}
             n == OsNewTaskInit(m, x, p, j)
  <2>2. x \in TCB
    <3>1. kernel.free # <<>>
      BY <1>4 DEF TakeTcb
    <3>2. kernel.free \in Seq(Task)
      BY <1>1 DEF WellFormed, SchedState
    <3>3. x \in Task
      BY <3>1, <3>2
    <3> QED BY <3>3 DEF TCB
  <2> HIDE DEF x
  <2>3. DOMAIN n.status = TCB /\ n.status = [kernel.status EXCEPT ![x] = N]
    BY <1>1 DEF OsNewTaskInit, WellFormed, SchedState
  <2>4. n.status[x] = N
    BY <1>1, <2>2, <2>3 DEF WellFormed, SchedState
  <2>5. Parked(S) /\ NotBoth(S)
    BY DEF Parked, NotBoth
  <2>6. kernel'.status = [n.status EXCEPT ![x] = S]
    <3>1. kernel' = [n EXCEPT !.status[x] = S]
      BY <2>1, <2>4
    <3>2. [n EXCEPT !.status[x] = S].status = [n.status EXCEPT ![x] = S]
      BY <1>1 DEF OsNewTaskInit, WellFormed, SchedState
    <3> QED BY <3>1, <3>2
  <2> HIDE DEF n, N, S
  <2>7. kernel'.status = [kernel.status EXCEPT ![x] = S]
    BY <1>1, <2>2, <2>3, <2>6 DEF WellFormed, SchedState
  <2> QED BY <1>1, <2>5, <2>7, StatusParked, ParkedStep
<1>5. CASE NoStack(t)
  <2>1. arg[t] \in Task /\ kernel' = OsInsertTCBToFreeList(kernel, arg[t])
    BY <1>5, DoingArg DEF NoStack, Step, Continue, Call
  <2> QED BY <1>1, <2>1, InsertTCBParked, FreeStep
<1>6. CASE EnqueueNewTask(t)
  <2> DEFINE x == arg[t]
  <2>1. x \in Task /\ kernel' = OsSchedTaskEnQueue(kernel, x)
    BY <1>6, DoingArg DEF EnqueueNewTask, Step
  <2> HIDE DEF x
  <2> DEFINE S == (kernel.status[x] \ {"PEND", "SUSPEND", "DELAY", "PEND_TIME"}) \cup {"READY"}
  <2>2. kernel'.status = IF "READY" \in kernel.status[x] THEN kernel.status
                         ELSE [kernel.status EXCEPT ![x] = S]
    BY <1>1, <2>1, EnQueueStatus
  <2>3. NotBoth(S) /\ kernel.status \in [TCB -> SUBSET Flag] /\ x \in TCB
    BY <1>1, <2>1 DEF NotBoth, WellFormed, SchedState, TCB
  <2> HIDE DEF S
  <2>4. ASSUME NEW y \in Task
        PROVE  /\ NotBoth(kernel'.status[y])
               /\ y # x => kernel'.status[y] = kernel.status[y]
    <3>1. NotBoth(kernel.status[y]) /\ y \in TCB
      BY DEF SuspendInv, TCB
    <3>2. CASE "READY" \in kernel.status[x]
      BY <2>2, <3>1, <3>2
    <3>3. CASE "READY" \notin kernel.status[x] /\ y = x
      <4>1. kernel'.status[y] = S
        BY <2>2, <2>3, <3>1, <3>3
      <4> QED BY <2>3, <3>3, <4>1
    <3>4. CASE "READY" \notin kernel.status[x] /\ y # x
      <4>1. kernel'.status[y] = kernel.status[y]
        BY <2>2, <2>3, <3>1, <3>4
      <4> QED BY <3>1, <4>1
    <3> QED BY <3>2, <3>3, <3>4
  <2>5. SuspendInv'
    BY <2>4 DEF SuspendInv
  <2>6. ASSUME NEW y \in Task, y # x
        PROVE  ~(Has(kernel, y, {"SUSPEND"}) /\ Has(kernel', y, {"READY"}))
    BY <2>4, <2>6 DEF SuspendInv, NotBoth, Has
  <2>7. EnqueueNewTask(t) /\ arg[t] = x
    BY <1>6 DEF x
  <2> QED BY <2>5, <2>6, <2>7 DEF SuspensionHolds
<1> QED BY <1>2, <1>3, <1>4, <1>5, <1>6

LEMMA ResumptionParked ==
    ASSUME TaskInv, SuspendInv, NEW x \in Task,
           IsrTaskResume(x) \/ \E t \in TCB : TaskResume(t, x)
    PROVE  SuspendInv' /\ SuspensionHolds
<1> DEFINE m == OsSchedResume(kernel, x)
<1>1. WellFormed(kernel) /\ WellFormed(m)
  BY InvWellFormed, ResumeKeeps, KeepsWellFormed
<1>2. \A y \in Task : NotBoth(m.status[y]) /\ (y # x => m.status[y] = kernel.status[y])
  BY <1>1, ResumeParked DEF SuspendInv
<1>3. kernel' = m \/ kernel' = LOS_Schedule(m)
  BY DEF IsrTaskResume, TaskResume, Call
<1> HIDE DEF m
<1>4. kernel'.status = m.status
  BY <1>1, <1>3 DEF LOS_Schedule, WellFormed, SchedState
<1>5. SuspendInv'
  BY <1>2, <1>4 DEF SuspendInv
<1>6. ASSUME NEW y \in Task, y # x
      PROVE  ~(Has(kernel, y, {"SUSPEND"}) /\ Has(kernel', y, {"READY"}))
  BY <1>2, <1>4, <1>6 DEF SuspendInv, NotBoth, Has
<1> QED BY <1>5, <1>6 DEF SuspensionHolds

LEMMA CallParked ==
    ASSUME TaskInv, SuspendInv, NEW t \in TCB,
           \/ Schedule(t) \/ JoinReclaim(t) \/ DeleteSelf(t) \/ TaskYield(t)
           \/ TaskLock(t) \/ TaskUnlock(t) \/ \E d \in Delay : TaskDelay(t, d)
           \/ \E x \in Task :
                 \/ TaskSuspend(t, x) \/ TaskJoin(t, x) \/ TaskDetach(t, x)
                 \/ DeleteOther(t, x) \/ \E p \in CreatePrio : TaskPriSet(t, x, p)
    PROVE  SuspendInv' /\ SuspensionHolds
<1>1. /\ WellFormed(kernel) /\ StaysParked(kernel, kernel)
      /\ CreatePrio \subseteq Prio /\ Boot \notin Task
  BY InvWellFormed, SameStatusParked, TaskAssumption, SchedAssumption DEF Prio
<1>2. CASE Schedule(t) \/ TaskYield(t) \/ TaskLock(t) \/ TaskUnlock(t)
  <2>1. kernel'.status = kernel.status
    BY <1>1, <1>2 DEF Schedule, TaskYield, TaskLock, TaskUnlock, Continue, Call,
                      LOS_Schedule, OsSchedYield, WellFormed, SchedState
  <2> QED BY <2>1, SameStatusParked, ParkedStep
<1>3. CASE JoinReclaim(t)
  <2> DEFINE m == [kernel EXCEPT !.status[arg[t]] = @ \ {"JOINABLE"}]
  <2>1. kernel' = OsRecycleTaskResources(m, arg[t])
    BY <1>3 DEF JoinReclaim, Continue, Call
  <2>2. arg[t] \in Task
    BY <1>3, DoingArg DEF JoinReclaim, Step
  <2>3. WellFormed(m) /\ StaysParked(kernel, m)
    BY <1>1, <2>2, DropFlagsKeeps, KeepsWellFormed, FlagsParked
  <2> HIDE DEF m
  <2> QED BY <2>1, <2>2, <2>3, RecycleParked, FreeStep
<1>4. CASE DeleteSelf(t)
  <2> DEFINE e == Exited(t)
             S == e.status[t] \cup {"UNUSED"}
  <2>1. t \in Task
    BY <1>4 DEF DeleteSelf, App
  <2>2. WellFormed(e) /\ StaysParked(kernel, e)
    BY <1>1, <2>1, ExitedKeeps, KeepsWellFormed, ExitedParked
  <2>3. kernel' = e \/ kernel' = OsRunningTaskDelete(e, t)
    BY <1>4 DEF DeleteSelf, Call
  <2> HIDE DEF e
  <2>4. CASE kernel' = e
    BY <2>2, <2>4, ParkedStep
  <2>5. CASE kernel' = OsRunningTaskDelete(e, t)
    <3> DEFINE a == [e EXCEPT !.status[t] = S]
    <3>1. StaysParked(e, a) /\ a.status = [e.status EXCEPT ![t] = S]
      BY <2>2, FlagsParked DEF WellFormed, SchedState
    <3>2. kernel'.status = [a.status EXCEPT ![Boot] = S]
      BY <2>2, <2>5 DEF OsRunningTaskDelete, WellFormed, SchedState
    <3>3. \A x \in Task : kernel'.status[x] = a.status[x]
      BY <1>1, <2>2, <3>1, <3>2 DEF WellFormed, SchedState, TCB
    <3>4. StaysParked(a, kernel')
      BY <3>3 DEF StaysParked
    <3> HIDE DEF a
    <3> QED BY <2>2, <3>1, <3>4, ParkedTrans, ParkedStep
  <2> QED BY <2>3, <2>4, <2>5
<1>5. ASSUME NEW x \in Task, DeleteOther(t, x) PROVE SuspendInv' /\ SuspensionHolds
  <2>1. WellFormed(Exited(x)) /\ StaysParked(kernel, Exited(x))
    BY <1>1, ExitedKeeps, KeepsWellFormed, ExitedParked
  <2>2. kernel' = OsRecycleTaskResources(Exited(x), x)
    BY <1>5 DEF DeleteOther
  <2> QED BY <2>1, <2>2, RecycleParked, FreeStep
<1>6. ASSUME NEW d \in Delay, TaskDelay(t, d) PROVE SuspendInv' /\ SuspensionHolds
  <2> DEFINE S == kernel.status[kernel.run] \cup {"DELAY"}
  <2>1. Parked(kernel.status[kernel.run]) => Parked(S)
    BY DEF Parked
  <2>2. NotBoth(kernel.status[kernel.run]) => NotBoth(S)
    BY DEF NotBoth
  <2> HIDE DEF S
  <2>3. \/ kernel'.status = kernel.status
        \/ kernel'.status = [kernel.status EXCEPT ![kernel.run] = S]
    BY <1>1, <1>6 DEF TaskDelay, Call, OsSchedYield, OsSchedDelay, WellFormed, SchedState, S
  <2> QED BY <1>1, <2>1, <2>2, <2>3, StatusParked, SameStatusParked, ParkedStep
<1>7. ASSUME NEW x \in Task, TaskSuspend(t, x) PROVE SuspendInv' /\ SuspensionHolds
  BY <1>1, <1>7, SuspendParked, ParkedStep DEF TaskSuspend, Call
<1>8. ASSUME NEW x \in Task, TaskJoin(t, x) PROVE SuspendInv' /\ SuspensionHolds
  <2> DEFINE S == kernel.status[kernel.run] \cup {"PEND"}
  <2>1. Parked(kernel.status[kernel.run]) => Parked(S)
    BY DEF Parked
  <2>2. NotBoth(kernel.status[kernel.run]) => NotBoth(S)
    BY DEF NotBoth
  <2>3. kernel' = kernel \/ kernel' = OsSchedTaskWait(kernel, x, NoTime)
    BY <1>8 DEF TaskJoin, JoinPend, Call
  <2> HIDE DEF S
  <2>4. \/ kernel'.status = kernel.status
        \/ kernel'.status = [kernel.status EXCEPT ![kernel.run] = S]
    BY <1>1, <2>3 DEF OsSchedTaskWait, WellFormed, SchedState, S
  <2> QED BY <1>1, <2>1, <2>2, <2>4, StatusParked, SameStatusParked, ParkedStep
<1>9. ASSUME NEW x \in Task, TaskDetach(t, x) PROVE SuspendInv' /\ SuspensionHolds
  <2>1. kernel' = kernel \/ kernel' = [kernel EXCEPT !.status[x] = @ \ {"JOINABLE"}]
    BY <1>9 DEF TaskDetach, Call
  <2>2. StaysParked(kernel, [kernel EXCEPT !.status[x] = @ \ {"JOINABLE"}])
    BY <1>1, FlagsParked
  <2> QED BY <1>1, <2>1, <2>2, ParkedStep
<1>10. ASSUME NEW x \in Task, NEW p \in CreatePrio, TaskPriSet(t, x, p)
       PROVE  SuspendInv' /\ SuspensionHolds
  <2>1. kernel' = OsSchedModifyTaskSchedParam(kernel, x, p) /\ NotBoth(kernel.status[x])
    BY <1>10 DEF TaskPriSet, Call, SuspendInv
  <2> QED BY <1>1, <2>1, ModifyParked, ParkedStep
<1> QED BY <1>2, <1>3, <1>4, <1>5, <1>6, <1>7, <1>8, <1>9, <1>10

LEMMA InterruptParked ==
    ASSUME TaskInv, SuspendInv, TimerStep \/ \E x \in Task : IsrTaskSuspend(x)
    PROVE  SuspendInv' /\ SuspensionHolds
<1>1. WellFormed(kernel)
  BY InvWellFormed
<1>2. CASE TickStart \/ TickEnd \/ SliceEnd
  <2>1. kernel'.status = kernel.status
    BY <1>1, <1>2 DEF TickStart, TickEnd, SliceEnd, Elapse, OsTimeSliceUpdate,
                      LOS_Schedule, WellFormed, SchedState
  <2> QED BY <2>1, SameStatusParked, ParkedStep
<1>3. CASE TickScan
  <2> DEFINE t == Head(kernel.sortLink)
             n == OsDeleteNodeSortLink(kernel, t)
  <2>1. kernel' = OsSchedWakePendTimeTask(n, t)
    BY <1>3 DEF TickScan
  <2>2. t \in Task /\ t \in TCB
    BY <1>3 DEF TickScan, Expired, TaskInv, TaskTypeOK, SchedState, TCB
  <2> HIDE DEF t
  <2>3. WellFormed(n) /\ StaysParked(kernel, n)
    BY <1>1, <2>2, DeleteNodeSortLinkKeeps, KeepsWellFormed, SameStatusParked
  <2> HIDE DEF n
  <2> QED BY <2>1, <2>2, <2>3, WakePendTimeTaskParked, ParkedTrans, ParkedStep
<1>4. ASSUME NEW x \in Task, IsrTaskSuspend(x) PROVE SuspendInv' /\ SuspensionHolds
  <2> DEFINE m == OsSchedSuspend(kernel, x)
  <2>1. WellFormed(m) /\ StaysParked(kernel, m)
    BY <1>1, SuspendKeeps, KeepsWellFormed, SuspendParked
  <2>2. kernel' = m \/ kernel' = LOS_Schedule(m)
    BY <1>4 DEF IsrTaskSuspend
  <2> HIDE DEF m
  <2>3. kernel'.status = m.status
    BY <2>1, <2>2 DEF LOS_Schedule, WellFormed, SchedState
  <2> QED BY <2>1, <2>3, SameStatusParked, ParkedTrans, ParkedStep
<1> QED BY <1>2, <1>3, <1>4 DEF TimerStep

LEMMA SwitchParked ==
    ASSUME TaskInv, SuspendInv, Start \/ PendSV
    PROVE  SuspendInv' /\ SuspensionHolds
<1>1. WellFormed(kernel)
  BY InvWellFormed
<1>2. ASSUME NEW k, WellFormed(k), NEW n \in Task \cup {Idle}
      PROVE  StaysParked(k, [k EXCEPT !.status[n] = @ \cup {"RUNNING"}, !.run = n])
  <2> DEFINE m == [k EXCEPT !.status[n] = @ \cup {"RUNNING"}]
             r == [k EXCEPT !.status[n] = @ \cup {"RUNNING"}, !.run = n]
  <2>1. StaysParked(k, m)
    BY <1>2, FlagsParked
  <2>2. r.status = m.status
    BY <1>2 DEF WellFormed, SchedState
  <2> HIDE DEF m, r
  <2>3. StaysParked(k, r)
    BY <2>1, <2>2, SameStatusParked, ParkedTrans
  <2> QED BY <2>3 DEF r
<1>3. CASE Start
  <2> DEFINE n  == OsGetTopTask(kernel)
             k1 == [kernel EXCEPT !.status[n] = @ \cup {"RUNNING"}, !.run = n]
             d  == OsSchedTaskDeQueue(k1, n)
  <2>1. kernel' = [d EXCEPT !.started = TRUE]
    BY <1>3 DEF Start, OsSchedStart
  <2>2. n \in Task \cup {Idle}
    BY <1>1, TopTaskType
  <2> HIDE DEF n
  <2>3. WellFormed(k1) /\ StaysParked(kernel, k1)
    BY <1>1, <1>2, <2>2, RunningKeeps, KeepsWellFormed
  <2> HIDE DEF k1
  <2>4. WellFormed(d) /\ StaysParked(k1, d)
    BY <2>2, <2>3, DeQueueKeeps, KeepsWellFormed, DeQueueParked
  <2> HIDE DEF d
  <2>5. StaysParked(d, kernel')
    BY <2>1, <2>4, SameStatusParked DEF WellFormed, SchedState
  <2> QED BY <2>3, <2>4, <2>5, ParkedTrans, ParkedStep
<1>4. CASE PendSV
  <2>1. PICK used \in 0 .. 1 : kernel' = OsSchedTaskSwitch(OsTimeSliceUpdate(kernel, used))
    BY <1>4 DEF PendSV
  <2> DEFINE u  == OsTimeSliceUpdate(kernel, used)
             k1 == PutBack(u)
             n  == OsGetTopTask(k1)
             k2 == [k1 EXCEPT !.status[u.run] = @ \ {"RUNNING"}]
             k3 == [k2 EXCEPT !.status[n] = @ \cup {"RUNNING"}, !.run = n]
             d  == OsSchedTaskDeQueue(k3, n)
             r  == [d EXCEPT !.pendSV = FALSE]
  <2>2. kernel' = k1 \/ kernel' = r
    BY <2>1 DEF OsSchedTaskSwitch
  <2>3. WellFormed(u) /\ StaysParked(kernel, u)
    <3>1. u.status = kernel.status
      BY <1>1 DEF OsTimeSliceUpdate, WellFormed, SchedState
    <3> QED BY <1>1, <3>1, TimeSliceUpdateKeeps, KeepsWellFormed, SameStatusParked
  <2> HIDE DEF u
  <2>4. WellFormed(k1) /\ StaysParked(u, k1)
    <3>1. WellFormed(k1)
      BY <2>3, PutBackKeeps, KeepsWellFormed
    <3>2. CASE Has(u, u.run, {"PEND_TIME", "DELAY"})
      <4>1. u.run \in Task
        BY <2>3, <3>2 DEF Has, TCB, WellFormed, SchedState, SpecialTasks
      <4> QED BY <2>3, <3>1, <3>2, <4>1, SortLinkParked, SameStatusParked DEF PutBack
    <3>3. CASE /\ ~Has(u, u.run, {"PEND_TIME", "DELAY"})
               /\ ~Has(u, u.run, OS_TASK_BLOCKED_STATUS)
      <4>1. u.run \in Task \cup {Idle} /\ "SUSPEND" \notin u.status[u.run]
        BY <2>3, <3>3
           DEF Has, OS_TASK_BLOCKED_STATUS, TCB, WellFormed, SchedState, SpecialTasks
      <4> QED BY <2>3, <3>1, <3>3, <4>1, EnQueueParked DEF PutBack
    <3>4. CASE /\ ~Has(u, u.run, {"PEND_TIME", "DELAY"})
               /\ Has(u, u.run, OS_TASK_BLOCKED_STATUS)
      BY <3>1, <3>4, SameStatusParked DEF PutBack
    <3> QED BY <3>2, <3>3, <3>4
  <2> HIDE DEF k1
  <2>5. n \in Task \cup {Idle}
    BY <2>4, TopTaskType
  <2> HIDE DEF n
  <2>6. WellFormed(k2) /\ StaysParked(k1, k2)
    <3>1. u.run \in TCB /\ Fits(u.run, k1.status[u.run] \ {"RUNNING"})
      BY <2>3, <2>4 DEF Fits, WellFormed, SchedState, SpecialTasks
    <3> QED BY <2>4, <3>1, StatusKeeps, KeepsWellFormed, FlagsParked
  <2> HIDE DEF k2
  <2>7. WellFormed(k3) /\ StaysParked(k2, k3)
    BY <1>2, <2>5, <2>6, RunningKeeps, KeepsWellFormed
  <2> HIDE DEF k3
  <2>8. WellFormed(d) /\ StaysParked(k3, d)
    BY <2>5, <2>7, DeQueueKeeps, KeepsWellFormed, DeQueueParked
  <2> HIDE DEF d
  <2>9. StaysParked(d, r)
    BY <2>8, SameStatusParked DEF WellFormed, SchedState
  <2> HIDE DEF r
  <2>10. StaysParked(kernel, k1) /\ StaysParked(kernel, r)
    BY <2>3, <2>4, <2>6, <2>7, <2>8, <2>9, ParkedTrans
  <2> QED BY <2>2, <2>10, ParkedStep
<1> QED BY <1>3, <1>4

LEMMA NextParked ==
    ASSUME TaskInv, SuspendInv, [TaskNext]_taskVars
    PROVE  SuspendInv' /\ SuspensionHolds
<1>1. CASE UNCHANGED taskVars
  BY <1>1, SameStatusParked, ParkedStep DEF taskVars
<1>2. ASSUME NEW t \in TCB, TaskStep(t) PROVE SuspendInv' /\ SuspensionHolds
  BY <1>2, CreationParked, ResumptionParked, CallParked DEF TaskStep
<1> QED BY <1>1, <1>2, InterruptParked, ResumptionParked, SwitchParked DEF TaskNext, IsrStep

LEMMA InitParked == Init => SuspendInv
  BY DEF Init, SuspendInv, NotBoth, TCB

\* For any number of tasks and any calls: a task that is suspended is in no
\* ready queue until somebody resumes it.
THEOREM SuspensionLasts == TaskSpec => SuspendedUntilResumed
<1>1. Init => TaskInv /\ SuspendInv
  BY InitInv, InitParked
<1>2. TaskInv /\ SuspendInv /\ [TaskNext]_taskVars => (TaskInv /\ SuspendInv)'
  BY NextInv, StutterInv, NextParked
<1>3. TaskInv /\ SuspendInv /\ [TaskNext]_taskVars => [SuspensionHolds]_taskVars
  BY NextParked
<1>4. SuspendedUntilResumed <=> [][SuspensionHolds]_taskVars
  BY DEF SuspendedUntilResumed, SuspensionHolds
<1> QED BY <1>1, <1>2, <1>3, <1>4, PTL DEF TaskSpec

=============================================================================
