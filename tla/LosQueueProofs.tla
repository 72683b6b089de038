--------------------------- MODULE LosQueueProofs ---------------------------
(***************************************************************************)
(* For any number of tasks and queues, any lengths and messages and any    *)
(* interleaving with interrupts: head and tail stay on the ring, and       *)
(* nobody waits for what is there.                                         *)
(*                                                                         *)
(* A task that was woken goes on with the queue it waited on whether or    *)
(* not that still exists, so the invariant keeps the length of a queue     *)
(* that has been deleted; and a queue is created with free nodes, so       *)
(* nobody may wait on an unused control block (FreeQueues).                *)
(*                                                                         *)
(* If the application keeps to the protocol of LosTask (Unprotected = {}), *)
(* every node is counted once as well. NodeInv says so, with what it rests *)
(* on: a node that is off its count before the reader or writer it is for  *)
(* has come back is Reserved for a task that was woken and whose wait has  *)
(* ended well, and ObjInv of LosListProofs says how waits end; and the     *)
(* nodes between head and tail are those that are filled.                  *)
(*                                                                         *)
(* The same account of waits carries the mails of LosMail: a block is in   *)
(* the msg of exactly those who were woken for one (HandInv).              *)
(*                                                                         *)
(* And each queue implements BoundedQueue (EveryQueueIsOne).  The ring     *)
(* from the head on, cut off at the number of its messages, is the         *)
(* abstract content (ContentOf), so an operation on the ring is one on a   *)
(* sequence (OperatedContent); what is promised to nobody is what is       *)
(* counted (UnclaimedIs, from NodeInv); and who waits, was granted a node  *)
(* or is late on each side follows from what a step does to the wait lists *)
(* and to the calls (HandsOver; OneOn for the steps of the tasks).         *)
(***************************************************************************)
EXTENDS LosMail, LosQueueRefinement, LosListProofs

ControlBlock == [stat : {"UNUSED", "INUSE"}, len : {0} \cup QueueLen, cnt : [RW -> Nat],
          head : Nat, tail : Nat, node : [Node -> Msg \cup {NoMsg}]]

OnRing(cb) ==
    /\ cb.len # 0 => cb.head < cb.len /\ cb.tail < cb.len
    /\ cb.stat = "INUSE" => cb.len # 0

QueueParts ==
    /\ queueCB \in [Queue -> ControlBlock]
    /\ \A q \in Queue : OnRing(queueCB[q])
    /\ freeQueue \in Seq(Queue)
    /\ job \in [TCB -> Job]
    /\ \A t \in TCB : arg[t] \in Queue \X RW => queueCB[arg[t][1]].len # 0

List == {"READ", "WRITE", "MEM"}

FreeQueues ==
    /\ \A q \in Queue : ~InUse(q) => \A list \in List : kernel.pend[<<q, list>>] = <<>>
    /\ IsInjective(freeQueue)
    /\ \A q \in Queue : InUse(q) <=> ~Contains(freeQueue, q)

QueueInv == TaskInv /\ QueueParts /\ FreeQueues /\ NoWaitWithNodes

LEMMA ListsAreObjects ==
    /\ \A q \in Queue : \A list \in List : <<q, list>> \in WaitObj
    /\ \A q \in Queue : \A rw \in RW : rw \in List /\ <<q, rw>> \in WaitObj
    /\ NoArg \notin Queue \X RW
    /\ \A x \in Task : x \notin Queue \X RW
<1>1. \A q \in Queue : \A list \in List : <<q, list>> \in WaitObj
  BY QueueAssumption DEF List
<1>2. \A rw \in RW : rw \in List
  BY DEF RW, List
<1>3. \A x \in Task : x \notin Queue \X RW
  BY <1>1, <1>2, SchedAssumption
<1> QED BY <1>1, <1>2, <1>3, QueueAssumption

LEMMA LengthsAreNat == ({0} \cup QueueLen) \subseteq Nat /\ \A n \in QueueLen : n > 0
  BY QueueAssumption

LEMMA QueueInitInv == QueueInit => QueueInv
<1> SUFFICES ASSUME QueueInit PROVE QueueInv
  OBVIOUS
<1>1. TaskInv
  BY InitInv DEF QueueInit
<1>2. NoCount \in [RW -> Nat] /\ \A rw \in RW : NoCount[rw] = 0
  BY DEF NoCount
<1>3. /\ queueCB \in [Queue -> ControlBlock]
      /\ \A q \in Queue : /\ ~InUse(q) /\ OnRing(queueCB[q])
                          /\ \A rw \in RW : queueCB[q].cnt[rw] = 0
  BY <1>2 DEF QueueInit, ControlBlock, OnRing, InUse
<1>4. NoJob \in Job
  BY DEF NoJob, Job
<1>5. /\ job \in [TCB -> Job]
      /\ \A t \in TCB : arg[t] \notin Queue \X RW
  BY <1>4, ListsAreObjects DEF QueueInit, Init
<1>6. \A o \in WaitList : kernel.pend[o] = <<>>
  BY DEF QueueInit, Init
<1>7. \A q \in Queue : \A list \in List : kernel.pend[<<q, list>>] = <<>>
  BY <1>6, ListsAreObjects DEF WaitList
<1>8. Cardinality(Queue) \in Nat
  BY QueueAssumption, FS_CardinalityType
<1>9. /\ freeQueue \in [1 .. Cardinality(Queue) -> Queue]
      /\ IsInjective(freeQueue)
      /\ \A q \in Queue : \E i \in 1 .. Cardinality(Queue) : freeQueue[i] = q
  BY DEF QueueInit, Bijection, Injection, Surjection, IsInjective
<1>10. freeQueue \in Seq(Queue) /\ Len(freeQueue) = Cardinality(Queue)
  BY <1>8, <1>9
<1>11. \A q \in Queue : Contains(freeQueue, q)
  BY <1>9, <1>10 DEF Contains
<1>12. QueueParts
  BY <1>3, <1>5, <1>10 DEF QueueParts
<1>13. FreeQueues
  BY <1>3, <1>7, <1>9, <1>11 DEF FreeQueues
<1>14. NoWaitWithNodes
  BY <1>3 DEF NoWaitWithNodes
<1> QED BY <1>1, <1>12, <1>13, <1>14 DEF QueueInv

-----------------------------------------------------------------------------
(* Creation and deletion. *)

\* The head of the free list is not in use, and nobody waits for it.
LEMMA CreateQueue ==
    ASSUME QueueInv, NEW t \in TCB, NEW len \in QueueLen, OsQueueCreate(t, len)
    PROVE  QueueInv'
<1> DEFINE q == Head(freeQueue)
           r == Tail(freeQueue)
           cb == [stat |-> "INUSE", len |-> len, cnt |-> [READ |-> 0, WRITE |-> len],
                  head |-> 0, tail |-> 0, node |-> [i \in Node |-> NoMsg]]
<1>1. freeQueue \in Seq(Queue) /\ freeQueue # <<>> /\ IsInjective(freeQueue)
  BY DEF OsQueueCreate, QueueInv, QueueParts, FreeQueues
<1>2. /\ q \in Queue /\ Contains(freeQueue, q)
      /\ r \in Seq(Queue) /\ IsInjective(r) /\ ~Contains(r, q)
      /\ \A z \in Queue \ {q} : Contains(r, z) <=> Contains(freeQueue, z)
  BY <1>1, TakeFirst
<1>3. /\ UNCHANGED taskVars /\ UNCHANGED job /\ freeQueue' = r
      /\ queueCB' = [queueCB EXCEPT ![q] = cb]
  BY DEF OsQueueCreate
<1>4. len \in Nat /\ len > 0
  BY LengthsAreNat
<1>5. [READ |-> 0, WRITE |-> len] \in [RW -> Nat]
  BY <1>4 DEF RW
<1>6. cb \in ControlBlock /\ OnRing(cb) /\ cb.stat = "INUSE" /\ cb.len # 0
  BY <1>4, <1>5 DEF ControlBlock, OnRing
<1> HIDE DEF q, r, cb
<1>7. \A list \in List : kernel.pend[<<q, list>>] = <<>>
  BY <1>2 DEF QueueInv, FreeQueues
<1>8. TaskInv' /\ kernel' = kernel /\ arg' = arg
  BY <1>3, StutterInv DEF QueueInv, taskVars
<1>9. \A z \in Queue : queueCB'[z] = IF z = q THEN cb ELSE queueCB[z]
  BY <1>2, <1>3 DEF QueueInv, QueueParts
<1>10. QueueParts'
  <2>1. queueCB' \in [Queue -> ControlBlock] /\ job' \in [TCB -> Job]
    BY <1>3, <1>6 DEF QueueInv, QueueParts
  <2>2. \A z \in Queue : OnRing(queueCB'[z])
    BY <1>6, <1>9 DEF QueueInv, QueueParts
  <2>3. ASSUME NEW u \in TCB, arg'[u] \in Queue \X RW
        PROVE  queueCB'[arg'[u][1]].len # 0
    <3>1. arg[u][1] \in Queue /\ queueCB[arg[u][1]].len # 0
      BY <1>8, <2>3 DEF QueueInv, QueueParts
    <3> QED BY <1>6, <1>8, <1>9, <3>1
  <2> QED BY <1>2, <1>3, <2>1, <2>2, <2>3 DEF QueueParts
<1>11. FreeQueues'
  <2>1. \A z \in Queue : InUse(z)' <=> (z = q \/ InUse(z))
    BY <1>6, <1>9 DEF InUse
  <2> QED BY <1>2, <1>3, <1>8, <2>1 DEF QueueInv, FreeQueues
<1>12. NoWaitWithNodes'
  <2>1. \A rw \in RW : kernel.pend[<<q, rw>>] = <<>>
    BY <1>2, <1>7, ListsAreObjects
  <2> QED BY <1>8, <1>9, <2>1 DEF QueueInv, NoWaitWithNodes
<1> QED BY <1>8, <1>10, <1>11, <1>12 DEF QueueInv

\* What a deleted queue keeps: its length, and its indices on the ring.
LEMMA DeleteQueue ==
    ASSUME QueueInv, NEW t \in TCB, NEW q \in Queue, QueueDelete(t, q)
    PROVE  QueueInv'
<1> DEFINE r == <<q>> \o freeQueue
           cb == [queueCB[q] EXCEPT !.stat = "UNUSED", !.node = [i \in Node |-> NoMsg]]
<1>1. /\ freeQueue \in Seq(Queue) /\ IsInjective(freeQueue) /\ ~Contains(freeQueue, q)
      /\ \A list \in List : kernel.pend[<<q, list>>] = <<>>
  BY DEF QueueDelete, QueueDeletable, QueueInv, QueueParts, FreeQueues, List
<1>2. /\ r \in Seq(Queue) /\ IsInjective(r) /\ Contains(r, q)
      /\ \A z \in Queue \ {q} : Contains(r, z) <=> Contains(freeQueue, z)
  BY <1>1, PutFirst
<1>3. /\ UNCHANGED taskVars /\ UNCHANGED job /\ freeQueue' = r
      /\ queueCB' = [queueCB EXCEPT ![q].stat = "UNUSED", ![q].node = [i \in Node |-> NoMsg]]
  BY DEF QueueDelete
<1>4. queueCB[q] \in ControlBlock /\ OnRing(queueCB[q])
  BY DEF QueueInv, QueueParts
<1>5. /\ cb \in ControlBlock /\ OnRing(cb) /\ cb.stat = "UNUSED" /\ cb.len = queueCB[q].len
      /\ cb.cnt = queueCB[q].cnt
  BY <1>4 DEF ControlBlock, OnRing
<1>6. queueCB' = [queueCB EXCEPT ![q] = cb]
  BY <1>3 DEF QueueInv, QueueParts
<1> HIDE DEF r, cb
<1>7. TaskInv' /\ kernel' = kernel /\ arg' = arg
  BY <1>3, StutterInv DEF QueueInv, taskVars
<1>8. \A z \in Queue : queueCB'[z] = IF z = q THEN cb ELSE queueCB[z]
  BY <1>6 DEF QueueInv, QueueParts
<1>9. QueueParts'
  <2>1. queueCB' \in [Queue -> ControlBlock] /\ job' \in [TCB -> Job]
    BY <1>3, <1>5, <1>6 DEF QueueInv, QueueParts
  <2>2. \A z \in Queue : OnRing(queueCB'[z]) /\ queueCB'[z].len = queueCB[z].len
    BY <1>5, <1>8 DEF QueueInv, QueueParts
  <2>3. ASSUME NEW u \in TCB, arg'[u] \in Queue \X RW
        PROVE  queueCB'[arg'[u][1]].len # 0
    <3>1. arg[u][1] \in Queue /\ queueCB[arg[u][1]].len # 0
      BY <1>7, <2>3 DEF QueueInv, QueueParts
    <3> QED BY <1>7, <2>2, <3>1
  <2> QED BY <1>2, <1>3, <2>1, <2>2, <2>3 DEF QueueParts
<1>10. FreeQueues'
  <2>1. \A z \in Queue : InUse(z)' <=> (z # q /\ InUse(z))
    BY <1>5, <1>8 DEF InUse
  <2> QED BY <1>1, <1>2, <1>3, <1>7, <2>1 DEF QueueInv, FreeQueues
<1>11. NoWaitWithNodes'
  <2>1. \A z \in Queue : queueCB'[z].cnt = queueCB[z].cnt
    BY <1>5, <1>8
  <2> QED BY <1>7, <2>1 DEF QueueInv, NoWaitWithNodes
<1> QED BY <1>7, <1>9, <1>10, <1>11 DEF QueueInv

-----------------------------------------------------------------------------
(* The ring. *)

SameButRing(b, cb) ==
    b \in ControlBlock /\ OnRing(b) /\ b.stat = cb.stat /\ b.len = cb.len /\ b.cnt = cb.cnt

LEMMA RingUpdate ==
    ASSUME NEW cb \in ControlBlock, OnRing(cb), NEW n \in Nat, NEW m \in Msg \cup {NoMsg},
           NEW i \in Nat, i < cb.len
    PROVE  /\ SameButRing([cb EXCEPT !.node[n] = m, !.head = i], cb)
           /\ SameButRing([cb EXCEPT !.node[n] = m, !.tail = i], cb)
  BY LengthsAreNat DEF SameButRing, ControlBlock, OnRing

LEMMA BufferKeeps ==
    ASSUME NEW cb \in ControlBlock, OnRing(cb), cb.len # 0, NEW j \in Job
    PROVE  SameButRing(OsQueueBufferOperate(cb, j), cb)
<1> DEFINE h == cb.head
           e == cb.tail
           m == j.msg
           hForward  == Forward(cb, h)
           eForward  == Forward(cb, e)
           hBackward == Backward(cb, h)
<1>1. cb.len \in Nat /\ h \in Nat /\ e \in Nat /\ h < cb.len /\ e < cb.len
  BY LengthsAreNat DEF ControlBlock, OnRing
<1>2. /\ hForward \in Nat /\ hForward < cb.len
      /\ eForward \in Nat /\ eForward < cb.len
      /\ hBackward \in Nat /\ hBackward < cb.len
  BY <1>1 DEF Forward, Backward
<1>3. m \in Msg \cup {NoMsg} /\ NoMsg \in Msg \cup {NoMsg}
  BY DEF Job
<1>4. OsQueueBufferOperate(cb, j) =
          IF j.rw = "READ" THEN [cb EXCEPT !.node[h] = NoMsg, !.head = hForward]
          ELSE IF j.at = "TAIL" THEN [cb EXCEPT !.node[e] = m, !.tail = eForward]
          ELSE [cb EXCEPT !.node[hBackward] = m, !.head = hBackward]
  BY DEF OsQueueBufferOperate
<1> HIDE DEF h, e, m, hForward, eForward, hBackward
<1>5. /\ SameButRing([cb EXCEPT !.node[h] = NoMsg, !.head = hForward], cb)
      /\ SameButRing([cb EXCEPT !.node[e] = m, !.tail = eForward], cb)
      /\ SameButRing([cb EXCEPT !.node[hBackward] = m, !.head = hBackward], cb)
  BY <1>1, <1>2, <1>3, RingUpdate
<1> QED BY <1>4, <1>5

\* The node goes to a waiter, or to a count that nobody waits on.
LEMMA OperatedKeeps ==
    ASSUME NEW q \in Queue, NEW j \in Job, NEW cb \in ControlBlock, OnRing(cb), cb.len # 0
    PROVE  /\ Operated(q, j, cb) \in ControlBlock /\ OnRing(Operated(q, j, cb))
           /\ Operated(q, j, cb).stat = cb.stat /\ Operated(q, j, cb).len = cb.len
           /\ \A rw \in RW : \/ Operated(q, j, cb).cnt[rw] = cb.cnt[rw]
                             \/ kernel.pend[<<q, rw>>] = <<>>
<1> DEFINE b == OsQueueBufferOperate(cb, j)
           o == Other(j.rw)
           c == [b EXCEPT !.cnt[o] = @ + 1]
<1>1. /\ b \in ControlBlock /\ OnRing(b) /\ b.stat = cb.stat /\ b.len = cb.len /\ b.cnt = cb.cnt
  BY BufferKeeps DEF SameButRing
<1>2. o \in RW
  BY DEF Other, RW
<1>3. Operated(q, j, cb) = IF kernel.pend[<<q, o>>] = <<>> THEN c ELSE b
  BY DEF Operated, Opposite
<1> HIDE DEF b, o
<1>4. b.cnt \in [RW -> Nat]
  BY <1>1 DEF ControlBlock
<1>5. [b.cnt EXCEPT ![o] = @ + 1] \in [RW -> Nat]
  BY <1>2, <1>4
<1>6. /\ c \in ControlBlock /\ OnRing(c) /\ c.stat = cb.stat /\ c.len = cb.len
      /\ \A rw \in RW \ {o} : c.cnt[rw] = cb.cnt[rw]
  BY <1>1, <1>4, <1>5 DEF ControlBlock, OnRing
<1> HIDE DEF c
<1> QED BY <1>1, <1>2, <1>3, <1>6

-----------------------------------------------------------------------------
(* Steps that change at most one control block, and create none. *)

LEMMA BlockPart ==
    ASSUME QueueInv, NEW q \in Queue, NEW cb \in ControlBlock, OnRing(cb),
           cb.stat = queueCB[q].stat, cb.len = queueCB[q].len,
           \A rw \in RW : \/ cb.cnt[rw] > 0 => queueCB[q].cnt[rw] > 0
                          \/ kernel.pend[<<q, rw>>] = <<>>,
           queueCB' = [queueCB EXCEPT ![q] = cb], freeQueue' = freeQueue,
           job' \in [TCB -> Job], TaskInv', NoNewObjWaiter,
           \A t \in TCB : arg'[t] = arg[t] \/ arg'[t] \notin Queue \X RW
    PROVE  QueueInv'
<1>1. \A z \in Queue : queueCB'[z] = IF z = q THEN cb ELSE queueCB[z]
  BY DEF QueueInv, QueueParts
<1>2. \A z \in Queue : /\ queueCB'[z].stat = queueCB[z].stat
                       /\ queueCB'[z].len = queueCB[z].len /\ OnRing(queueCB'[z])
  BY <1>1 DEF QueueInv, QueueParts
<1>3. \A z \in Queue : \A list \in List :
          kernel.pend[<<z, list>>] = <<>> => kernel'.pend[<<z, list>>] = <<>>
  BY ListsAreObjects DEF NoNewObjWaiter
<1>4. \A z \in Queue : \A rw \in RW :
          kernel.pend[<<z, rw>>] = <<>> => kernel'.pend[<<z, rw>>] = <<>>
  BY ListsAreObjects DEF NoNewObjWaiter
<1>5. QueueParts'
  <2>1. queueCB' \in [Queue -> ControlBlock]
    BY DEF QueueInv, QueueParts
  <2>2. ASSUME NEW t \in TCB, arg'[t] \in Queue \X RW
        PROVE  queueCB'[arg'[t][1]].len # 0
    <3>1. arg'[t] = arg[t]
      BY <2>2
    <3>2. arg[t][1] \in Queue /\ queueCB[arg[t][1]].len # 0
      BY <2>2, <3>1 DEF QueueInv, QueueParts
    <3> QED BY <1>2, <3>1, <3>2
  <2> QED BY <1>2, <2>1, <2>2 DEF QueueInv, QueueParts
<1>6. FreeQueues'
  <2>1. \A z \in Queue : InUse(z)' <=> InUse(z)
    BY <1>2 DEF InUse
  <2> QED BY <1>3, <2>1 DEF QueueInv, FreeQueues
<1>7. NoWaitWithNodes'
  <2>1. ASSUME NEW z \in Queue, NEW rw \in RW, queueCB'[z].cnt[rw] > 0
        PROVE  kernel'.pend[<<z, rw>>] = <<>>
    <3>1. queueCB[z].cnt[rw] > 0 => kernel.pend[<<z, rw>>] = <<>>
      BY DEF QueueInv, NoWaitWithNodes
    <3> QED BY <1>1, <1>4, <2>1, <3>1
  <2> QED BY <2>1 DEF NoWaitWithNodes
<1> QED BY <1>5, <1>6, <1>7 DEF QueueInv

LEMMA SamePart ==
    ASSUME QueueInv, queueCB' = queueCB, freeQueue' = freeQueue,
           job' \in [TCB -> Job], TaskInv', NoNewObjWaiter,
           \A t \in TCB : arg'[t] = arg[t] \/ arg'[t] \notin Queue \X RW
    PROVE  QueueInv'
<1>1. \A z \in Queue : \A list \in List :
          kernel.pend[<<z, list>>] = <<>> => kernel'.pend[<<z, list>>] = <<>>
  BY ListsAreObjects DEF NoNewObjWaiter
<1>2. \A z \in Queue : \A rw \in RW :
          kernel.pend[<<z, rw>>] = <<>> => kernel'.pend[<<z, rw>>] = <<>>
  BY ListsAreObjects DEF NoNewObjWaiter
<1>3. QueueParts'
  <2>1. ASSUME NEW t \in TCB, arg'[t] \in Queue \X RW
        PROVE  queueCB'[arg'[t][1]].len # 0
    BY <2>1 DEF QueueInv, QueueParts
  <2> QED BY <2>1 DEF QueueInv, QueueParts
<1>4. FreeQueues'
  BY <1>1 DEF QueueInv, FreeQueues, InUse
<1>5. NoWaitWithNodes'
  BY <1>2 DEF QueueInv, NoWaitWithNodes
<1> QED BY <1>3, <1>4, <1>5 DEF QueueInv

-----------------------------------------------------------------------------
(* The calls. *)

\* The wake-up of the first task that waits for the node.
LEMMA OppositeKeeps ==
    ASSUME TaskInv, NEW q \in Queue, NEW j \in Job, Opposite(q, j.rw) # <<>>
    PROVE  Keeps(kernel, OsSchedTaskWake(kernel, Head(Opposite(q, j.rw))))
<1> DEFINE o == <<q, Other(j.rw)>>
<1>1. Other(j.rw) \in RW
  BY DEF Other, RW
<1>2. o \in WaitObj
  BY <1>1, ListsAreObjects
<1>3. kernel.pend[o] \in Seq(Task) /\ kernel.pend[o] # <<>>
  BY <1>2 DEF Opposite, TaskInv, TaskTypeOK, SchedState, WaitList
<1>4. Head(kernel.pend[o]) \in Task
  BY <1>3
<1> QED BY <1>4, InvWellFormed, TaskWakeKeeps DEF Opposite

LEMMA OperatedCallKeeps ==
    ASSUME TaskInv, NEW t \in TCB, NEW q \in Queue, NEW j \in Job, OperatedCall(t, q, j)
    PROVE  /\ TaskInv' /\ NoNewObjWaiter
           /\ \A u \in TCB : arg'[u] = arg[u] \/ arg'[u] \notin Queue \X RW
<1>1. CASE Opposite(q, j.rw) = <<>>
  <2>1. Call(t, kernel, <<>>, NoArg)
    BY <1>1 DEF OperatedCall
  <2>2. TaskInv' /\ NoNewObjWaiter
    BY <2>1, InvWellFormed, KeepsSelf, PlainSteps, CallKeeps
  <2> QED BY <2>1, <2>2, ListsAreObjects DEF Call, TaskInv, TaskTypeOK
<1>2. CASE Opposite(q, j.rw) # <<>>
  <2> DEFINE k == OsSchedTaskWake(kernel, Head(Opposite(q, j.rw)))
  <2>1. Call(t, k, <<"schedule">>, NoArg)
    BY <1>2 DEF OperatedCall
  <2>2. Keeps(kernel, k)
    BY <1>2, OppositeKeeps
  <2> HIDE DEF k
  <2>3. TaskInv' /\ NoNewObjWaiter
    BY <2>1, <2>2, PlainSteps, CallKeeps
  <2> QED BY <2>1, <2>3, ListsAreObjects DEF Call, TaskInv, TaskTypeOK
<1> QED BY <1>1, <1>2

\* One node off the count of the side that takes it.
LEMMA CountedKeeps ==
    ASSUME QueueInv, NEW q \in Queue, NEW rw \in RW, queueCB[q].cnt[rw] > 0
    PROVE  /\ Counted(q, rw) \in ControlBlock /\ OnRing(Counted(q, rw))
           /\ Counted(q, rw).stat = queueCB[q].stat /\ Counted(q, rw).len = queueCB[q].len
           /\ \A z \in RW : Counted(q, rw).cnt[z] > 0 => queueCB[q].cnt[z] > 0
<1> DEFINE cb == queueCB[q]
           c == [cb.cnt EXCEPT ![rw] = @ - 1]
<1>1. cb \in ControlBlock /\ OnRing(cb)
  BY DEF QueueInv, QueueParts
<1>2. cb.cnt \in [RW -> Nat] /\ cb.cnt[rw] > 0
  BY <1>1 DEF ControlBlock
<1>3. c \in [RW -> Nat] /\ \A z \in RW : c[z] > 0 => cb.cnt[z] > 0
  BY <1>2
<1>4. Counted(q, rw) = [cb EXCEPT !.cnt = c]
  BY <1>1 DEF Counted, ControlBlock
<1> HIDE DEF cb, c
<1>5. /\ [cb EXCEPT !.cnt = c] \in ControlBlock /\ OnRing([cb EXCEPT !.cnt = c])
      /\ [cb EXCEPT !.cnt = c].stat = cb.stat /\ [cb EXCEPT !.cnt = c].len = cb.len
      /\ [cb EXCEPT !.cnt = c].cnt = c
  BY <1>1, <1>3 DEF ControlBlock, OnRing
<1> QED BY <1>3, <1>4, <1>5 DEF cb

LEMMA OperateQueue ==
    ASSUME QueueInv, NEW q \in Queue, NEW j \in Job, InUse(q), queueCB[q].cnt[j.rw] > 0,
           queueCB' = [queueCB EXCEPT ![q] = Operated(q, j, Counted(q, j.rw))],
           freeQueue' = freeQueue, job' = job, TaskInv', NoNewObjWaiter,
           \A u \in TCB : arg'[u] = arg[u] \/ arg'[u] \notin Queue \X RW
    PROVE  QueueInv'
<1> DEFINE c == Counted(q, j.rw)
           b == Operated(q, j, c)
<1>1. j.rw \in RW
  BY DEF Job, RW
<1>2. /\ c \in ControlBlock /\ OnRing(c) /\ c.stat = queueCB[q].stat /\ c.len = queueCB[q].len
      /\ \A z \in RW : c.cnt[z] > 0 => queueCB[q].cnt[z] > 0
  BY <1>1, CountedKeeps
<1>3. c.len # 0
  BY <1>2 DEF InUse, OnRing
<1> HIDE DEF c
<1>4. /\ b \in ControlBlock /\ OnRing(b) /\ b.stat = c.stat /\ b.len = c.len
      /\ \A rw \in RW : b.cnt[rw] = c.cnt[rw] \/ kernel.pend[<<q, rw>>] = <<>>
  BY <1>2, <1>3, OperatedKeeps
<1>5. queueCB' = [queueCB EXCEPT ![q] = b] /\ job' \in [TCB -> Job]
  BY DEF c, QueueInv, QueueParts
<1> HIDE DEF b
<1> QED BY <1>2, <1>4, <1>5, BlockPart

LEMMA OperateStep ==
    ASSUME QueueInv, NEW t \in TCB, NEW q \in Queue, NEW j \in Job, QueueOperate(t, q, j)
    PROVE  QueueInv'
<1>1. /\ TaskInv' /\ NoNewObjWaiter
      /\ \A u \in TCB : arg'[u] = arg[u] \/ arg'[u] \notin Queue \X RW
  BY OperatedCallKeeps DEF QueueOperate, QueueInv
<1> QED BY <1>1, OperateQueue DEF QueueOperate

LEMMA IsrOperateKeeps ==
    ASSUME TaskInv, NEW q \in Queue, NEW j \in Job, IsrQueueOperate(q, j)
    PROVE  TaskInv' /\ NoNewObjWaiter
<1> DEFINE k == OsSchedTaskWake(kernel, Head(Opposite(q, j.rw)))
<1>1. UNCHANGED <<todo, arg, handles>>
  BY DEF IsrQueueOperate
<1>2. CASE Opposite(q, j.rw) = <<>>
  <2>1. UNCHANGED taskVars
    BY <1>1, <1>2 DEF IsrQueueOperate, taskVars
  <2> QED BY <2>1, StutterInv
<1>3. CASE Opposite(q, j.rw) # <<>>
  <2>1. kernel' = LOS_Schedule(k)
    BY <1>3 DEF IsrQueueOperate
  <2>2. Keeps(kernel, k)
    BY <1>3, OppositeKeeps
  <2> HIDE DEF k
  <2>3. Keeps(kernel, LOS_Schedule(k))
    BY <2>2, ScheduleKeeps, KeepsWellFormed, KeepsTrans
  <2> QED BY <1>1, <2>1, <2>3, KernelStep
<1> QED BY <1>2, <1>3

LEMMA IsrOperateStep ==
    ASSUME QueueInv, NEW q \in Queue, NEW j \in Job, IsrQueueOperate(q, j)
    PROVE  QueueInv'
<1>1. TaskInv' /\ NoNewObjWaiter /\ arg' = arg
  BY IsrOperateKeeps DEF QueueInv, IsrQueueOperate
<1> QED BY <1>1, OperateQueue DEF IsrQueueOperate

\* Only a task that finds nothing to take waits.
LEMMA WaitStep ==
    ASSUME QueueInv, NEW t \in TCB, NEW q \in Queue, NEW j \in Job,
           NEW timeout \in QueueTimeout, QueueWait(t, q, j, timeout)
    PROVE  QueueInv'
<1> DEFINE o == <<q, j.rw>>
           k == OsSchedTaskWait(kernel, o, timeout)
           steps == <<"schedule", "result">>
<1>1. /\ kernel' = k /\ queueCB' = queueCB /\ freeQueue' = freeQueue
      /\ todo' = [todo EXCEPT ![t] = steps]
      /\ arg' = [arg EXCEPT ![t] = IF steps = <<>> THEN NoArg ELSE o]
      /\ handles' = handles /\ job' = [job EXCEPT ![t] = j]
      /\ InUse(q) /\ queueCB[q].cnt[j.rw] = 0
  BY DEF QueueWait, Call
<1>2. j.rw \in RW
  BY DEF Job, RW
<1>3. /\ kernel.run \in Task /\ o \in WaitList /\ timeout \in (0 .. MaxDelay) \cup {NoTime}
  BY <1>2, ListsAreObjects, QueueAssumption DEF QueueWait, App, Thread, WaitList
<1> HIDE DEF o
<1>4. WellFormed(k) /\ \A z \in WaitList \ {o} : k.pend[z] = kernel.pend[z]
  BY <1>3, InvWellFormed, TaskWaitKeeps DEF QueueInv
<1> HIDE DEF k
<1>5. steps \in Seq(Step) /\ ~ObjectIsTask(steps) /\ steps # <<>>
  BY DEF Step, ObjectIsTask
<1> HIDE DEF steps
<1>6. TaskInv'
  <2>1. TaskInv /\ WellFormed(kernel') /\ o \in WaitList \cup {NoArg}
    BY <1>1, <1>3, <1>4 DEF QueueInv
  <2>2. handles' \subseteq Task
    BY <1>1, <2>1 DEF TaskInv, TaskTypeOK
  <2> QED BY <1>1, <1>5, <2>1, <2>2, CallStep
<1>7. queueCB[q].len # 0
  BY <1>1 DEF InUse, QueueInv, QueueParts, OnRing
<1>8. QueueParts'
  <2>1. job' \in [TCB -> Job]
    BY <1>1 DEF QueueInv, QueueParts
  <2>2. ASSUME NEW u \in TCB, arg'[u] \in Queue \X RW
        PROVE  queueCB[arg'[u][1]].len # 0
    <3>1. arg'[u] = IF u = t THEN o ELSE arg[u]
      BY <1>1, <1>5 DEF QueueInv, TaskInv, TaskTypeOK
    <3>2. o[1] = q
      BY DEF o
    <3> QED BY <1>7, <2>2, <3>1, <3>2 DEF QueueInv, QueueParts
  <2> QED BY <1>1, <2>1, <2>2 DEF QueueInv, QueueParts
<1>9. \A z \in Queue : \A list \in List : <<z, list>> # o =>
          kernel'.pend[<<z, list>>] = kernel.pend[<<z, list>>]
  BY <1>1, <1>4, ListsAreObjects DEF WaitList
<1>10. FreeQueues'
  <2>1. \A z \in Queue : ~InUse(z) => \A list \in List : <<z, list>> # o
    BY <1>1 DEF o
  <2>2. \A z \in Queue : InUse(z)' <=> InUse(z)
    BY <1>1 DEF InUse
  <2> QED BY <1>1, <1>9, <2>1, <2>2 DEF QueueInv, FreeQueues
<1>11. NoWaitWithNodes'
  <2>1. ASSUME NEW z \in Queue, NEW rw \in RW, queueCB[z].cnt[rw] > 0
        PROVE  kernel'.pend[<<z, rw>>] = <<>>
    <3>1. <<z, rw>> # o
      BY <1>1, <2>1 DEF o
    <3>2. kernel.pend[<<z, rw>>] = <<>>
      BY <2>1 DEF QueueInv, NoWaitWithNodes
    <3> QED BY <1>9, <3>1, <3>2, ListsAreObjects
  <2> QED BY <1>1, <2>1 DEF NoWaitWithNodes
<1> QED BY <1>6, <1>8, <1>10, <1>11 DEF QueueInv

LEMMA TimedOutStep ==
    ASSUME QueueInv, NEW t \in TCB, QueueTimedOut(t)
    PROVE  QueueInv'
<1> DEFINE S == kernel.status[t] \ {"TIMEOUT"}
           k == [kernel EXCEPT !.status[t] = S]
<1>1. /\ Call(t, k, <<>>, NoArg) /\ queueCB' = queueCB /\ freeQueue' = freeQueue
      /\ job' = [job EXCEPT ![t] = NoJob]
  BY DEF QueueTimedOut
<1>2. Keeps(kernel, k)
  <2>1. Fits(t, S)
    BY InvWellFormed DEF QueueInv, Fits, WellFormed, SpecialTasks, SchedState
  <2> QED BY <2>1, InvWellFormed, StatusKeeps DEF QueueInv
<1> HIDE DEF k
<1>3. TaskInv' /\ NoNewObjWaiter
  BY <1>1, <1>2, PlainSteps, CallKeeps DEF QueueInv
<1>4. \A u \in TCB : arg'[u] = arg[u] \/ arg'[u] \notin Queue \X RW
  BY <1>1, ListsAreObjects DEF Call, QueueInv, TaskInv, TaskTypeOK
<1>5. job' \in [TCB -> Job]
  BY <1>1 DEF NoJob, Job, QueueInv, QueueParts
<1> QED BY <1>1, <1>3, <1>4, <1>5, SamePart

\* The queue may have been deleted, as far as this invariant knows.
LEMMA GrantedStep ==
    ASSUME QueueInv, NEW t \in TCB, QueueGranted(t)
    PROVE  QueueInv'
<1> DEFINE q == arg[t][1]
           j == job[t]
           cb == queueCB[q]
           b == Operated(q, j, cb)
<1>1. /\ arg[t] \in Queue \X RW /\ OperatedCall(t, q, j) /\ freeQueue' = freeQueue
      /\ queueCB' = [queueCB EXCEPT ![q] = b] /\ job' = [job EXCEPT ![t] = NoJob]
  BY DEF QueueGranted, GrantedBlock
<1>2. /\ q \in Queue /\ j \in Job /\ cb \in ControlBlock /\ OnRing(cb) /\ cb.len # 0
  BY <1>1 DEF QueueInv, QueueParts
<1> HIDE DEF q, j
<1>3. /\ b \in ControlBlock /\ OnRing(b) /\ b.stat = cb.stat /\ b.len = cb.len
      /\ \A rw \in RW : b.cnt[rw] = cb.cnt[rw] \/ kernel.pend[<<q, rw>>] = <<>>
  BY <1>2, OperatedKeeps
<1> HIDE DEF b
<1>4. /\ TaskInv' /\ NoNewObjWaiter
      /\ \A u \in TCB : arg'[u] = arg[u] \/ arg'[u] \notin Queue \X RW
  BY <1>1, <1>2, OperatedCallKeeps DEF QueueInv
<1>5. job' \in [TCB -> Job]
  BY <1>1 DEF NoJob, Job, QueueInv, QueueParts
<1> QED BY <1>1, <1>2, <1>3, <1>4, <1>5, BlockPart

-----------------------------------------------------------------------------
(* The steps of the tasks and the theorems. *)

\* The calls of the tasks have tasks as their objects.
LEMMA ArgsAreTasks ==
    ASSUME TaskInv, TaskNext
    PROVE  \A t \in TCB : arg'[t] = arg[t] \/ arg'[t] \in Task \cup {NoArg}
<1>1. ASSUME NEW t \in TCB, NEW k, NEW steps, NEW x \in Task \cup {NoArg, arg[t]},
             Call(t, k, steps, x)
      PROVE  \A u \in TCB : arg'[u] = arg[u] \/ arg'[u] \in Task \cup {NoArg}
  BY <1>1 DEF Call, TaskInv, TaskTypeOK
<1>2. CASE Start \/ PendSV \/ TimerStep \/ IsrStep
  BY <1>2 DEF Start, PendSV, TimerStep, TickStart, TickScan, TickEnd, SliceEnd, IsrStep,
              IsrTaskResume, IsrTaskSuspend
<1>3. ASSUME NEW t \in TCB, TaskStep(t)
      PROVE  \A u \in TCB : arg'[u] = arg[u] \/ arg'[u] \in Task \cup {NoArg}
  <2>1. CASE OsRecycleFinishedTask(t) \/ TaskLock(t)
    BY <2>1 DEF OsRecycleFinishedTask, TaskLock
  <2>2. CASE TakeTcb(t)
    <3>1. Head(kernel.free) \in Task
      BY <2>2 DEF TakeTcb, TaskInv, TaskTypeOK, SchedState
    <3> QED BY <2>2, <3>1 DEF TakeTcb, TaskInv, TaskTypeOK
  <2>3. CASE EnqueueNewTask(t)
    BY <2>3 DEF EnqueueNewTask, TaskInv, TaskTypeOK
  <2>4. CASE \/ NothingToRecycle(t) \/ NoTcb(t) \/ NoStack(t) \/ Schedule(t)
             \/ JoinReclaim(t)
    BY <1>1, <2>4 DEF NothingToRecycle, NoTcb, NoStack, Schedule, JoinReclaim, Continue
  <2>5. CASE TaskCreate(t) \/ TaskYield(t) \/ TaskUnlock(t)
    BY <1>1, <2>5 DEF TaskCreate, TaskYield, TaskUnlock
  <2>6. CASE DeleteSelf(t)
    <3>1. Boot \in TCB
      BY DEF TCB
    <3> QED BY <1>1, <2>6, <3>1 DEF DeleteSelf
  <2>7. CASE \E d \in Delay : TaskDelay(t, d)
    BY <1>1, <2>7 DEF TaskDelay
  <2>8. ASSUME NEW x \in Task, TaskResume(t, x) \/ TaskSuspend(t, x)
        PROVE  \A u \in TCB : arg'[u] = arg[u] \/ arg'[u] \in Task \cup {NoArg}
    BY <1>1, <2>8 DEF TaskResume, TaskSuspend
  <2>9. ASSUME NEW x \in Task, TaskJoin(t, x) \/ TaskDetach(t, x)
        PROVE  \A u \in TCB : arg'[u] = arg[u] \/ arg'[u] \in Task \cup {NoArg}
    BY <1>1, <2>9 DEF TaskJoin, JoinPend, TaskDetach
  <2>10. ASSUME NEW x \in Task, DeleteOther(t, x)
         PROVE  \A u \in TCB : arg'[u] = arg[u] \/ arg'[u] \in Task \cup {NoArg}
    BY <2>10 DEF DeleteOther, TaskInv, TaskTypeOK
  <2>11. ASSUME NEW x \in Task, NEW p \in CreatePrio, TaskPriSet(t, x, p)
         PROVE  \A u \in TCB : arg'[u] = arg[u] \/ arg'[u] \in Task \cup {NoArg}
    BY <1>1, <2>11 DEF TaskPriSet
  <2> QED BY <1>3, <2>1, <2>2, <2>3, <2>4, <2>5, <2>6, <2>7, <2>8, <2>9, <2>10, <2>11
       DEF TaskStep
<1> QED BY <1>2, <1>3 DEF TaskNext

LEMMA TaskStepKeeps ==
    ASSUME QueueInv, TaskStepOfQueues
    PROVE  QueueInv'
<1>1. /\ TaskNext /\ queueCB' = queueCB /\ freeQueue' = freeQueue
      /\ job' = [t \in TCB |-> IF todo'[t] = <<>> THEN NoJob ELSE job[t]]
  BY DEF TaskStepOfQueues
<1>2. TaskInv' /\ NoNewObjWaiter
  BY <1>1, NextInv DEF QueueInv
<1>3. \A t \in TCB : arg'[t] = arg[t] \/ arg'[t] \notin Queue \X RW
  BY <1>1, ArgsAreTasks, ListsAreObjects DEF QueueInv
<1>4. job' \in [TCB -> Job]
  BY <1>1 DEF NoJob, Job, QueueInv, QueueParts
<1> QED BY <1>1, <1>2, <1>3, <1>4, SamePart

LEMMA QueueNextInv == QueueInv /\ [QueueNext]_allQueueVars => QueueInv'
<1> SUFFICES ASSUME QueueInv, [QueueNext]_allQueueVars PROVE QueueInv'
  OBVIOUS
<1>1. \A j \in Jobs : j \in Job
  BY QueueAssumption
<1>2. ASSUME NEW t \in TCB, QueueStep(t) PROVE QueueInv'
  BY <1>1, <1>2, CreateQueue, TimedOutStep, GrantedStep, DeleteQueue, OperateStep, WaitStep
     DEF QueueStep
<1>3. CASE IsrQueueStep
  BY <1>1, <1>3, IsrOperateStep DEF IsrQueueStep
<1>4. CASE UNCHANGED allQueueVars
  <2>1. UNCHANGED taskVars /\ UNCHANGED <<queueCB, freeQueue, job>>
    BY <1>4 DEF allQueueVars, taskVars
  <2>2. TaskInv' /\ NoNewObjWaiter
    BY <2>1, StutterInv DEF QueueInv
  <2>3. job' \in [TCB -> Job] /\ arg' = arg
    BY <2>1 DEF QueueInv, QueueParts, taskVars
  <2> QED BY <2>1, <2>2, <2>3, SamePart
<1> QED BY <1>2, <1>3, <1>4, TaskStepKeeps DEF QueueNext

\* Whatever is written, at the head or at the tail, and whoever waits or is deleted:
\* counts stay above 0 and head and tail of every queue stay on its ring, also for
\* the tasks that come back to a queue they waited on.
THEOREM QueueTypes == QueueSpec => []QueueTypeOK
<1>1. QueueInv => QueueTypeOK
  <2> SUFFICES ASSUME QueueInv PROVE QueueTypeOK
    OBVIOUS
  <2>1. \A q \in Queue : InUse(q) =>
            queueCB[q].head < queueCB[q].len /\ queueCB[q].tail < queueCB[q].len
    BY DEF QueueInv, QueueParts, OnRing, InUse
  <2> QED BY <2>1 DEF QueueInv, QueueParts, QueueTypeOK, TaskInv, ControlBlock
<1> QED BY <1>1, QueueInitInv, QueueNextInv, PTL DEF QueueSpec

\* No task ever waits to read while a message can be read, or to write while a node
\* is free: a wake-up takes the node off both counts, and no timeout, deletion or
\* interrupt gives it to the wrong one.
THEOREM NodesFindWaiters == QueueSpec => []NoWaitWithNodes
<1>1. QueueInv => NoWaitWithNodes
  BY DEF QueueInv
<1> QED BY <1>1, QueueInitInv, QueueNextInv, PTL DEF QueueSpec

-----------------------------------------------------------------------------
(* Every node is counted once.  The messages of a queue are in the nodes   *)
(* from its head to its tail, in this order on the ring.                   *)

Messages(cb) == {i \in Node : cb.node[i] # NoMsg}
Used(cb) == Cardinality(Messages(cb))

\* How far node i is from the head.
Depth(cb, i) == IF i < cb.head THEN i - cb.head + cb.len ELSE i - cb.head
Wrap(cb, i) == IF i < cb.len THEN i ELSE i - cb.len

Ring(cb) ==
    /\ Used(cb) <= cb.len
    /\ \A i \in Node : i \in Messages(cb) <=> i < cb.len /\ Depth(cb, i) < Used(cb)
    /\ cb.tail = Wrap(cb, cb.head + Used(cb))

LEMMA UsedNat ==
    ASSUME NEW cb
    PROVE  IsFiniteSet(Messages(cb)) /\ Used(cb) \in Nat
<1>1. IsFiniteSet(Node)
  BY QueueAssumption, FS_Interval DEF Node
<1>2. Messages(cb) \in SUBSET Node
  BY DEF Messages
<1>3. IsFiniteSet(Messages(cb))
  BY <1>1, <1>2, FS_Subset
<1> QED BY <1>3, FS_CardinalityType DEF Used

\* The head is read.
LEMMA ReadsRing ==
    ASSUME NEW cb \in ControlBlock, OnRing(cb), cb.len # 0, Ring(cb), Used(cb) > 0, NEW b,
           b = [cb EXCEPT !.node[cb.head] = NoMsg, !.head = Forward(cb, cb.head)]
    PROVE  Ring(b) /\ Used(b) = Used(cb) - 1
<1>1. /\ cb.len \in Nat /\ cb.head \in Nat /\ cb.tail \in Nat /\ cb.head < cb.len
      /\ cb.len <= MaxLen /\ MaxLen \in Nat /\ cb.node \in [Node -> Msg \cup {NoMsg}]
      /\ Used(cb) \in Nat /\ IsFiniteSet(Messages(cb))
  BY LengthsAreNat, QueueAssumption, UsedNat DEF ControlBlock, OnRing
<1>2. cb.head \in Node /\ \A i \in Node : i \in Nat
  BY <1>1 DEF Node
<1>3. /\ b.node = [cb.node EXCEPT ![cb.head] = NoMsg]
      /\ b.head = Forward(cb, cb.head) /\ b.tail = cb.tail /\ b.len = cb.len
  BY DEF ControlBlock
<1>4. \A i \in Node : i \in Messages(b) <=> i \in Messages(cb) /\ i # cb.head
  BY <1>1, <1>2, <1>3 DEF Messages
<1>5. Messages(b) = Messages(cb) \ {cb.head}
  BY <1>4 DEF Messages
<1>6. cb.head \in Messages(cb)
  BY <1>1, <1>2 DEF Ring, Depth
<1>7. Used(b) = Used(cb) - 1
  BY <1>1, <1>5, <1>6, FS_RemoveElement DEF Used
<1>8. ASSUME NEW i \in Node
      PROVE  i \in Messages(b) <=> i < b.len /\ Depth(b, i) < Used(b)
  <2>1. i \in Messages(cb) <=> i < cb.len /\ Depth(cb, i) < Used(cb)
    BY DEF Ring
  <2>2. Used(cb) <= cb.len
    BY DEF Ring
  <2> QED BY <1>1, <1>2, <1>3, <1>4, <1>7, <2>1, <2>2 DEF Depth, Forward
<1>9. b.tail = Wrap(b, b.head + Used(b))
  <2>1. Used(cb) <= cb.len /\ cb.tail = Wrap(cb, cb.head + Used(cb))
    BY DEF Ring
  <2> QED BY <1>1, <1>3, <1>7, <2>1 DEF Wrap, Forward
<1> QED BY <1>1, <1>3, <1>7, <1>8, <1>9 DEF Ring

\* A message is written at the tail, or before the head.
LEMMA WritesRing ==
    ASSUME NEW cb \in ControlBlock, OnRing(cb), cb.len # 0, Ring(cb), Used(cb) < cb.len,
           NEW m \in Msg, NEW b,
           \/ b = [cb EXCEPT !.node[cb.tail] = m, !.tail = Forward(cb, cb.tail)]
           \/ b = [cb EXCEPT !.node[Backward(cb, cb.head)] = m, !.head = Backward(cb, cb.head)]
    PROVE  Ring(b) /\ Used(b) = Used(cb) + 1
<1>1. /\ cb.len \in Nat /\ cb.head \in Nat /\ cb.tail \in Nat /\ cb.head < cb.len
      /\ cb.tail < cb.len
      /\ cb.len <= MaxLen /\ MaxLen \in Nat /\ cb.node \in [Node -> Msg \cup {NoMsg}]
      /\ Used(cb) \in Nat /\ IsFiniteSet(Messages(cb)) /\ m # NoMsg
  BY LengthsAreNat, QueueAssumption, UsedNat DEF ControlBlock, OnRing
<1>2. \A i \in Node : i \in Nat
  BY <1>1 DEF Node
<1>3. cb.tail = Wrap(cb, cb.head + Used(cb))
  BY DEF Ring
<1>4. ASSUME NEW e \in Node, e \notin Messages(cb), b.node = [cb.node EXCEPT ![e] = m]
      PROVE  /\ \A i \in Node : i \in Messages(b) <=> i \in Messages(cb) \/ i = e
             /\ Used(b) = Used(cb) + 1
  <2>1. \A i \in Node : i \in Messages(b) <=> i \in Messages(cb) \/ i = e
    BY <1>1, <1>4 DEF Messages
  <2>2. Messages(b) = Messages(cb) \cup {e}
    BY <2>1 DEF Messages
  <2>3. Used(b) = Used(cb) + 1
    BY <1>1, <1>4, <2>2, FS_AddElement DEF Used
  <2> QED BY <2>1, <2>3
<1>5. CASE b = [cb EXCEPT !.node[cb.tail] = m, !.tail = Forward(cb, cb.tail)]
  <2>1. /\ b.node = [cb.node EXCEPT ![cb.tail] = m]
        /\ b.tail = Forward(cb, cb.tail) /\ b.head = cb.head /\ b.len = cb.len
    BY <1>5 DEF ControlBlock
  <2>2. cb.tail \in Node
    BY <1>1 DEF Node
  <2>3. cb.tail \notin Messages(cb)
    BY <1>1, <1>3, <2>2 DEF Ring, Depth, Wrap
  <2>4. /\ \A i \in Node : i \in Messages(b) <=> i \in Messages(cb) \/ i = cb.tail
        /\ Used(b) = Used(cb) + 1
    BY <1>4, <2>1, <2>2, <2>3
  <2>5. ASSUME NEW i \in Node
        PROVE  i \in Messages(b) <=> i < b.len /\ Depth(b, i) < Used(b)
    <3>1. i \in Messages(cb) <=> i < cb.len /\ Depth(cb, i) < Used(cb)
      BY DEF Ring
    <3> QED BY <1>1, <1>2, <1>3, <2>1, <2>4, <3>1 DEF Depth, Wrap
  <2>6. b.tail = Wrap(b, b.head + Used(b))
    BY <1>1, <1>3, <2>1, <2>4 DEF Wrap, Forward
  <2> QED BY <1>1, <2>1, <2>4, <2>5, <2>6 DEF Ring
<1>6. CASE b = [cb EXCEPT !.node[Backward(cb, cb.head)] = m, !.head = Backward(cb, cb.head)]
  <2> DEFINE e == Backward(cb, cb.head)
  <2>1. /\ b.node = [cb.node EXCEPT ![e] = m]
        /\ b.tail = cb.tail /\ b.head = e /\ b.len = cb.len
    BY <1>6 DEF ControlBlock
  <2>2. e \in Nat /\ e < cb.len /\ e = IF cb.head = 0 THEN cb.len - 1 ELSE cb.head - 1
    BY <1>1 DEF Backward
  <2> HIDE DEF e
  <2>3. e \in Node
    BY <1>1, <2>2 DEF Node
  <2>4. e \notin Messages(cb)
    BY <1>1, <2>2, <2>3 DEF Ring, Depth
  <2>5. /\ \A i \in Node : i \in Messages(b) <=> i \in Messages(cb) \/ i = e
        /\ Used(b) = Used(cb) + 1
    BY <1>4, <2>1, <2>3, <2>4
  <2>6. ASSUME NEW i \in Node
        PROVE  i \in Messages(b) <=> i < b.len /\ Depth(b, i) < Used(b)
    <3>1. i \in Messages(cb) <=> i < cb.len /\ Depth(cb, i) < Used(cb)
      BY DEF Ring
    <3> QED BY <1>1, <1>2, <2>1, <2>2, <2>5, <3>1 DEF Depth
  <2>7. b.tail = Wrap(b, b.head + Used(b))
    BY <1>1, <1>3, <2>1, <2>2, <2>5 DEF Wrap
  <2> QED BY <1>1, <2>1, <2>5, <2>6, <2>7 DEF Ring
<1> QED BY <1>5, <1>6

\* Of one operation on the ring: the message is read, or there is room for it.
LEMMA OperatesRing ==
    ASSUME NEW cb \in ControlBlock, OnRing(cb), cb.len # 0, Ring(cb), NEW j \in Job, NEW b,
           j.rw = "READ" => Used(cb) > 0, j.rw = "WRITE" => Used(cb) < cb.len,
           b = OsQueueBufferOperate(cb, j)
    PROVE  Ring(b) /\ Used(b) = IF j.rw = "READ" THEN Used(cb) - 1 ELSE Used(cb) + 1
<1>1. CASE j.rw = "READ"
  BY <1>1, ReadsRing DEF OsQueueBufferOperate
<1>2. CASE j.rw # "READ"
  <2>1. j.rw = "WRITE" /\ j.msg \in Msg /\ j.at \in {"HEAD", "TAIL"}
    BY <1>2 DEF Job
  <2>2. \/ b = [cb EXCEPT !.node[cb.tail] = j.msg, !.tail = Forward(cb, cb.tail)]
        \/ b = [cb EXCEPT !.node[Backward(cb, cb.head)] = j.msg, !.head = Backward(cb, cb.head)]
    BY <1>2, <2>1 DEF OsQueueBufferOperate
  <2>3. Used(cb) < cb.len
    BY <2>1
  <2>4. Ring(b) /\ Used(b) = Used(cb) + 1
    BY <2>1, <2>2, <2>3, WritesRing
  <2> QED BY <1>2, <2>4
<1> QED BY <1>1, <1>2

-----------------------------------------------------------------------------
(* The reservations. *)

\* The tasks that a node of q is reserved for.
Due(q, rw) == {t \in Task : arg[t] = <<q, rw>> /\ Granted(t)}

LEMMA ReservedIsDue ==
    ASSUME SafeInv
    PROVE  \A q \in Queue, rw \in RW : Reserved(q, rw) = Due(q, rw)
<1>1. ASSUME NEW t \in Task PROVE Contains(todo[t], "result") <=> AtResult(t)
  <2>1. todo[t] \in Rest
    BY DEF SafeInv, TCB
  <2>2. Contains(todo[t], "result") <=> \E i \in 1 .. Len(todo[t]) : todo[t][i] = "result"
    BY DEF Contains
  <2>3. \A s \in Rest : (\E i \in 1 .. Len(s) : s[i] = "result")
                           <=> s \in {<<"schedule", "result">>, <<"result">>}
    BY DEF Rest
  <2> QED BY <2>1, <2>2, <2>3 DEF AtResult
<1>2. \A t \in Task : ~Has(kernel, t, {"PEND", "TIMEOUT"})
                         <=> kernel.status[t] \cap {"PEND", "TIMEOUT"} = {}
  BY DEF Has
<1> QED BY <1>1, <1>2 DEF Reserved, Due, Granted

LEMMA DueFinite == \A q, rw : IsFiniteSet(Due(q, rw)) /\ Cardinality(Due(q, rw)) \in Nat
<1> SUFFICES ASSUME NEW q, NEW rw
             PROVE  IsFiniteSet(Due(q, rw)) /\ Cardinality(Due(q, rw)) \in Nat
  OBVIOUS
<1>1. Due(q, rw) \in SUBSET Task /\ IsFiniteSet(Task)
  BY SchedAssumption DEF Due
<1>2. IsFiniteSet(Due(q, rw))
  BY <1>1, FS_Subset
<1> QED BY <1>2, FS_CardinalityType

\* A call of a task of T is over, or goes on to a wait; those of W are woken.
LEMMA DueAfter ==
    ASSUME NEW T, NEW W \in SUBSET Task, T \cap W = {}, Grants(T, W)
    PROVE  \A q, rw : Due(q, rw)' = (Due(q, rw) \ T) \cup {w \in W : arg[w] = <<q, rw>>}
<1> SUFFICES ASSUME NEW q, NEW rw
             PROVE  Due(q, rw)' = (Due(q, rw) \ T) \cup {w \in W : arg[w] = <<q, rw>>}
  OBVIOUS
<1>1. ASSUME NEW u \in Task
      PROVE  u \in Due(q, rw)' <=> u \in (Due(q, rw) \ T) \cup {w \in W : arg[w] = <<q, rw>>}
  <2>1. /\ Granted(u)' <=> (Granted(u) /\ u \notin T) \/ u \in W
        /\ u \notin T => arg'[u] = arg[u]
    BY DEF Grants, TCB
  <2> QED BY <2>1 DEF Due
<1> QED BY <1>1 DEF Due

\* What the nodes of q are counted as.
Share(cb, rw) == IF rw = "READ" THEN Used(cb) ELSE cb.len - Used(cb)

Balanced(q) ==
    /\ Ring(queueCB[q])
    /\ \A rw \in RW : queueCB[q].cnt[rw] + Cardinality(Due(q, rw)) + lost[q][rw]
                         = Share(queueCB[q], rw)

Unowed(q) == \A rw \in RW : Due(q, rw) = {}

\* The application's job is on the side that its task waits on.
JobInv == \A t \in TCB : AtResult(t) /\ arg[t] \in Queue \X RW => job[t].rw = arg[t][2]

NodeInv ==
    /\ QueueInv /\ ObjInv /\ JobInv
    /\ lost \in [Queue -> [RW -> Nat]]
    /\ \A q \in Queue : IF InUse(q) THEN Balanced(q) ELSE Unowed(q)

LEMMA JobsGoOn ==
    ASSUME JobInv, \A u \in TCB : AtResult(u)' => AtResult(u) /\ arg'[u] = arg[u] /\ job'[u] = job[u]
    PROVE  JobInv'
  BY DEF JobInv

-----------------------------------------------------------------------------
(* The operations keep every node counted once.                            *)

\* The node goes to the first task that waits on the other side, if there is one.
HandedOn(q, j, T, W) ==
    /\ W \in SUBSET Task /\ T \cap W = {} /\ Grants(T, W)
    /\ Opposite(q, j.rw) = <<>> => W = {}
    /\ Opposite(q, j.rw) # <<>> =>
          \E w \in Task : /\ w = Head(Opposite(q, j.rw)) /\ W = {w}
                          /\ ~Granted(w) /\ arg[w] = <<q, Other(j.rw)>>

\* A node that T has taken, by its count or as it was reserved, goes to the other side.
LEMMA OperatedBalance ==
    ASSUME NodeInv, NEW q \in Queue, InUse(q), NEW j \in Job, NEW T, NEW W, HandedOn(q, j, T, W),
           NEW c \in [RW -> Nat], c[Other(j.rw)] = queueCB[q].cnt[Other(j.rw)],
           c[j.rw] + Cardinality(Due(q, j.rw) \ T) + 1
              = queueCB[q].cnt[j.rw] + Cardinality(Due(q, j.rw)),
           Due(q, Other(j.rw)) \cap T = {}, NEW cb, cb = [queueCB[q] EXCEPT !.cnt = c],
           queueCB' = [queueCB EXCEPT ![q] = Operated(q, j, cb)], lost' = lost
    PROVE  Balanced(q)'
<1> DEFINE r == j.rw
           o == Other(r)
           x == queueCB[q]
           b == OsQueueBufferOperate(cb, j)
           y == Operated(q, j, cb)
<1>1. /\ r \in RW /\ o \in RW /\ r # o /\ RW = {r, o}
      /\ \/ r = "READ" /\ o = "WRITE"
         \/ r = "WRITE" /\ o = "READ"
  BY DEF Job, RW, Other
<1>2. /\ x \in ControlBlock /\ OnRing(x) /\ x.len # 0 /\ Ring(x)
      /\ lost[q][r] \in Nat /\ lost[q][o] \in Nat /\ x.cnt \in [RW -> Nat]
      /\ x.len \in Nat /\ Used(x) \in Nat
  <2>1. x \in ControlBlock /\ OnRing(x) /\ Ring(x)
    BY DEF NodeInv, QueueInv, QueueParts, Balanced
  <2>2. x.len # 0
    BY <2>1 DEF OnRing, InUse
  <2> QED BY <1>1, <2>1, <2>2, LengthsAreNat, UsedNat DEF ControlBlock, NodeInv
<1>3. /\ x.cnt[r] + Cardinality(Due(q, r)) + lost[q][r] = Share(x, r)
      /\ x.cnt[o] + Cardinality(Due(q, o)) + lost[q][o] = Share(x, o)
      /\ Used(x) <= x.len
  BY <1>1, <1>2 DEF NodeInv, Balanced, Ring
<1>4. /\ cb \in ControlBlock /\ OnRing(cb) /\ cb.len = x.len /\ cb.cnt = c
      /\ cb.head = x.head /\ cb.tail = x.tail /\ cb.node = x.node
  BY <1>2 DEF ControlBlock, OnRing
<1>5. Messages(cb) = Messages(x) /\ Used(cb) = Used(x) /\ Ring(cb)
  BY <1>2, <1>4 DEF Messages, Used, Ring, Depth, Wrap
<1>6. /\ Cardinality(Due(q, r)) \in Nat /\ Cardinality(Due(q, o)) \in Nat
      /\ IsFiniteSet(Due(q, r)) /\ IsFiniteSet(Due(q, o))
      /\ Cardinality(Due(q, r) \ T) \in Nat
  <2>1. IsFiniteSet(Due(q, r) \ T)
    BY DueFinite, FS_Subset
  <2> QED BY <2>1, DueFinite, FS_CardinalityType
<1> HIDE DEF r, o, x, b, y
<1>7. c[o] = x.cnt[o] /\ c[r] + Cardinality(Due(q, r) \ T) + 1 = x.cnt[r] + Cardinality(Due(q, r))
  BY DEF r, o, x
<1>8. /\ r = "READ" => Used(cb) > 0
      /\ r = "WRITE" => Used(cb) < cb.len
  <2>1. x.cnt[r] \in Nat /\ c[r] \in Nat
    BY <1>1, <1>2
  <2> QED BY <1>2, <1>3, <1>4, <1>5, <1>6, <1>7, <2>1 DEF Share
<1>9. Ring(b) /\ Used(b) = IF r = "READ" THEN Used(x) - 1 ELSE Used(x) + 1
  BY <1>2, <1>4, <1>5, <1>8, OperatesRing DEF b, r
<1>10. b \in ControlBlock /\ b.len = x.len /\ b.cnt = c
  BY <1>2, <1>4, BufferKeeps DEF b, SameButRing
<1>11. W \in SUBSET Task /\ T \cap W = {} /\ Grants(T, W)
  BY DEF HandedOn
<1>12. /\ Due(q, r)' = (Due(q, r) \ T) \cup {w \in W : arg[w] = <<q, r>>}
       /\ Due(q, o)' = (Due(q, o) \ T) \cup {w \in W : arg[w] = <<q, o>>}
  BY <1>11, DueAfter
<1>13. Due(q, o) \ T = Due(q, o)
  BY DEF o, r
<1>14. /\ Ring(y) /\ Used(y) = Used(b) /\ y.len = b.len
       /\ y.cnt[r] + Cardinality(Due(q, r)') + 1 = x.cnt[r] + Cardinality(Due(q, r))
       /\ y.cnt[o] + Cardinality(Due(q, o)') = x.cnt[o] + Cardinality(Due(q, o)) + 1
       /\ y.cnt[r] \in Nat /\ y.cnt[o] \in Nat
       /\ Cardinality(Due(q, r)') \in Nat /\ Cardinality(Due(q, o)') \in Nat
  <2>1. CASE Opposite(q, r) = <<>>
    <3>1. W = {}
      BY <2>1 DEF HandedOn, r
    <3>2. Due(q, r)' = Due(q, r) \ T /\ Due(q, o)' = Due(q, o)
      BY <1>12, <1>13, <3>1
    <3>3. y = [b EXCEPT !.cnt[o] = @ + 1]
      BY <2>1 DEF y, b, o, r, Operated
    <3>4. /\ y.len = b.len /\ y.head = b.head /\ y.tail = b.tail /\ y.node = b.node
          /\ y.cnt[r] = c[r] /\ y.cnt[o] = c[o] + 1
      BY <1>1, <1>10, <3>3 DEF ControlBlock
    <3>5. Messages(y) = Messages(b) /\ Used(y) = Used(b) /\ Ring(y)
      BY <1>9, <3>4 DEF Messages, Used, Ring, Depth, Wrap
    <3>6. c[r] \in Nat /\ c[o] \in Nat
      BY <1>1
    <3> QED BY <1>6, <1>7, <3>2, <3>4, <3>5, <3>6
  <2>2. CASE Opposite(q, r) # <<>>
    <3>1. PICK w \in Task : W = {w} /\ ~Granted(w) /\ arg[w] = <<q, o>>
      BY <2>2 DEF HandedOn, r, o
    <3>2. /\ {v \in W : arg[v] = <<q, r>>} = {}
          /\ {v \in W : arg[v] = <<q, o>>} = {w}
      BY <1>1, <3>1
    <3>3. w \notin Due(q, o)
      BY <3>1 DEF Due
    <3>4. Due(q, r)' = Due(q, r) \ T /\ Due(q, o)' = Due(q, o) \cup {w}
      BY <1>12, <1>13, <3>2
    <3>5. Cardinality(Due(q, o) \cup {w}) = Cardinality(Due(q, o)) + 1
      BY <1>6, <3>3, FS_AddElement
    <3>6. y = b
      BY <2>2 DEF y, b, r, Operated
    <3>7. c[r] \in Nat /\ c[o] \in Nat
      BY <1>1
    <3> QED BY <1>6, <1>7, <1>9, <1>10, <3>4, <3>5, <3>6, <3>7
  <2> QED BY <2>1, <2>2
<1>15. queueCB'[q] = y /\ lost'[q] = lost[q]
  <2>1. queueCB \in [Queue -> ControlBlock]
    BY DEF NodeInv, QueueInv, QueueParts
  <2>2. queueCB' = [queueCB EXCEPT ![q] = y]
    BY DEF y
  <2> QED BY <2>1, <2>2
<1>16. Share(y, r) = Share(x, r) - 1 /\ Share(y, o) = Share(x, o) + 1
  BY <1>1, <1>2, <1>9, <1>10, <1>14 DEF Share
<1>17. /\ Share(x, r) \in Int /\ Share(x, o) \in Int
       /\ x.cnt[r] \in Nat /\ x.cnt[o] \in Nat
  BY <1>1, <1>2 DEF Share
<1>18. /\ y.cnt[r] + Cardinality(Due(q, r)') + lost[q][r] = Share(y, r)
       /\ y.cnt[o] + Cardinality(Due(q, o)') + lost[q][o] = Share(y, o)
  BY <1>2, <1>3, <1>6, <1>14, <1>16, <1>17
<1>19. \A rw \in RW : y.cnt[rw] + Cardinality(Due(q, rw)') + lost[q][rw] = Share(y, rw)
  BY <1>1, <1>18
<1> QED BY <1>14, <1>15, <1>19 DEF Balanced

\* The other queues are not concerned.
LEMMA OperatedNodes ==
    ASSUME NodeInv, QueueInv', ObjInv', JobInv', NEW q \in Queue, InUse(q), NEW j \in Job,
           NEW T, NEW W, HandedOn(q, j, T, W),
           NEW c \in [RW -> Nat], c[Other(j.rw)] = queueCB[q].cnt[Other(j.rw)],
           c[j.rw] + Cardinality(Due(q, j.rw) \ T) + 1
              = queueCB[q].cnt[j.rw] + Cardinality(Due(q, j.rw)),
           \A z \in Queue, rw \in RW : <<z, rw>> # <<q, j.rw>> => Due(z, rw) \cap T = {},
           NEW cb, cb = [queueCB[q] EXCEPT !.cnt = c],
           queueCB' = [queueCB EXCEPT ![q] = Operated(q, j, cb)], lost' = lost
    PROVE  NodeInv'
<1>1. j.rw \in RW /\ Other(j.rw) \in RW /\ <<q, Other(j.rw)>> # <<q, j.rw>>
  BY DEF Job, RW, Other
<1>2. Due(q, Other(j.rw)) \cap T = {}
  BY <1>1
<1>3. Balanced(q)'
  BY <1>2, OperatedBalance
<1>4. queueCB \in [Queue -> ControlBlock] /\ queueCB' \in [Queue -> ControlBlock]
  BY DEF NodeInv, QueueInv, QueueParts
<1>5. \A z \in Queue : z # q => queueCB'[z] = queueCB[z]
  BY <1>4
<1>6. /\ W \in SUBSET Task /\ T \cap W = {} /\ Grants(T, W)
      /\ \A w \in W : arg[w] = <<q, Other(j.rw)>>
  BY DEF HandedOn
<1>7. ASSUME NEW z \in Queue, z # q, NEW rw \in RW
      PROVE  Due(z, rw)' = Due(z, rw)
  <2>1. Due(z, rw) \cap T = {}
    BY <1>7
  <2>2. {w \in W : arg[w] = <<z, rw>>} = {}
    BY <1>6, <1>7
  <2>3. Due(z, rw)' = (Due(z, rw) \ T) \cup {w \in W : arg[w] = <<z, rw>>}
    BY <1>6, DueAfter
  <2> QED BY <2>1, <2>2, <2>3
<1>8. InUse(q)'
  <2>1. queueCB[q] \in ControlBlock /\ OnRing(queueCB[q]) /\ queueCB[q].len # 0
    BY <1>4 DEF NodeInv, QueueInv, QueueParts, OnRing, InUse
  <2>2. cb \in ControlBlock /\ OnRing(cb) /\ cb.len # 0 /\ cb.stat = queueCB[q].stat
    BY <2>1 DEF ControlBlock, OnRing
  <2>3. Operated(q, j, cb).stat = cb.stat
    BY <2>2, OperatedKeeps
  <2> QED BY <1>4, <2>2, <2>3 DEF InUse
<1>9. ASSUME NEW z \in Queue
      PROVE  IF InUse(z)' THEN Balanced(z)' ELSE Unowed(z)'
  <2>1. CASE z = q
    BY <1>3, <1>8, <2>1
  <2>2. CASE z # q
    <3>1. /\ InUse(z)' <=> InUse(z)
          /\ IF InUse(z) THEN Balanced(z) ELSE Unowed(z)
      BY <1>5, <2>2 DEF InUse, NodeInv
    <3>2. InUse(z) => Balanced(z)'
      BY <1>5, <1>7, <2>2, <3>1 DEF Balanced
    <3>3. ~InUse(z) => Unowed(z)'
      BY <1>7, <2>2, <3>1 DEF Unowed
    <3> QED BY <3>1, <3>2, <3>3
  <2> QED BY <2>1, <2>2
<1>10. lost' \in [Queue -> [RW -> Nat]]
  BY DEF NodeInv
<1> QED BY <1>9, <1>10 DEF NodeInv

LEMMA HandsOn ==
    ASSUME TaskInv, ObjInv, NEW t \in TCB, Thread(t),
           \/ todo[t] = <<>>
           \/ todo[t] # <<>> /\ Head(todo[t]) = "result" /\ "TIMEOUT" \notin kernel.status[t],
           NEW q \in Queue, NEW j \in Job, OperatedCall(t, q, j)
    PROVE  /\ ObjInv' /\ \E W : HandedOn(q, j, {t}, W)
           /\ \A u \in TCB : AtResult(u)' => u # t /\ AtResult(u) /\ arg'[u] = arg[u]
<1>1. /\ <<q, Other(j.rw)>> \in WaitObj /\ Opposite(q, j.rw) = kernel.pend[<<q, Other(j.rw)>>]
  BY ListsAreObjects DEF Opposite, Other, RW
<1>2. \A s \in Plain : s \notin {<<"schedule", "result">>, <<"result">>}
  BY PlainRest
<1>3. CASE Opposite(q, j.rw) = <<>>
  <2>1. Call(t, kernel, <<>>, NoArg) /\ <<>> \in Plain
    BY <1>3 DEF OperatedCall, Plain
  <2>2. ObjInv' /\ Grants({t}, {}) /\ todo'[t] = <<>>
    BY <2>1, WorkGoes
  <2>3. HandedOn(q, j, {t}, {})
    BY <1>3, <2>2 DEF HandedOn
  <2> QED BY <1>2, <2>1, <2>2, <2>3 DEF Grants, AtResult
<1>4. CASE Opposite(q, j.rw) # <<>>
  <2>1. PICK o : o = <<q, Other(j.rw)>>
    OBVIOUS
  <2>2. PICK w : w = Head(kernel.pend[o])
    OBVIOUS
  <2>3. /\ o \in WaitObj /\ kernel.pend[o] # <<>> /\ AsBefore(kernel)
        /\ Call(t, OsSchedTaskWake(kernel, w), <<"schedule">>, NoArg)
    BY <1>1, <1>4, <2>1, <2>2, SelfAsBefore DEF OperatedCall, ObjInv
  <2>4. /\ ObjInv' /\ Grants({t}, {w}) /\ ~Granted(w) /\ todo'[t] = <<"schedule">>
        /\ w \in Task /\ w # t /\ arg[w] = o /\ AtResult(w)
    <3>1. \/ todo[t] = <<>>
          \/ todo[t] # <<>> /\ Head(todo[t]) \in {"eventRead", "eventWrite"}
          \/ todo[t] # <<>> /\ Head(todo[t]) = "result" /\ "TIMEOUT" \notin kernel.status[t]
      OBVIOUS
    <3>2. ObjInv' /\ Grants({t}, {w}) /\ ~Granted(w) /\ todo'[t] = <<"schedule">>
      BY <2>2, <2>3, <3>1, WakeGoes
    <3>3. PICK m : m = OsSchedTaskWake(kernel, w)
      OBVIOUS
    <3>4. w \in Task /\ Results(w, o)
      BY <2>2, <2>3, <3>3, FirstWaiter DEF ObjInv
    <3>5. AtResult(w) /\ arg[w] = o
      BY <3>4 DEF Results, AtResult
    <3>6. Granted(w)' /\ ~AtResult(t)'
      BY <3>2, <3>4 DEF Grants, TCB, AtResult
    <3>7. w # t
      BY <3>6 DEF Granted
    <3> QED BY <3>2, <3>4, <3>5, <3>7
  <2>5. {t} \cap {w} = {} /\ {w} \in SUBSET Task
    BY <2>4
  <2>6. HandedOn(q, j, {t}, {w})
    BY <1>1, <1>4, <2>1, <2>2, <2>4, <2>5 DEF HandedOn
  <2>7. <<"schedule">> \in Plain
    BY DEF Plain
  <2> QED BY <1>2, <2>4, <2>6, <2>7 DEF Grants, AtResult
<1> QED BY <1>3, <1>4

\* A message is read or written without a wait.
LEMMA OperateNodes ==
    ASSUME NodeInv, NEW t \in TCB, NEW q \in Queue, NEW j \in Job, QueueOperate(t, q, j)
    PROVE  NodeInv'
<1>0. PICK c : c = [queueCB[q].cnt EXCEPT ![j.rw] = @ - 1]
  OBVIOUS
<1>1. /\ Thread(t) /\ todo[t] = <<>> /\ InUse(q) /\ queueCB[q].cnt[j.rw] > 0
      /\ OperatedCall(t, q, j) /\ lost' = lost /\ job' = job
      /\ queueCB' = [queueCB EXCEPT ![q] = Operated(q, j, Counted(q, j.rw))]
  BY DEF QueueOperate, App
<1>2. TaskInv /\ ObjInv /\ QueueInv /\ JobInv
  BY DEF NodeInv, QueueInv
<1>3. /\ ObjInv' /\ \E W : HandedOn(q, j, {t}, W)
      /\ \A u \in TCB : AtResult(u)' => u # t /\ AtResult(u) /\ arg'[u] = arg[u]
  BY <1>1, <1>2, HandsOn
<1>4. PICK W : HandedOn(q, j, {t}, W)
  BY <1>3
<1>5. JobInv'
  BY <1>1, <1>2, <1>3, JobsGoOn
<1>6. QueueInv'
  BY <1>2, OperateStep
<1>7. /\ queueCB[q] \in ControlBlock /\ queueCB[q].cnt \in [RW -> Nat]
      /\ j.rw \in RW /\ Other(j.rw) \in RW /\ Other(j.rw) # j.rw
  BY <1>2 DEF QueueInv, QueueParts, ControlBlock, Job, Other, RW
<1>8. Counted(q, j.rw) = [queueCB[q] EXCEPT !.cnt = c]
  BY <1>0, <1>7 DEF Counted, ControlBlock
<1>9. /\ c \in [RW -> Nat] /\ c[Other(j.rw)] = queueCB[q].cnt[Other(j.rw)]
      /\ c[j.rw] + 1 = queueCB[q].cnt[j.rw] /\ c[j.rw] \in Nat
  BY <1>0, <1>1, <1>7
<1>10. \A z, rw : Due(z, rw) \cap {t} = {} /\ Due(z, rw) \ {t} = Due(z, rw)
  <2>1. ~Granted(t)
    BY <1>1 DEF Granted, AtResult
  <2> QED BY <2>1 DEF Due
<1>11. c[j.rw] + Cardinality(Due(q, j.rw) \ {t}) + 1
          = queueCB[q].cnt[j.rw] + Cardinality(Due(q, j.rw))
  <2>1. Cardinality(Due(q, j.rw)) \in Nat /\ Due(q, j.rw) \ {t} = Due(q, j.rw)
    BY <1>10, DueFinite
  <2>2. queueCB[q].cnt[j.rw] \in Nat
    BY <1>7
  <2> QED BY <1>9, <2>1, <2>2
<1>12. PICK cb : cb = [queueCB[q] EXCEPT !.cnt = c]
  OBVIOUS
<1>13. queueCB' = [queueCB EXCEPT ![q] = Operated(q, j, cb)]
  BY <1>1, <1>8, <1>12
<1>14. \A z \in Queue, rw \in RW : <<z, rw>> # <<q, j.rw>> => Due(z, rw) \cap {t} = {}
  BY <1>10
<1> QED BY <1>1, <1>3, <1>4, <1>5, <1>6, <1>9, <1>11, <1>12, <1>13, <1>14, OperatedNodes

\* The task that the node was reserved for takes it.
LEMMA GrantedNodes ==
    ASSUME NodeInv, NEW t \in TCB, QueueGranted(t)
    PROVE  NodeInv'
<1>1. /\ Doing(t, "result") /\ arg[t] \in Queue \X RW /\ ~Has(kernel, t, {"PEND", "TIMEOUT"})
      /\ lost' = lost /\ job' = [job EXCEPT ![t] = NoJob] /\ AtResult(t) /\ t \in Task
  <2>1. Doing(t, "result") /\ TaskInv /\ SafeInv /\ OutcomeInv
    BY DEF QueueGranted, NodeInv, QueueInv, ObjInv
  <2>2. t \in Task => kernel.status[t] \cap Blocking = {}
    BY <2>1, WorkFlags DEF Doing
  <2>3. AtResult(t)
    <3>1. todo[t] \in Rest /\ todo[t] # <<>> /\ Head(todo[t]) = "result"
      BY <2>1 DEF SafeInv, Doing
    <3> QED BY <3>1 DEF Rest, AtResult
  <2>4. t \in Task
    BY <2>1, <2>3 DEF OutcomeInv
  <2> QED BY <2>2, <2>3, <2>4 DEF QueueGranted, Has, Blocking
<1>2. TaskInv /\ ObjInv /\ QueueInv /\ JobInv /\ SafeInv /\ OutcomeInv
  BY DEF NodeInv, QueueInv, ObjInv
<1>3. PICK q \in Queue, r \in RW : arg[t] = <<q, r>>
  BY <1>1
<1>4. PICK j : j = job[t]
  OBVIOUS
<1>5. Granted(t)
  BY <1>1 DEF Granted, Has
<1>6. j \in Job /\ j.rw = r
  BY <1>1, <1>2, <1>3, <1>4 DEF JobInv, QueueInv, QueueParts
<1>7. /\ OperatedCall(t, q, j)
      /\ queueCB' = [queueCB EXCEPT ![q] = Operated(q, j, queueCB[q])]
  BY <1>3, <1>4 DEF QueueGranted, GrantedBlock
<1>8. t \in Due(q, r)
  BY <1>1, <1>3, <1>5 DEF Due
<1>9. InUse(q)
  BY <1>8 DEF NodeInv, Unowed
<1>10. /\ ObjInv' /\ \E W : HandedOn(q, j, {t}, W)
       /\ \A u \in TCB : AtResult(u)' => u # t /\ AtResult(u) /\ arg'[u] = arg[u]
  <2>1. Thread(t) /\ todo[t] # <<>> /\ Head(todo[t]) = "result" /\ "TIMEOUT" \notin kernel.status[t]
    BY <1>1 DEF Doing, Has
  <2> QED BY <1>2, <1>6, <1>7, <2>1, HandsOn
<1>11. PICK W : HandedOn(q, j, {t}, W)
  BY <1>10
<1>12. JobInv'
  <2>1. \A u \in TCB : u # t => job'[u] = job[u]
    BY <1>1, <1>2 DEF QueueInv, QueueParts
  <2> QED BY <1>2, <1>10, <2>1, JobsGoOn
<1>13. QueueInv'
  BY <1>2, GrantedStep
<1>14. PICK c : c = queueCB[q].cnt
  OBVIOUS
<1>15. queueCB[q] \in ControlBlock /\ c \in [RW -> Nat] /\ queueCB[q] = [queueCB[q] EXCEPT !.cnt = c]
  BY <1>2, <1>14 DEF QueueInv, QueueParts, ControlBlock
<1>16. c[j.rw] + Cardinality(Due(q, j.rw) \ {t}) + 1
          = queueCB[q].cnt[j.rw] + Cardinality(Due(q, j.rw))
  <2>1. c[r] \in Nat /\ Cardinality(Due(q, r)) \in Nat /\ IsFiniteSet(Due(q, r))
    BY <1>15, DueFinite
  <2>2. Cardinality(Due(q, r) \ {t}) = Cardinality(Due(q, r)) - 1
    BY <1>8, <2>1, FS_RemoveElement
  <2> QED BY <1>6, <1>14, <2>1, <2>2
<1>17. \A z \in Queue, rw \in RW : <<z, rw>> # <<q, j.rw>> => Due(z, rw) \cap {t} = {}
  BY <1>3, <1>6 DEF Due
<1>18. PICK cb : cb = queueCB[q]
  OBVIOUS
<1>19. /\ cb = [queueCB[q] EXCEPT !.cnt = c]
       /\ queueCB' = [queueCB EXCEPT ![q] = Operated(q, j, cb)]
       /\ c[Other(j.rw)] = queueCB[q].cnt[Other(j.rw)]
  BY <1>7, <1>14, <1>15, <1>18
<1> QED BY <1>1, <1>6, <1>9, <1>10, <1>11, <1>12, <1>13, <1>15, <1>16, <1>17, <1>19, OperatedNodes

\* An interrupt reads or writes.
LEMMA IsrHandsOn ==
    ASSUME TaskInv, ObjInv, NEW q \in Queue, NEW j \in Job, IsrQueueOperate(q, j)
    PROVE  ObjInv' /\ \E W : HandedOn(q, j, {}, W)
<1>1. /\ <<q, Other(j.rw)>> \in WaitObj /\ Opposite(q, j.rw) = kernel.pend[<<q, Other(j.rw)>>]
      /\ UNCHANGED <<todo, arg, handles>>
  BY ListsAreObjects DEF Opposite, Other, RW, IsrQueueOperate
<1>2. CASE Opposite(q, j.rw) = <<>>
  <2>1. kernel' = kernel
    BY <1>2 DEF IsrQueueOperate
  <2>2. ObjInv'
    BY <1>1, <2>1 DEF ObjInv, ControlInv, SafeInv, OutcomeInv, SwitchComes, CreateInv, JoinInv,
                      ResultInv, HandleInv, Creating, Reclaims, Joins, Results, AtResult
  <2>3. Grants({}, {})
    BY <1>1, <2>1 DEF Grants, Granted, AtResult
  <2>4. HandedOn(q, j, {}, {})
    BY <1>2, <2>3 DEF HandedOn
  <2> QED BY <2>2, <2>4
<1>3. CASE Opposite(q, j.rw) # <<>>
  <2>1. PICK o : o = <<q, Other(j.rw)>>
    OBVIOUS
  <2>2. PICK w : w = Head(kernel.pend[o])
    OBVIOUS
  <2>3. /\ o \in WaitObj /\ kernel.pend[o] # <<>>
        /\ kernel' = LOS_Schedule(OsSchedTaskWake(kernel, w))
    BY <1>1, <1>3, <2>1, <2>2 DEF IsrQueueOperate
  <2>4. ObjInv' /\ Grants({}, {w}) /\ ~Granted(w) /\ w \in Task /\ arg[w] = o
    BY <1>1, <2>2, <2>3, IsrWakeGoes
  <2>5. HandedOn(q, j, {}, {w})
    BY <1>1, <1>3, <2>1, <2>2, <2>4 DEF HandedOn
  <2> QED BY <2>4, <2>5
<1> QED BY <1>2, <1>3

LEMMA IsrNodes ==
    ASSUME NodeInv, NEW q \in Queue, NEW j \in Job, IsrQueueOperate(q, j)
    PROVE  NodeInv'
<1>0. PICK c : c = [queueCB[q].cnt EXCEPT ![j.rw] = @ - 1]
  OBVIOUS
<1>1. /\ InUse(q) /\ queueCB[q].cnt[j.rw] > 0 /\ lost' = lost /\ job' = job
      /\ UNCHANGED <<todo, arg, handles>>
      /\ queueCB' = [queueCB EXCEPT ![q] = Operated(q, j, Counted(q, j.rw))]
  BY DEF IsrQueueOperate
<1>2. TaskInv /\ ObjInv /\ QueueInv /\ JobInv
  BY DEF NodeInv, QueueInv
<1>3. ObjInv' /\ \E W : HandedOn(q, j, {}, W)
  BY <1>2, IsrHandsOn
<1>4. PICK T, W : T = {} /\ HandedOn(q, j, T, W)
  BY <1>3
<1>5. JobInv'
  BY <1>1, <1>2, JobsGoOn DEF AtResult
<1>6. QueueInv'
  BY <1>2, IsrOperateStep
<1>7. /\ queueCB[q] \in ControlBlock /\ queueCB[q].cnt \in [RW -> Nat]
      /\ j.rw \in RW /\ Other(j.rw) \in RW /\ Other(j.rw) # j.rw
  BY <1>2 DEF QueueInv, QueueParts, ControlBlock, Job, Other, RW
<1>8. Counted(q, j.rw) = [queueCB[q] EXCEPT !.cnt = c]
  BY <1>0, <1>7 DEF Counted, ControlBlock
<1>9. /\ c \in [RW -> Nat] /\ c[Other(j.rw)] = queueCB[q].cnt[Other(j.rw)]
      /\ c[j.rw] + 1 = queueCB[q].cnt[j.rw] /\ c[j.rw] \in Nat
  BY <1>0, <1>1, <1>7
<1>10. c[j.rw] + Cardinality(Due(q, j.rw) \ T) + 1
          = queueCB[q].cnt[j.rw] + Cardinality(Due(q, j.rw))
  <2>1. Cardinality(Due(q, j.rw)) \in Nat
    BY DueFinite
  <2>2. Due(q, j.rw) \ T = Due(q, j.rw)
    BY <1>4
  <2>3. queueCB[q].cnt[j.rw] \in Nat
    BY <1>7
  <2>4. c[j.rw] + Cardinality(Due(q, j.rw)) + 1
           = queueCB[q].cnt[j.rw] + Cardinality(Due(q, j.rw))
    BY <1>9, <2>1, <2>3
  <2> QED BY <2>2, <2>4
<1>11. PICK cb : cb = [queueCB[q] EXCEPT !.cnt = c]
  OBVIOUS
<1>12. queueCB' = [queueCB EXCEPT ![q] = Operated(q, j, cb)]
  BY <1>1, <1>8, <1>11
<1>13. \A z \in Queue, rw \in RW : <<z, rw>> # <<q, j.rw>> => Due(z, rw) \cap T = {}
  BY <1>4
<1>14. HandedOn(q, j, T, W) /\ ObjInv'
  BY <1>3, <1>4
<1>15. InUse(q) /\ lost' = lost /\ c \in [RW -> Nat] /\ c[Other(j.rw)] = queueCB[q].cnt[Other(j.rw)]
  BY <1>1, <1>9
<1> QED BY <1>5, <1>6, <1>10, <1>11, <1>12, <1>13, <1>14, <1>15, OperatedNodes

-----------------------------------------------------------------------------
(* The steps that move no message, and the theorems.                       *)

\* Only tasks and calls change: what is due stays due, or is given back by the caller.
LEMMA QuietNodes ==
    ASSUME NodeInv, QueueInv', ObjInv', JobInv', queueCB' = queueCB, lost' = lost,
           \A q \in Queue, rw \in RW : Due(q, rw)' = Due(q, rw)
    PROVE  NodeInv'
<1>1. \A q \in Queue : InUse(q)' <=> InUse(q)
  BY DEF InUse
<1>2. ASSUME NEW q \in Queue PROVE IF InUse(q)' THEN Balanced(q)' ELSE Unowed(q)'
  <2>1. IF InUse(q) THEN Balanced(q) ELSE Unowed(q)
    BY DEF NodeInv
  <2>2. InUse(q) => Balanced(q)'
    BY <2>1 DEF Balanced
  <2>3. ~InUse(q) => Unowed(q)'
    BY <2>1 DEF Unowed
  <2> QED BY <1>1, <2>2, <2>3
<1> QED BY <1>2 DEF NodeInv

\* A task waits: nothing is due to it until it is woken.
LEMMA WaitNodes ==
    ASSUME NodeInv, NEW t \in TCB, NEW q \in Queue, NEW j \in Job, NEW timeout \in QueueTimeout,
           QueueWait(t, q, j, timeout)
    PROVE  NodeInv'
<1>1. TaskInv /\ ObjInv /\ QueueInv /\ JobInv /\ job \in [TCB -> Job]
  BY DEF NodeInv, QueueInv, QueueParts
<1>2. PICK o : o = <<q, j.rw>>
  OBVIOUS
<1>3. /\ Thread(t) /\ t \in Task /\ todo[t] = <<>> /\ kernel.lock = 0
      /\ Call(t, OsSchedTaskWait(kernel, o, timeout), <<"schedule", "result">>, o)
      /\ queueCB' = queueCB /\ lost' = lost /\ job' = [job EXCEPT ![t] = j]
  BY <1>2 DEF QueueWait, App
<1>4. o \in WaitObj /\ AsBefore(kernel) /\ timeout \in (0 .. MaxDelay) \cup {NoTime}
  <2>1. o \in WaitObj
    BY <1>2, ListsAreObjects DEF Job, RW
  <2> QED BY <1>1, <2>1, SelfAsBefore, QueueAssumption DEF ObjInv
<1>5. todo[t] \in {<<>>, <<"eventRead">>}
  BY <1>3
<1>6. /\ ObjInv' /\ Grants({t}, {}) /\ todo'[t] = <<"schedule", "result">> /\ arg'[t] = o
  BY <1>1, <1>3, <1>4, <1>5, WaitGoes
<1>7. QueueInv'
  BY <1>1, WaitStep
<1>8. JobInv'
  <2>1. ASSUME NEW u \in TCB, AtResult(u)', arg'[u] \in Queue \X RW PROVE job'[u].rw = arg'[u][2]
    <3>1. CASE u = t
      BY <1>1, <1>2, <1>3, <1>6, <3>1
    <3>2. CASE u # t
      BY <1>1, <1>3, <1>6, <2>1, <3>2 DEF JobInv, Grants, AtResult
    <3> QED BY <3>1, <3>2
  <2> QED BY <2>1 DEF JobInv
<1>9. \A z, rw : Due(z, rw)' = Due(z, rw)
  <2>1. ~Granted(t)
    BY <1>3 DEF Granted, AtResult
  <2>2. \A z, rw : Due(z, rw)' = (Due(z, rw) \ {t}) \cup {w \in {} : arg[w] = <<z, rw>>}
    BY <1>6, DueAfter
  <2> QED BY <2>1, <2>2 DEF Due
<1> QED BY <1>3, <1>6, <1>7, <1>8, <1>9, QuietNodes

\* A wait that has run out had no node.
LEMMA TimedOutNodes ==
    ASSUME NodeInv, NEW t \in TCB, QueueTimedOut(t)
    PROVE  NodeInv'
<1>1. TaskInv /\ ObjInv /\ QueueInv /\ JobInv /\ job \in [TCB -> Job]
  BY DEF NodeInv, QueueInv, QueueParts
<1>2. /\ Doing(t, "result") /\ Has(kernel, t, {"TIMEOUT"})
      /\ Call(t, [kernel EXCEPT !.status[t] = @ \ {"TIMEOUT"}], <<>>, NoArg)
      /\ queueCB' = queueCB /\ lost' = lost /\ job' = [job EXCEPT ![t] = NoJob]
  BY DEF QueueTimedOut
<1>3. ObjInv' /\ Grants({t}, {}) /\ todo'[t] = <<>>
  <2>1. <<>> \in Plain
    BY DEF Plain
  <2> QED BY <1>1, <1>2, <2>1, TimeoutGoes
<1>4. QueueInv'
  BY <1>1, TimedOutStep
<1>5. JobInv'
  BY <1>1, <1>2, <1>3, JobsGoOn DEF Grants, AtResult
<1>6. \A z, rw : Due(z, rw)' = Due(z, rw)
  <2>1. ~Granted(t)
    BY <1>2 DEF Granted, Has
  <2>2. \A z, rw : Due(z, rw)' = (Due(z, rw) \ {t}) \cup {w \in {} : arg[w] = <<z, rw>>}
    BY <1>3, DueAfter
  <2> QED BY <2>1, <2>2 DEF Due
<1> QED BY <1>2, <1>3, <1>4, <1>5, <1>6, QuietNodes

\* The tasks as they are.
LEMMA SameTasks ==
    ASSUME Unprotected = {}, NodeInv, UNCHANGED taskVars
    PROVE  ObjInv' /\ \A q, rw : Due(q, rw)' = Due(q, rw)
<1>1. ObjInv'
  BY TaskGoes DEF NodeInv, QueueInv
<1>2. \A q, rw : Due(q, rw)' = Due(q, rw)
  BY DEF Due, Granted, AtResult, taskVars
<1> QED BY <1>1, <1>2

\* A new queue has no message, and nothing is due to anybody.
LEMMA CreateNodes ==
    ASSUME Unprotected = {}, NodeInv, NEW t \in TCB, NEW len \in QueueLen, OsQueueCreate(t, len)
    PROVE  NodeInv'
<1>1. PICK q : q = Head(freeQueue)
  OBVIOUS
<1>2. PICK cb : cb = [stat |-> "INUSE", len |-> len, cnt |-> [READ |-> 0, WRITE |-> len],
                      head |-> 0, tail |-> 0, node |-> [i \in Node |-> NoMsg]]
  OBVIOUS
<1>3. /\ UNCHANGED taskVars /\ job' = job /\ freeQueue # <<>>
      /\ queueCB' = [queueCB EXCEPT ![q] = cb] /\ lost' = [lost EXCEPT ![q] = NoCount]
  BY <1>1, <1>2 DEF OsQueueCreate
<1>4. q \in Queue /\ ~InUse(q)
  <2>1. freeQueue \in Seq(Queue) /\ freeQueue # <<>> /\ IsInjective(freeQueue)
    BY <1>3 DEF NodeInv, QueueInv, QueueParts, FreeQueues
  <2>2. q \in Queue /\ Contains(freeQueue, q)
    BY <1>1, <2>1, TakeFirst
  <2> QED BY <2>2 DEF NodeInv, QueueInv, FreeQueues
<1>5. ObjInv' /\ \A z, rw : Due(z, rw)' = Due(z, rw)
  BY <1>3, SameTasks
<1>6. QueueInv'
  BY CreateQueue DEF NodeInv
<1>7. JobInv'
  BY <1>3, JobsGoOn DEF NodeInv, AtResult, taskVars
<1>8. len \in Nat /\ NoCount \in [RW -> Nat] /\ \A rw \in RW : NoCount[rw] = 0
  BY LengthsAreNat DEF NoCount
<1>9. lost \in [Queue -> [RW -> Nat]] /\ queueCB \in [Queue -> ControlBlock]
  BY DEF NodeInv, QueueInv, QueueParts
<1>10. lost' \in [Queue -> [RW -> Nat]]
  BY <1>3, <1>8, <1>9
<1>11. Ring(cb) /\ Used(cb) = 0
  <2>1. Messages(cb) = {}
    BY <1>2 DEF Messages
  <2>2. Used(cb) = 0
    BY <2>1, FS_EmptySet DEF Used
  <2>3. \A i \in Node : i \in Nat
    BY QueueAssumption DEF Node
  <2> QED BY <1>2, <1>8, <2>1, <2>2, <2>3, LengthsAreNat DEF Ring, Depth, Wrap
<1>12. Balanced(q)'
  <2>1. queueCB'[q] = cb /\ lost'[q] = NoCount
    BY <1>3, <1>4, <1>9
  <2>2. \A rw \in RW : Cardinality(Due(q, rw)') = 0
    BY <1>4, <1>5, FS_EmptySet DEF NodeInv, Unowed
  <2>3. \A rw \in RW : cb.cnt[rw] = Share(cb, rw) /\ cb.cnt[rw] \in Nat
    BY <1>2, <1>8, <1>11 DEF RW, Share
  <2>4. \A rw \in RW : cb.cnt[rw] + Cardinality(Due(q, rw)') + NoCount[rw] = Share(cb, rw)
    BY <1>8, <2>2, <2>3
  <2> QED BY <1>11, <2>1, <2>4 DEF Balanced
<1>13. InUse(q)'
  BY <1>2, <1>3, <1>4, <1>9 DEF InUse
<1>14. ASSUME NEW z \in Queue PROVE IF InUse(z)' THEN Balanced(z)' ELSE Unowed(z)'
  <2>1. CASE z = q
    BY <1>12, <1>13, <2>1
  <2>2. CASE z # q
    <3>1. queueCB'[z] = queueCB[z] /\ lost'[z] = lost[z]
      BY <1>3, <1>9, <2>2
    <3>2. IF InUse(z) THEN Balanced(z) ELSE Unowed(z)
      BY DEF NodeInv
    <3>3. InUse(z)' <=> InUse(z)
      BY <3>1 DEF InUse
    <3>4. InUse(z) => Balanced(z)'
      BY <1>5, <3>1, <3>2 DEF Balanced
    <3>5. ~InUse(z) => Unowed(z)'
      BY <1>5, <3>2 DEF Unowed
    <3> QED BY <3>3, <3>4, <3>5
  <2> QED BY <2>1, <2>2
<1> QED BY <1>5, <1>6, <1>7, <1>10, <1>14 DEF NodeInv

\* A queue whose nodes are all counted is owed to nobody.
LEMMA DeleteNodes ==
    ASSUME Unprotected = {}, NodeInv, NEW t \in TCB, NEW q \in Queue, QueueDelete(t, q)
    PROVE  NodeInv'
<1>1. /\ UNCHANGED taskVars /\ job' = job /\ lost' = lost /\ InUse(q)
      /\ queueCB' = [queueCB EXCEPT ![q].stat = "UNUSED", ![q].node = [i \in Node |-> NoMsg]]
      /\ queueCB[q].cnt["READ"] + queueCB[q].cnt["WRITE"] = queueCB[q].len
  BY DEF QueueDelete, QueueDeletable
<1>2. ObjInv' /\ \A z, rw : Due(z, rw)' = Due(z, rw)
  BY <1>1, SameTasks
<1>3. QueueInv'
  BY DeleteQueue DEF NodeInv
<1>4. JobInv'
  BY <1>1, JobsGoOn DEF NodeInv, AtResult, taskVars
<1>5. queueCB \in [Queue -> ControlBlock] /\ lost \in [Queue -> [RW -> Nat]]
  BY DEF NodeInv, QueueInv, QueueParts
<1>6. \A z \in Queue : z # q => queueCB'[z] = queueCB[z]
  BY <1>1, <1>5
<1>7. queueCB'[q].stat = "UNUSED"
  BY <1>1, <1>5 DEF ControlBlock
<1>8. Unowed(q)
  <2> DEFINE cr == queueCB[q].cnt["READ"]
             cw == queueCB[q].cnt["WRITE"]
             dr == Cardinality(Due(q, "READ"))
             dw == Cardinality(Due(q, "WRITE"))
             lr == lost[q]["READ"]
             lw == lost[q]["WRITE"]
             used == Used(queueCB[q])
             len == queueCB[q].len
  <2>1. cr + dr + lr = used /\ cw + dw + lw = len - used
    <3>1. Balanced(q) /\ "READ" \in RW /\ "WRITE" \in RW
      BY <1>1 DEF NodeInv, RW
    <3> QED BY <3>1 DEF Balanced, Share
  <2>2. cr \in Nat /\ cw \in Nat /\ lr \in Nat /\ lw \in Nat /\ used \in Nat /\ len \in Nat
    BY <1>5, UsedNat, LengthsAreNat DEF ControlBlock, RW
  <2>3. dr \in Nat /\ dw \in Nat
    BY DueFinite
  <2>4. cr + cw = len
    BY <1>1
  <2>5. dr = 0 /\ dw = 0
    <3> HIDE DEF cr, cw, dr, dw, lr, lw, used, len
    <3> QED BY <2>1, <2>2, <2>3, <2>4
  <2>6. IsFiniteSet(Due(q, "READ")) /\ IsFiniteSet(Due(q, "WRITE"))
    BY DueFinite
  <2>7. Due(q, "READ") = {} /\ Due(q, "WRITE") = {}
    BY <2>5, <2>6, FS_EmptySet
  <2> QED BY <2>7 DEF Unowed, RW
<1>9. ASSUME NEW z \in Queue PROVE IF InUse(z)' THEN Balanced(z)' ELSE Unowed(z)'
  <2>1. CASE z = q
    BY <1>2, <1>7, <1>8, <2>1 DEF InUse, Unowed
  <2>2. CASE z # q
    <3>1. queueCB'[z] = queueCB[z] /\ IF InUse(z) THEN Balanced(z) ELSE Unowed(z)
      BY <1>6, <2>2 DEF NodeInv
    <3>2. InUse(z)' <=> InUse(z)
      BY <3>1 DEF InUse
    <3>3. InUse(z) => Balanced(z)'
      BY <1>1, <1>2, <3>1 DEF Balanced
    <3>4. ~InUse(z) => Unowed(z)'
      BY <1>2, <3>1 DEF Unowed
    <3> QED BY <3>2, <3>3, <3>4
  <2> QED BY <2>1, <2>2
<1> QED BY <1>1, <1>2, <1>3, <1>4, <1>5, <1>9 DEF NodeInv

\* A task that is deleted loses the node that was reserved for it.
LEMMA TaskNodes ==
    ASSUME Unprotected = {}, NodeInv, TaskStepOfQueues
    PROVE  NodeInv'
<1>1. /\ TaskNext /\ queueCB' = queueCB
      /\ job' = [t \in TCB |-> IF todo'[t] = <<>> THEN NoJob ELSE job[t]]
      /\ lost' = [q \in Queue |-> [rw \in RW |->
            lost[q][rw] + Cardinality({t \in Reserved(q, rw) : todo'[t] = <<>>})]]
  BY DEF TaskStepOfQueues
<1>2. TaskInv /\ ObjInv /\ QueueInv /\ JobInv /\ SafeInv
  BY DEF NodeInv, QueueInv, ObjInv
<1>3. ObjInv' /\ ResultsGoOn
  BY <1>1, <1>2, TaskGoes
<1>4. QueueInv'
  BY <1>2, TaskStepKeeps
<1>5. JobInv'
  <2>1. ASSUME NEW u \in TCB, AtResult(u)'
        PROVE  AtResult(u) /\ arg'[u] = arg[u] /\ job'[u] = job[u]
    <3>1. todo'[u] # <<>>
      BY <2>1 DEF AtResult
    <3> QED BY <1>1, <1>3, <2>1, <3>1 DEF ResultsGoOn
  <2> QED BY <1>2, <2>1, JobsGoOn
<1>6. ASSUME NEW q \in Queue, NEW rw \in RW
      PROVE  /\ lost'[q][rw] \in Nat /\ Due(q, rw)' \subseteq Due(q, rw)
             /\ Cardinality(Due(q, rw)') + lost'[q][rw] = Cardinality(Due(q, rw)) + lost[q][rw]
  <2>1. PICK E : E = {t \in Due(q, rw) : todo'[t] = <<>>}
    OBVIOUS
  <2>2. lost'[q][rw] = lost[q][rw] + Cardinality(E)
    <3>1. Reserved(q, rw) = Due(q, rw)
      BY <1>2, ReservedIsDue
    <3> QED BY <1>1, <2>1, <3>1
  <2>3. Due(q, rw)' = Due(q, rw) \ E
    <3>1. ASSUME NEW t \in Task PROVE t \in Due(q, rw)' <=> t \in Due(q, rw) \ E
      <4>1. t \in TCB
        BY DEF TCB
      <4>2. CASE AtResult(t)'
        <5>1. todo'[t] # <<>> /\ arg'[t] = arg[t] /\ (Granted(t)' <=> Granted(t))
          BY <1>3, <4>1, <4>2 DEF ResultsGoOn, AtResult
        <5> QED BY <2>1, <5>1 DEF Due
      <4>3. CASE ~AtResult(t)'
        <5>1. ~Granted(t)' /\ (AtResult(t) => todo'[t] = <<>>)
          BY <1>3, <4>1, <4>3 DEF ResultsGoOn, Granted
        <5> QED BY <2>1, <5>1 DEF Due, Granted
      <4> QED BY <4>2, <4>3
    <3> QED BY <3>1 DEF Due
  <2>4. /\ IsFiniteSet(Due(q, rw)) /\ Cardinality(Due(q, rw)) \in Nat
        /\ E \in SUBSET Due(q, rw)
    BY <2>1, DueFinite
  <2>5. Due(q, rw) \cap E = E /\ IsFiniteSet(E) /\ Cardinality(E) \in Nat
    <3>1. IsFiniteSet(E)
      BY <2>4, FS_Subset
    <3> QED BY <2>4, <3>1, FS_CardinalityType
  <2>6. Cardinality(Due(q, rw) \ E) = Cardinality(Due(q, rw)) - Cardinality(E)
    BY <2>4, <2>5, FS_Difference
  <2>7. lost[q][rw] \in Nat
    BY DEF NodeInv
  <2> QED BY <2>2, <2>3, <2>4, <2>5, <2>6, <2>7
<1>7. lost' \in [Queue -> [RW -> Nat]]
  BY <1>1, <1>6
<1>8. ASSUME NEW q \in Queue PROVE IF InUse(q)' THEN Balanced(q)' ELSE Unowed(q)'
  <2>1. /\ InUse(q)' <=> InUse(q)
        /\ IF InUse(q) THEN Balanced(q) ELSE Unowed(q)
    BY <1>1 DEF InUse, NodeInv
  <2>2. ~InUse(q) => Unowed(q)'
    BY <1>6, <2>1 DEF Unowed
  <2>3. ASSUME Balanced(q) PROVE Balanced(q)'
    <3>1. ASSUME NEW rw \in RW
          PROVE  queueCB[q].cnt[rw] + Cardinality(Due(q, rw)') + lost'[q][rw]
                    = Share(queueCB[q], rw)
      <4>1. /\ queueCB[q].cnt[rw] \in Nat /\ lost[q][rw] \in Nat
        BY <1>2 DEF NodeInv, QueueInv, QueueParts, ControlBlock
      <4>2. Cardinality(Due(q, rw)) \in Nat /\ Cardinality(Due(q, rw)') \in Nat
        <5>1. IsFiniteSet(Due(q, rw)')
          BY <1>6, DueFinite, FS_Subset
        <5> QED BY <5>1, DueFinite, FS_CardinalityType
      <4>3. queueCB[q].cnt[rw] + Cardinality(Due(q, rw)) + lost[q][rw] = Share(queueCB[q], rw)
        BY <2>3 DEF Balanced
      <4>4. /\ lost'[q][rw] \in Nat
            /\ Cardinality(Due(q, rw)') + lost'[q][rw] = Cardinality(Due(q, rw)) + lost[q][rw]
        BY <1>6
      <4> QED BY <4>1, <4>2, <4>3, <4>4
    <3> QED BY <1>1, <2>3, <3>1 DEF Balanced
  <2> QED BY <2>1, <2>2, <2>3
<1> QED BY <1>3, <1>4, <1>5, <1>7, <1>8 DEF NodeInv

LEMMA NodeInit == QueueInit => NodeInv
<1> SUFFICES ASSUME QueueInit PROVE NodeInv
  OBVIOUS
<1>1. QueueInv /\ Init
  BY QueueInitInv DEF QueueInit
<1>2. ObjInv
  BY <1>1, InitSafe, InitControl, InitOutcome DEF ObjInv
<1>3. \A t \in TCB : ~AtResult(t)
  BY <1>1 DEF Init, AtResult
<1>4. JobInv
  BY <1>3 DEF JobInv
<1>5. NoCount \in [RW -> Nat]
  BY DEF NoCount
<1>6. lost \in [Queue -> [RW -> Nat]]
  BY <1>5 DEF QueueInit
<1>7. \A q \in Queue : ~InUse(q) /\ Unowed(q)
  BY <1>3 DEF QueueInit, InUse, Unowed, Due, Granted, TCB
<1> QED BY <1>1, <1>2, <1>4, <1>6, <1>7 DEF NodeInv

LEMMA NodeNext ==
    ASSUME Unprotected = {}
    PROVE  NodeInv /\ [QueueNext]_allQueueVars => NodeInv'
<1> SUFFICES ASSUME NodeInv, [QueueNext]_allQueueVars PROVE NodeInv'
  OBVIOUS
<1>1. \A j \in Jobs : j \in Job
  BY QueueAssumption
<1>2. ASSUME NEW t \in TCB, QueueStep(t) PROVE NodeInv'
  BY <1>1, <1>2, CreateNodes, TimedOutNodes, GrantedNodes, DeleteNodes, OperateNodes, WaitNodes
     DEF QueueStep
<1>3. CASE IsrQueueStep
  BY <1>1, <1>3, IsrNodes DEF IsrQueueStep
<1>4. CASE UNCHANGED allQueueVars
  <2>1. UNCHANGED taskVars /\ UNCHANGED <<queueCB, freeQueue, job, lost>>
    BY <1>4 DEF allQueueVars, taskVars
  <2>2. QueueInv'
    BY QueueNextInv DEF NodeInv
  <2>3. ObjInv' /\ \A q, rw : Due(q, rw)' = Due(q, rw)
    BY <2>1, SameTasks
  <2>4. JobInv'
    BY <2>1, JobsGoOn DEF NodeInv, AtResult, taskVars
  <2> QED BY <2>1, <2>2, <2>3, <2>4, QuietNodes
<1> QED BY <1>2, <1>3, <1>4, TaskNodes DEF QueueNext

\* Whoever reads, writes, waits, runs out of time or is deleted, and whenever an
\* interrupt comes between: every node of a queue that is in use is counted once, by
\* LOS_QueueRead and LOS_QueueWrite, for a task that was woken, or as lost with it.
THEOREM NodesCountedOnce ==
    ASSUME Unprotected = {}
    PROVE  QueueSpec => []NodesConserved
<1>1. NodeInv => NodesConserved
  <2> SUFFICES ASSUME NodeInv, NEW q \in Queue, InUse(q)
               PROVE  LET full == Cardinality(Filled(q))
                          Sum(rw) == queueCB[q].cnt[rw] + Cardinality(Reserved(q, rw)) + lost[q][rw]
                      IN  Sum("READ") = full /\ Sum("WRITE") = queueCB[q].len - full
    BY DEF NodesConserved
  <2>1. "READ" \in RW /\ "WRITE" \in RW
    BY DEF RW
  <2>2. Reserved(q, "READ") = Due(q, "READ") /\ Reserved(q, "WRITE") = Due(q, "WRITE")
    BY <2>1, ReservedIsDue DEF NodeInv, ObjInv
  <2>3. Cardinality(Filled(q)) = Used(queueCB[q])
    BY DEF Filled, Used, Messages
  <2>4. Balanced(q)
    BY DEF NodeInv
  <2> QED BY <2>1, <2>2, <2>3, <2>4 DEF Balanced, Share
<1> QED BY <1>1, NodeInit, NodeNext, PTL DEF QueueSpec

\* LOS_QueueDelete never takes a queue from a task that waits on it, or from one that
\* was woken for a node and has not come back: an unused control block, which
\* LOS_QueueCreate may hand out again, has neither.
THEOREM WaitersKeepTheirQueue ==
    ASSUME Unprotected = {}
    PROVE  QueueSpec => []WaitersHaveQueue
<1>1. NodeInv => WaitersHaveQueue
  <2> SUFFICES ASSUME NodeInv PROVE WaitersHaveQueue
    OBVIOUS
  <2>1. FreeQueues
    BY DEF NodeInv, QueueInv
  <2>2. \A q \in Queue : ~InUse(q) => \A rw \in RW : Reserved(q, rw) = {}
    BY ReservedIsDue DEF NodeInv, ObjInv, Unowed
  <2> QED BY <2>1, <2>2 DEF FreeQueues, WaitersHaveQueue, List
<1> QED BY <1>1, NodeInit, NodeNext, PTL DEF QueueSpec

-----------------------------------------------------------------------------
(* Each queue implements the abstract one.  Its content, first: n nodes of *)
(* a ring of len, from head on.                                            *)

RingSeq(node, head, len, n) == [i \in 1 .. n |-> node[(head + i - 1) % len]]

\* The indices go round the ring at most once.
LEMMA GoesRound ==
    ASSUME NEW n \in Nat, n # 0, NEW i \in Nat, i < n + n
    PROVE  i % n = IF i < n THEN i ELSE i - n
<1>1. CASE i < n
  BY <1>1
<1>2. CASE i >= n
  <2>1. i - n \in 0 .. n - 1 /\ i = n * 1 + (i - n)
    BY <1>2
  <2> QED BY <2>1
<1> QED BY <1>1, <1>2

Holds(node, len, S) == \A i \in 0 .. len - 1 : node[i] \in S
SameBut(to, node, len, at) == \A i \in 0 .. len - 1 : i # at => to[i] = node[i]

\* The node i of them.
Place(head, i, len) == IF head + i - 1 < len THEN head + i - 1 ELSE head + i - 1 - len

LEMMA PlaceIs ==
    ASSUME NEW len \in Nat, len # 0, NEW head \in 0 .. len - 1, NEW i \in 1 .. len
    PROVE  (head + i - 1) % len = Place(head, i, len) /\ Place(head, i, len) \in 0 .. len - 1
<1>1. PICK k \in Nat : k = head + i - 1 /\ k < len + len
  OBVIOUS
<1>2. k % len = IF k < len THEN k ELSE k - len
  BY <1>1, GoesRound
<1> QED BY <1>1, <1>2 DEF Place

\* Seen from the next node, from the one before, and the first one behind.
Before(head, len) == IF head = 0 THEN len - 1 ELSE head - 1

ShiftsOn(head, len, n, next) ==
    /\ next \in 0 .. len - 1
    /\ \A i \in 1 .. n - 1 : /\ i + 1 \in 1 .. n /\ Place(head, i + 1, len) # head
                             /\ Place(next, i, len) = Place(head, i + 1, len)

ShiftsBack(head, len, n, front) ==
    /\ front \in 0 .. len - 1 /\ Place(front, 1, len) = front
    /\ \A i \in 2 .. n + 1 : /\ i - 1 \in 1 .. n /\ Place(head, i - 1, len) # front
                             /\ Place(front, i, len) = Place(head, i - 1, len)

LEMMA PlacesAfter ==
    ASSUME NEW len \in Nat, len # 0, NEW head \in 0 .. len - 1, NEW n \in 0 .. len,
           NEW next, next = IF head + 1 = len THEN 0 ELSE head + 1
    PROVE  ShiftsOn(head, len, n, next)
  BY DEF Place, ShiftsOn

LEMMA PlacesBefore ==
    ASSUME NEW len \in Nat, len # 0, NEW head \in 0 .. len - 1, NEW n \in 0 .. len - 1,
           NEW front, front = IF head = 0 THEN len - 1 ELSE head - 1
    PROVE  ShiftsBack(head, len, n, front)
  BY DEF Place, ShiftsBack

LEMMA PlacesApart ==
    ASSUME NEW len \in Nat, len # 0, NEW head \in 0 .. len - 1, NEW n \in 0 .. len - 1
    PROVE  \A i \in 1 .. n : Place(head, i, len) # Place(head, n + 1, len)
  BY DEF Place

IsRing(z, node, head, len, n, S) ==
    /\ z \in Seq(S) /\ Len(z) = n
    /\ \A i \in 1 .. n : z[i] = node[Place(head, i, len)]

LEMMA RingIs ==
    ASSUME NEW len \in Nat, len # 0, NEW head \in 0 .. len - 1, NEW n \in 0 .. len,
           NEW S, NEW node, Holds(node, len, S)
    PROVE  IsRing(RingSeq(node, head, len, n), node, head, len, n, S)
<1>1. ASSUME NEW i \in 1 .. n
      PROVE  /\ (head + i - 1) % len = Place(head, i, len)
             /\ Place(head, i, len) \in 0 .. len - 1
  <2>1. i \in 1 .. len
    OBVIOUS
  <2> QED BY <2>1, PlaceIs
<1>2. RingSeq(node, head, len, n) \in [1 .. n -> S]
  BY <1>1 DEF RingSeq, Holds
<1>3. \A i \in 1 .. n : RingSeq(node, head, len, n)[i] = node[Place(head, i, len)]
  BY <1>1 DEF RingSeq
<1>4. PICK z : z = RingSeq(node, head, len, n)
  OBVIOUS
<1>5. z \in Seq(S) /\ Len(z) = n
  <2>1. z \in [1 .. n -> S]
    BY <1>2, <1>4
  <2> QED BY <2>1
<1> QED BY <1>3, <1>4, <1>5 DEF IsRing

LEMMA RingOnly ==
    ASSUME NEW len \in Nat, len # 0, NEW head \in 0 .. len - 1, NEW n \in 0 .. len,
           NEW S, NEW node, Holds(node, len, S), NEW r, IsRing(r, node, head, len, n, S)
    PROVE  r = RingSeq(node, head, len, n)
<1>1. PICK z \in Seq(S) : /\ z = RingSeq(node, head, len, n) /\ Len(z) = n
                          /\ \A i \in 1 .. n : z[i] = node[Place(head, i, len)]
  <2>1. IsRing(RingSeq(node, head, len, n), node, head, len, n, S)
    BY RingIs
  <2> QED BY <2>1 DEF IsRing
<1>2. r \in Seq(S) /\ Len(r) = Len(z) /\ \A i \in 1 .. Len(r) : r[i] = z[i]
  BY <1>1 DEF IsRing
<1>3. r = z
  BY <1>2, SeqEqual
<1> QED BY <1>1, <1>3

\* What an operation does to it.
LEMMA RingReads ==
    ASSUME NEW len \in Nat, len # 0, NEW head \in 0 .. len - 1, NEW n \in 1 .. len,
           NEW S, NEW node, Holds(node, len, S), NEW to, Holds(to, len, S),
           SameBut(to, node, len, head),
           NEW next, next = IF head + 1 = len THEN 0 ELSE head + 1, NEW less, less = n - 1
    PROVE  /\ RingSeq(node, head, len, n) # <<>>
           /\ RingSeq(to, next, len, less) = Tail(RingSeq(node, head, len, n))
<1>0. n \in 0 .. len /\ n - 1 \in 0 .. len
  OBVIOUS
<1>1. PICK z \in Seq(S) : /\ z = RingSeq(node, head, len, n) /\ Len(z) = n
                          /\ \A i \in 1 .. n : z[i] = node[Place(head, i, len)]
  <2>1. IsRing(RingSeq(node, head, len, n), node, head, len, n, S)
    BY <1>0, RingIs
  <2> QED BY <2>1 DEF IsRing
<1>2. z # <<>>
  BY <1>1
<1>3. PICK r : r = Tail(z)
  OBVIOUS
<1>4. r \in Seq(S) /\ Len(r) = n - 1 /\ \A i \in 1 .. n - 1 : r[i] = z[i + 1]
  <2>1. /\ r \in Seq(S) /\ Len(r) = Len(z) - 1
        /\ \A i \in 1 .. Len(r) : r[i] = z[i + 1]
    BY <1>2, <1>3, HeadTailProperties
  <2>2. Len(r) = n - 1
    BY <1>1, <2>1
  <2> QED BY <2>1, <2>2
<1>5. /\ next \in 0 .. len - 1
      /\ \A i \in 1 .. n - 1 : /\ i + 1 \in 1 .. n /\ Place(head, i + 1, len) # head
                               /\ Place(next, i, len) = Place(head, i + 1, len)
  <2>1. ShiftsOn(head, len, n, next)
    BY <1>0, PlacesAfter
  <2> QED BY <2>1 DEF ShiftsOn
<1>6. ASSUME NEW i \in 1 .. n - 1 PROVE r[i] = to[Place(next, i, len)]
  <2>1. PICK k : k = Place(head, i + 1, len)
    OBVIOUS
  <2>2. k # head /\ k = Place(next, i, len) /\ i + 1 \in 1 .. n
    BY <1>5, <2>1
  <2>3. k \in 0 .. len - 1
    <3>1. i + 1 \in 1 .. len
      BY <2>2
    <3> QED BY <2>1, <3>1, PlaceIs
  <2>4. r[i] = node[k]
    BY <1>1, <1>4, <2>1, <2>2
  <2> QED BY <2>2, <2>3, <2>4 DEF SameBut
<1>7. r = RingSeq(to, next, len, less)
  <2>1. less \in 0 .. len
    BY <1>0
  <2>2. IsRing(r, to, next, len, less, S)
    BY <1>4, <1>6 DEF IsRing
  <2> QED BY <1>5, <2>1, <2>2, RingOnly
<1> QED BY <1>1, <1>2, <1>3, <1>7

LEMMA RingAppends ==
    ASSUME NEW len \in Nat, len # 0, NEW head \in 0 .. len - 1, NEW n \in 0 .. len - 1,
           NEW S, NEW node, Holds(node, len, S), NEW to, Holds(to, len, S),
           NEW tail, tail = Place(head, n + 1, len),
           SameBut(to, node, len, tail), NEW more, more = n + 1
    PROVE  RingSeq(to, head, len, more) = Append(RingSeq(node, head, len, n), to[tail])
<1>0. n \in 0 .. len /\ n + 1 \in 0 .. len /\ n + 1 \in 1 .. len /\ n < len
  OBVIOUS
<1>1. PICK z \in Seq(S) : /\ z = RingSeq(node, head, len, n) /\ Len(z) = n
                          /\ \A i \in 1 .. n : z[i] = node[Place(head, i, len)]
  <2>1. IsRing(RingSeq(node, head, len, n), node, head, len, n, S)
    BY <1>0, RingIs
  <2> QED BY <2>1 DEF IsRing
<1>2. tail \in 0 .. len - 1 /\ \A i \in 1 .. n : Place(head, i, len) # tail
  BY <1>0, PlaceIs, PlacesApart
<1>3. PICK m \in S : m = to[tail]
  BY <1>2 DEF Holds
<1>4. PICK r : r = Append(z, m)
  OBVIOUS
<1>5. r \in Seq(S) /\ Len(r) = n + 1 /\ r[n + 1] = m /\ \A i \in 1 .. n : r[i] = z[i]
  BY <1>1, <1>4
<1>6. ASSUME NEW i \in 1 .. n + 1 PROVE r[i] = to[Place(head, i, len)]
  <2>1. CASE i = n + 1
    BY <1>3, <1>5, <2>1
  <2>2. CASE i # n + 1
    <3>1. PICK k : k = Place(head, i, len)
      OBVIOUS
    <3>2. i \in 1 .. n /\ i \in 1 .. len
      BY <2>2
    <3>3. k \in 0 .. len - 1 /\ k # tail
      BY <1>2, <3>1, <3>2, PlaceIs
    <3>4. r[i] = node[k]
      BY <1>1, <1>5, <3>1, <3>2
    <3> QED BY <3>1, <3>3, <3>4 DEF SameBut
  <2> QED BY <2>1, <2>2
<1>7. r = RingSeq(to, head, len, more)
  <2>1. more \in 0 .. len
    BY <1>0
  <2>2. IsRing(r, to, head, len, more, S)
    BY <1>5, <1>6 DEF IsRing
  <2> QED BY <1>2, <2>1, <2>2, RingOnly
<1> QED BY <1>1, <1>3, <1>4, <1>7

LEMMA OneElement ==
    ASSUME NEW S, NEW m \in S
    PROVE  <<m>> \in Seq(S) /\ Len(<<m>>) = 1 /\ <<m>>[1] = m
  OBVIOUS

LEMMA RingPrepends ==
    ASSUME NEW len \in Nat, len # 0, NEW head \in 0 .. len - 1, NEW n \in 0 .. len - 1,
           NEW S, NEW node, Holds(node, len, S), NEW to, Holds(to, len, S),
           NEW front, front = Before(head, len),
           SameBut(to, node, len, front), NEW more, more = n + 1
    PROVE  RingSeq(to, front, len, more) = <<to[front]>> \o RingSeq(node, head, len, n)
<1>0. n \in 0 .. len /\ n + 1 \in 0 .. len /\ n < len
  OBVIOUS
<1>1. PICK z \in Seq(S) : /\ z = RingSeq(node, head, len, n) /\ Len(z) = n
                          /\ \A i \in 1 .. n : z[i] = node[Place(head, i, len)]
  <2>1. IsRing(RingSeq(node, head, len, n), node, head, len, n, S)
    BY <1>0, RingIs
  <2> QED BY <2>1 DEF IsRing
<1>2. /\ front \in 0 .. len - 1 /\ Place(front, 1, len) = front
      /\ \A i \in 2 .. n + 1 : /\ i - 1 \in 1 .. n /\ Place(head, i - 1, len) # front
                               /\ Place(front, i, len) = Place(head, i - 1, len)
  <2>1. front = IF head = 0 THEN len - 1 ELSE head - 1
    BY DEF Before
  <2>2. ShiftsBack(head, len, n, front)
    BY <2>1, PlacesBefore
  <2> QED BY <2>2 DEF ShiftsBack
<1>3. PICK m \in S : m = to[front]
  BY <1>2 DEF Holds
<1>4. PICK r : r = <<m>> \o z
  OBVIOUS
<1>5. r \in Seq(S) /\ Len(r) = n + 1 /\ r[1] = m /\ \A i \in 2 .. n + 1 : r[i] = z[i - 1]
  <2>1. PICK one \in Seq(S) : one = <<m>> /\ Len(one) = 1 /\ one[1] = m
    BY OneElement
  <2>2. /\ one \o z \in Seq(S) /\ Len(one \o z) = Len(one) + Len(z)
        /\ \A i \in 1 .. Len(one) + Len(z) :
               (one \o z)[i] = IF i <= Len(one) THEN one[i] ELSE z[i - Len(one)]
    BY ConcatProperties
  <2>3. r = one \o z
    BY <1>4, <2>1
  <2>4. r \in Seq(S) /\ Len(r) = 1 + n
    BY <1>1, <2>1, <2>2, <2>3
  <2>5. \A i \in 1 .. 1 + n : r[i] = IF i <= 1 THEN one[i] ELSE z[i - 1]
    BY <1>1, <2>1, <2>2, <2>3
  <2> QED BY <2>1, <2>4, <2>5
<1>6. ASSUME NEW i \in 1 .. n + 1 PROVE r[i] = to[Place(front, i, len)]
  <2>1. CASE i = 1
    BY <1>2, <1>3, <1>5, <2>1
  <2>2. CASE i # 1
    <3>1. PICK k : k = Place(head, i - 1, len)
      OBVIOUS
    <3>2. i \in 2 .. n + 1 /\ i - 1 \in 1 .. n /\ i - 1 \in 1 .. len
      BY <2>2
    <3>3. k \in 0 .. len - 1 /\ k # front /\ k = Place(front, i, len)
      BY <1>2, <3>1, <3>2, PlaceIs
    <3>4. r[i] = node[k]
      BY <1>1, <1>5, <3>1, <3>2
    <3> QED BY <3>3, <3>4 DEF SameBut
  <2> QED BY <2>1, <2>2
<1>7. r = RingSeq(to, front, len, more)
  <2>1. more \in 0 .. len
    BY <1>0
  <2>2. IsRing(r, to, front, len, more, S)
    BY <1>5, <1>6 DEF IsRing
  <2> QED BY <1>2, <2>1, <2>2, RingOnly
<1> QED BY <1>1, <1>3, <1>4, <1>7


\* The content of a control block, and what a job makes of it.
ContentOf(cb) == RingSeq(cb.node, cb.head, cb.len, Used(cb))

Done(j, len, c, d) ==
    /\ j.rw = "READ" => c # <<>>
    /\ j.rw = "WRITE" => Len(c) < len
    /\ d = IF j.rw = "READ" THEN Tail(c)
           ELSE IF j.at = "TAIL" THEN Append(c, j.msg) ELSE <<j.msg>> \o c

LEMMA ContentIs == \A q \in Queue : Content(q) = ContentOf(queueCB[q])
  BY DEF Content, ContentOf, RingSeq, Filled, Used, Messages

LEMMA BlockHolds ==
    ASSUME NEW cb \in ControlBlock, OnRing(cb), cb.len # 0, Ring(cb)
    PROVE  /\ cb.len \in Nat /\ cb.head \in 0 .. cb.len - 1 /\ Used(cb) \in 0 .. cb.len
           /\ Holds(cb.node, cb.len, Msg \cup {NoMsg})
           /\ \A i \in 0 .. cb.len - 1 : i \in Node
           /\ cb.node \in [Node -> Msg \cup {NoMsg}]
<1>1. /\ cb.len \in Nat /\ cb.head \in Nat /\ cb.head < cb.len /\ Used(cb) \in Nat
      /\ Used(cb) <= cb.len /\ cb.len <= MaxLen /\ MaxLen \in Nat
      /\ cb.node \in [Node -> Msg \cup {NoMsg}]
  <2>1. /\ cb.len \in {0} \cup QueueLen /\ cb.head \in Nat /\ cb.head < cb.len
        /\ cb.node \in [Node -> Msg \cup {NoMsg}]
    BY DEF ControlBlock, OnRing
  <2>2. Used(cb) <= cb.len
    BY DEF Ring
  <2>3. MaxLen \in Nat /\ \A n \in {0} \cup QueueLen : n \in Nat /\ n <= MaxLen
    BY QueueAssumption
  <2>4. Used(cb) \in Nat
    BY UsedNat
  <2> QED BY <2>1, <2>2, <2>3, <2>4
<1>2. \A i \in 0 .. cb.len - 1 : i \in Node
  BY <1>1 DEF Node
<1> QED BY <1>1, <1>2 DEF Holds

LEMMA ContentLength ==
    ASSUME NEW cb \in ControlBlock, OnRing(cb), cb.len # 0, Ring(cb)
    PROVE  Len(ContentOf(cb)) = Used(cb)
<1>1. PICK len, head, n, node : len = cb.len /\ head = cb.head /\ n = Used(cb) /\ node = cb.node
  OBVIOUS
<1>2. /\ len \in Nat /\ len # 0 /\ head \in 0 .. len - 1 /\ n \in 0 .. len
      /\ Holds(node, len, Msg \cup {NoMsg})
  BY <1>1, BlockHolds
<1>3. IsRing(RingSeq(node, head, len, n), node, head, len, n, Msg \cup {NoMsg})
  BY <1>2, RingIs
<1> QED BY <1>1, <1>3 DEF IsRing, ContentOf

\* The block y is cb after the job.
Puts(y, cb, i, m) == y.node = [cb.node EXCEPT ![i] = m]

LEMMA ReadsContent ==
    ASSUME NEW cb \in ControlBlock, OnRing(cb), cb.len # 0, Ring(cb), Used(cb) > 0, NEW y,
           Puts(y, cb, cb.head, NoMsg), y.head = Forward(cb, cb.head),
           y.len = cb.len, Used(y) = Used(cb) - 1
    PROVE  ContentOf(cb) # <<>> /\ ContentOf(y) = Tail(ContentOf(cb))
<1>1. PICK len, head, n, node : len = cb.len /\ head = cb.head /\ n = Used(cb) /\ node = cb.node
  OBVIOUS
<1>2. PICK to, next : to = y.node /\ next = y.head
  OBVIOUS
<1>3. /\ len \in Nat /\ len # 0 /\ head \in 0 .. len - 1 /\ n \in 0 .. len
      /\ Holds(node, len, Msg \cup {NoMsg}) /\ node \in [Node -> Msg \cup {NoMsg}]
      /\ \A i \in 0 .. len - 1 : i \in Node
  BY <1>1, BlockHolds
<1>4. n \in 1 .. len /\ Used(y) = n - 1
  BY <1>1, <1>3
<1>5. next = IF head + 1 = len THEN 0 ELSE head + 1
  BY <1>1, <1>2 DEF Forward
<1>6. Holds(to, len, Msg \cup {NoMsg}) /\ SameBut(to, node, len, head)
  <2>1. to = [node EXCEPT ![head] = NoMsg]
    BY <1>1, <1>2 DEF Puts
  <2> QED BY <1>3, <2>1 DEF Holds, SameBut
<1>7. /\ RingSeq(node, head, len, n) # <<>>
      /\ RingSeq(to, next, len, Used(y)) = Tail(RingSeq(node, head, len, n))
  BY <1>3, <1>4, <1>5, <1>6, RingReads
<1> QED BY <1>1, <1>2, <1>7 DEF ContentOf

LEMMA TailPlace ==
    ASSUME NEW cb \in ControlBlock, OnRing(cb), cb.len # 0, Ring(cb)
    PROVE  cb.tail = Place(cb.head, Used(cb) + 1, cb.len)
<1>1. PICK len, head, n, tail : len = cb.len /\ head = cb.head /\ n = Used(cb) /\ tail = cb.tail
  OBVIOUS
<1>2. len \in Nat /\ head \in 0 .. len - 1 /\ n \in 0 .. len
  BY <1>1, BlockHolds
<1>3. tail = IF head + n < len THEN head + n ELSE head + n - len
  <2>1. cb.tail = Wrap(cb, cb.head + Used(cb))
    BY DEF Ring
  <2>2. tail = Wrap(cb, head + n)
    BY <1>1, <2>1
  <2> QED BY <1>1, <1>2, <2>2 DEF Wrap
<1>4. tail = Place(head, n + 1, len)
  BY <1>2, <1>3 DEF Place
<1> QED BY <1>1, <1>4

LEMMA AppendsContent ==
    ASSUME NEW cb \in ControlBlock, OnRing(cb), cb.len # 0, Ring(cb), Used(cb) < cb.len, NEW m \in Msg,
           NEW y, Puts(y, cb, cb.tail, m), y.head = cb.head,
           y.len = cb.len, Used(y) = Used(cb) + 1
    PROVE  ContentOf(y) = Append(ContentOf(cb), m)
<1>1. PICK len, head, n, node : len = cb.len /\ head = cb.head /\ n = Used(cb) /\ node = cb.node
  OBVIOUS
<1>2. PICK to, tail : to = y.node /\ tail = cb.tail
  OBVIOUS
<1>3. /\ len \in Nat /\ len # 0 /\ head \in 0 .. len - 1 /\ n \in 0 .. len
      /\ Holds(node, len, Msg \cup {NoMsg}) /\ node \in [Node -> Msg \cup {NoMsg}]
      /\ \A i \in 0 .. len - 1 : i \in Node
  BY <1>1, BlockHolds
<1>4. n \in 0 .. len - 1 /\ Used(y) = n + 1
  BY <1>1, <1>3
<1>6. tail = Place(head, n + 1, len)
  <2>1. tail = Place(cb.head, Used(cb) + 1, cb.len)
    BY <1>2, TailPlace
  <2> QED BY <1>1, <2>1
<1>7. tail \in 0 .. len - 1
  <2>1. n + 1 \in 1 .. len
    BY <1>3, <1>4
  <2> QED BY <1>3, <1>6, <2>1, PlaceIs
<1>8. /\ Holds(to, len, Msg \cup {NoMsg}) /\ SameBut(to, node, len, tail)
      /\ to[tail] = m
  <2>1. to = [node EXCEPT ![tail] = m]
    BY <1>1, <1>2 DEF Puts
  <2> QED BY <1>3, <1>7, <2>1 DEF Holds, SameBut
<1>9. RingSeq(to, head, len, Used(y)) = Append(RingSeq(node, head, len, n), to[tail])
  BY <1>3, <1>4, <1>6, <1>8, RingAppends
<1> QED BY <1>1, <1>2, <1>8, <1>9 DEF ContentOf

LEMMA PrependsContent ==
    ASSUME NEW cb \in ControlBlock, OnRing(cb), cb.len # 0, Ring(cb), Used(cb) < cb.len, NEW m \in Msg,
           NEW y, Puts(y, cb, Backward(cb, cb.head), m),
           y.head = Backward(cb, cb.head), y.len = cb.len, Used(y) = Used(cb) + 1
    PROVE  ContentOf(y) = <<m>> \o ContentOf(cb)
<1>1. PICK len, head, n, node : len = cb.len /\ head = cb.head /\ n = Used(cb) /\ node = cb.node
  OBVIOUS
<1>2. PICK to, front : to = y.node /\ front = y.head
  OBVIOUS
<1>3. /\ len \in Nat /\ len # 0 /\ head \in 0 .. len - 1 /\ n \in 0 .. len
      /\ Holds(node, len, Msg \cup {NoMsg}) /\ node \in [Node -> Msg \cup {NoMsg}]
      /\ \A i \in 0 .. len - 1 : i \in Node
  BY <1>1, BlockHolds
<1>4. n \in 0 .. len - 1 /\ Used(y) = n + 1
  BY <1>1, <1>3
<1>5. front = Before(head, len)
  BY <1>1, <1>2 DEF Backward, Before
<1>6. front \in 0 .. len - 1
  BY <1>3, <1>5 DEF Before
<1>7. /\ Holds(to, len, Msg \cup {NoMsg}) /\ SameBut(to, node, len, front)
      /\ to[front] = m
  <2>1. to = [node EXCEPT ![front] = m]
    BY <1>1, <1>2 DEF Puts
  <2> QED BY <1>3, <1>6, <2>1 DEF Holds, SameBut
<1>8. RingSeq(to, front, len, Used(y)) = <<to[front]>> \o RingSeq(node, head, len, n)
  <2>1. Holds(to, len, Msg \cup {NoMsg}) /\ SameBut(to, node, len, front)
    BY <1>7
  <2> QED BY <1>3, <1>4, <1>5, <2>1, RingPrepends
<1> QED BY <1>1, <1>2, <1>7, <1>8 DEF ContentOf

\* What an operation on cb leaves in y, whatever it does to the counts.
LEMMA OperatedContent ==
    ASSUME NEW cb \in ControlBlock, OnRing(cb), cb.len # 0, Ring(cb), NEW j \in Job,
           j.rw = "READ" => Used(cb) > 0, j.rw = "WRITE" => Used(cb) < cb.len,
           NEW b, b = OsQueueBufferOperate(cb, j),
           NEW y, y.node = b.node, y.head = b.head, y.len = b.len
    PROVE  Done(j, cb.len, ContentOf(cb), ContentOf(y))
<1>1. /\ Ring(b) /\ Used(b) = IF j.rw = "READ" THEN Used(cb) - 1 ELSE Used(cb) + 1
      /\ Len(ContentOf(cb)) = Used(cb)
  BY OperatesRing, ContentLength
<1>2. Used(y) = Used(b)
  BY DEF Used, Messages
<1>3. b.len = cb.len
  BY BufferKeeps DEF SameButRing
<1>4. CASE j.rw = "READ"
  <2>1. b = [cb EXCEPT !.node[cb.head] = NoMsg, !.head = Forward(cb, cb.head)]
    BY <1>4 DEF OsQueueBufferOperate
  <2>2. b.node = [cb.node EXCEPT ![cb.head] = NoMsg] /\ b.head = Forward(cb, cb.head)
    BY <2>1 DEF ControlBlock
  <2>3. ContentOf(cb) # <<>> /\ ContentOf(y) = Tail(ContentOf(cb))
    BY <1>1, <1>2, <1>3, <1>4, <2>2, ReadsContent DEF Puts
  <2> QED BY <1>4, <2>3 DEF Done
<1>5. CASE j.rw # "READ"
  <2>1. j.rw = "WRITE" /\ j.msg \in Msg /\ j.at \in {"HEAD", "TAIL"}
    BY <1>5 DEF Job
  <2>2. CASE j.at = "TAIL"
    <3>1. b = [cb EXCEPT !.node[cb.tail] = j.msg, !.tail = Forward(cb, cb.tail)]
      BY <1>5, <2>2 DEF OsQueueBufferOperate
    <3>2. b.node = [cb.node EXCEPT ![cb.tail] = j.msg] /\ b.head = cb.head
      BY <3>1 DEF ControlBlock
    <3>3. ContentOf(y) = Append(ContentOf(cb), j.msg)
      BY <1>1, <1>2, <1>3, <1>5, <2>1, <3>2, AppendsContent DEF Puts
    <3> QED BY <1>1, <1>5, <2>1, <2>2, <3>3 DEF Done
  <2>3. CASE j.at # "TAIL"
    <3>1. b = [cb EXCEPT !.node[Backward(cb, cb.head)] = j.msg, !.head = Backward(cb, cb.head)]
      BY <1>5, <2>3 DEF OsQueueBufferOperate
    <3>2. /\ b.node = [cb.node EXCEPT ![Backward(cb, cb.head)] = j.msg]
          /\ b.head = Backward(cb, cb.head)
      BY <3>1 DEF ControlBlock
    <3>3. ContentOf(y) = <<j.msg>> \o ContentOf(cb)
      BY <1>1, <1>2, <1>3, <1>5, <2>1, <3>2, PrependsContent DEF Puts
    <3> QED BY <1>1, <1>5, <2>1, <2>3, <3>3 DEF Done
  <2> QED BY <2>2, <2>3
<1> QED BY <1>4, <1>5

-----------------------------------------------------------------------------
(* The callers of each side of a queue, as functions of the side.          *)

\* Who stays in a call keeps the job.
NewJobs == \A t \in TCB : AtResult(t) /\ AtResult(t)' => job'[t] = job[t]

\* t is in a call on q.
CalledBy(q, t) == \E rw \in RW : t \in CallersOn(<<q, rw>>)

\* The functions of the refinement, in the terms of the calls.
SidesOf(q) ==
    /\ GrantedBy(q) = [rw \in RW |-> GrantedOn(<<q, rw>>)]
    /\ ExpiredOn(q) = [rw \in RW |-> LateOn(<<q, rw>>)]
    /\ JobsOn(q) = [t \in Task |-> IF CalledBy(q, t) THEN job[t] ELSE NoJob]
    /\ \A rw \in RW : Split(<<q, rw>>)

LEMMA NodeParts ==
    NodeInv => /\ QueueInv /\ TaskInv /\ ObjInv /\ SafeInv /\ JobInv /\ OutcomeInv
               /\ lost \in [Queue -> [RW -> Nat]]
  BY DEF NodeInv, QueueInv, ObjInv

LEMMA SidesAre == NodeInv => \A q \in Queue : SidesOf(q)
<1> SUFFICES ASSUME NodeInv, NEW q \in Queue PROVE SidesOf(q)
  OBVIOUS
<1>1. \A rw \in RW : InCall(q, rw) = CallersOn(<<q, rw>>)
  BY NodeParts, ResultToCome DEF InCall, CallersOn, TCB
<1>2. \A rw \in RW : Reserved(q, rw) = GrantedOn(<<q, rw>>)
  BY NodeParts, ReservedIsDue DEF Due, GrantedOn, Granted, CallersOn
<1>3. \A rw \in RW : GaveUp(q, rw) = LateOn(<<q, rw>>)
  BY <1>1 DEF GaveUp, LateOn, Has
<1>4. \A rw \in RW : Split(<<q, rw>>)
  BY NodeParts, CallersSplit, ListsAreObjects
<1>5. \A t \in Task : (\E rw \in RW : t \in InCall(q, rw)) <=> CalledBy(q, t)
  BY <1>1 DEF CalledBy
<1>6. GrantedBy(q) = [rw \in RW |-> GrantedOn(<<q, rw>>)]
  BY <1>2 DEF GrantedBy
<1>7. ExpiredOn(q) = [rw \in RW |-> LateOn(<<q, rw>>)]
  BY <1>3 DEF ExpiredOn
<1>8. JobsOn(q) = [t \in Task |-> IF CalledBy(q, t) THEN job[t] ELSE NoJob]
  BY <1>5 DEF JobsOn
<1> QED BY <1>4, <1>6, <1>7, <1>8 DEF SidesOf

LEMMA SidesNext == NodeInv' => (\A q \in Queue : SidesOf(q))'
  BY SidesAre, PTL

LEMMA SidesAreFunctions ==
    ASSUME NEW q, SidesOf(q)
    PROVE  /\ WaitingOn(q) = [rw \in RW |-> WaitingOn(q)[rw]]
           /\ GrantedBy(q) = [rw \in RW |-> GrantedBy(q)[rw]]
           /\ ExpiredOn(q) = [rw \in RW |-> ExpiredOn(q)[rw]]
           /\ \A rw \in RW : /\ WaitingOn(q)[rw] = kernel.pend[<<q, rw>>]
                             /\ GrantedBy(q)[rw] = GrantedOn(<<q, rw>>)
                             /\ ExpiredOn(q)[rw] = LateOn(<<q, rw>>)
<1>1. /\ WaitingOn(q) = [rw \in RW |-> kernel.pend[<<q, rw>>]]
      /\ GrantedBy(q) = [rw \in RW |-> GrantedOn(<<q, rw>>)]
      /\ ExpiredOn(q) = [rw \in RW |-> LateOn(<<q, rw>>)]
  BY DEF WaitingOn, SidesOf
<1>2. \A rw \in RW : /\ WaitingOn(q)[rw] = kernel.pend[<<q, rw>>]
                     /\ GrantedBy(q)[rw] = GrantedOn(<<q, rw>>)
                     /\ ExpiredOn(q)[rw] = LateOn(<<q, rw>>)
  BY <1>1
<1> QED BY <1>1, <1>2

LEMMA CallersAre ==
    ASSUME NEW o, Split(o)
    PROVE  CallersOn(o) = {t \in Task : Contains(kernel.pend[o], t)} \cup GrantedOn(o) \cup LateOn(o)
<1>1. /\ \A t : Contains(kernel.pend[o], t) => t \in CallersOn(o)
      /\ LateOn(o) = {t \in CallersOn(o) : ~Granted(t) /\ ~Contains(kernel.pend[o], t)}
      /\ GrantedOn(o) = {t \in CallersOn(o) : Granted(t)} /\ CallersOn(o) \subseteq Task
  BY DEF Split, GrantedOn, CallersOn
<1> QED BY <1>1

LEMMA CallersAreNext ==
    \A o : Split(o)' =>
        CallersOn(o)' = {t \in Task : Contains(kernel'.pend[o], t)} \cup GrantedOn(o)' \cup LateOn(o)'
<1> SUFFICES ASSUME NEW o, Split(o)'
             PROVE  CallersOn(o)' = {t \in Task : Contains(kernel'.pend[o], t)}
                                       \cup GrantedOn(o)' \cup LateOn(o)'
  OBVIOUS
<1>1. /\ \A t : Contains(kernel'.pend[o], t) => t \in CallersOn(o)'
      /\ LateOn(o)' = {t \in CallersOn(o)' : ~Granted(t)' /\ ~Contains(kernel'.pend[o], t)}
      /\ GrantedOn(o)' = {t \in CallersOn(o)' : Granted(t)'} /\ CallersOn(o)' \subseteq Task
  BY DEF Split, GrantedOn, CallersOn
<1> QED BY <1>1

\* Who stays keeps the job; who leaves has none.
LEMMA JobsSame ==
    ASSUME NEW q, SidesOf(q), SidesOf(q)', NewJobs,
           \A rw \in RW : CallersOn(<<q, rw>>)' = CallersOn(<<q, rw>>)
    PROVE  JobsOn(q)' = JobsOn(q)
<1>1. ASSUME NEW t \in Task PROVE CalledBy(q, t)' <=> CalledBy(q, t)
  BY DEF CalledBy
<1>2. ASSUME NEW t \in Task, CalledBy(q, t) PROVE job'[t] = job[t]
  <2>1. t \in TCB /\ AtResult(t) /\ AtResult(t)'
    BY <1>2 DEF CalledBy, CallersOn, TCB
  <2> QED BY <2>1 DEF NewJobs
<1>3. JobsOn(q)' = [t \in Task |-> IF CalledBy(q, t)' THEN job'[t] ELSE NoJob]
  BY DEF SidesOf
<1>4. JobsOn(q) = [t \in Task |-> IF CalledBy(q, t) THEN job[t] ELSE NoJob]
  BY DEF SidesOf
<1> QED BY <1>1, <1>2, <1>3, <1>4

LEMMA JobEnds ==
    ASSUME NEW q, SidesOf(q), SidesOf(q)', NewJobs, NEW x \in Task,
           \A rw \in RW : CallersOn(<<q, rw>>)' = CallersOn(<<q, rw>>) \ {x}
    PROVE  JobsOn(q)' = [JobsOn(q) EXCEPT ![x] = NoJob]
<1>1. ASSUME NEW t \in Task PROVE CalledBy(q, t)' <=> CalledBy(q, t) /\ t # x
  BY DEF CalledBy
<1>2. ASSUME NEW t \in Task, CalledBy(q, t), t # x PROVE job'[t] = job[t]
  <2>1. t \in TCB /\ AtResult(t) /\ AtResult(t)'
    BY <1>2 DEF CalledBy, CallersOn, TCB
  <2> QED BY <2>1 DEF NewJobs
<1>3. JobsOn(q)' = [t \in Task |-> IF CalledBy(q, t)' THEN job'[t] ELSE NoJob]
  BY DEF SidesOf
<1>4. JobsOn(q) = [t \in Task |-> IF CalledBy(q, t) THEN job[t] ELSE NoJob]
  BY DEF SidesOf
<1> QED BY <1>1, <1>2, <1>3, <1>4

LEMMA JobBegins ==
    ASSUME NEW q, SidesOf(q), SidesOf(q)', NEW x \in Task, NEW j, job \in [TCB -> Job],
           job' = [job EXCEPT ![x] = j], CalledBy(q, x)',
           \A t \in Task : t # x => (CalledBy(q, t)' <=> CalledBy(q, t))
    PROVE  JobsOn(q)' = [JobsOn(q) EXCEPT ![x] = j]
<1>1. x \in TCB /\ Task \subseteq TCB
  BY DEF TCB
<1>2. \A t \in Task : job'[t] = IF t = x THEN j ELSE job[t]
  BY <1>1
<1>3. JobsOn(q)' = [t \in Task |-> IF CalledBy(q, t)' THEN job'[t] ELSE NoJob]
  BY DEF SidesOf
<1>4. JobsOn(q) = [t \in Task |-> IF CalledBy(q, t) THEN job[t] ELSE NoJob]
  BY DEF SidesOf
<1> QED BY <1>2, <1>3, <1>4

-----------------------------------------------------------------------------
(* What the abstract specification says of the state.                      *)

SameBlock(q) == queueCB'[q] = queueCB[q] /\ lost'[q] = lost[q]

QueueStepOn(q) == UNCHANGED AbstractQueue(q)!queue \/ AbstractQueue(q)!Next

LEMMA BlockContent ==
    ASSUME NEW q \in Queue, queueCB'[q] = queueCB[q]
    PROVE  Content(q)' = Content(q) /\ InUse(q)' = InUse(q)
<1>1. Filled(q)' = Filled(q)
  BY DEF Filled
<1> QED BY <1>1 DEF Content, InUse

LEMMA SidesStay ==
    ASSUME NEW q \in Queue, SidesOf(q), SidesOf(q)', \A rw \in RW : SameOn(<<q, rw>>), NewJobs
    PROVE  UNCHANGED <<WaitingOn(q), GrantedBy(q), ExpiredOn(q), JobsOn(q)>>
<1>1. WaitingOn(q)' = WaitingOn(q)
  BY DEF WaitingOn, SameOn
<1>2. GrantedBy(q)' = GrantedBy(q) /\ ExpiredOn(q)' = ExpiredOn(q)
  <2>1. \A rw \in RW : /\ GrantedOn(<<q, rw>>)' = GrantedOn(<<q, rw>>)
                       /\ LateOn(<<q, rw>>)' = LateOn(<<q, rw>>)
    BY DEF SameOn
  <2> QED BY <2>1 DEF SidesOf
<1>3. ASSUME NEW rw \in RW PROVE CallersOn(<<q, rw>>)' = CallersOn(<<q, rw>>)
  <2>1. PICK o : o = <<q, rw>>
    OBVIOUS
  <2>2. Split(o) /\ Split(o)' /\ SameOn(o)
    BY <2>1 DEF SidesOf
  <2>3. CallersOn(o) = {t \in Task : Contains(kernel.pend[o], t)} \cup GrantedOn(o) \cup LateOn(o)
    BY <2>2, CallersAre
  <2>4. CallersOn(o)' = {t \in Task : Contains(kernel'.pend[o], t)} \cup GrantedOn(o)' \cup LateOn(o)'
    BY <2>2, CallersAreNext
  <2> QED BY <2>1, <2>2, <2>3, <2>4 DEF SameOn
<1>4. JobsOn(q)' = JobsOn(q)
  BY <1>3, JobsSame
<1> QED BY <1>1, <1>2, <1>4

LEMMA QueueStutters ==
    ASSUME NodeInv, NodeInv', NEW q \in Queue, SameBlock(q), \A rw \in RW : SameOn(<<q, rw>>), NewJobs
    PROVE  UNCHANGED AbstractQueue(q)!queue
<1>1. SidesOf(q) /\ SidesOf(q)'
  BY SidesAre, SidesNext
<1>2. UNCHANGED <<WaitingOn(q), GrantedBy(q), ExpiredOn(q), JobsOn(q)>>
  BY <1>1, SidesStay
<1>3. /\ Content(q)' = Content(q) /\ InUse(q)' = InUse(q)
      /\ queueCB'[q].len = queueCB[q].len /\ lost'[q] = lost[q]
  BY BlockContent DEF SameBlock
<1> QED BY <1>2, <1>3 DEF AbstractQueue!queue

\* One side of a function changes.
LEMMA SideChanges ==
    \A F, G : \A s \in RW :
        (\A z \in RW : z # s => G[z] = F[z]) /\ F = [rw \in RW |-> F[rw]] /\ G = [rw \in RW |-> G[rw]]
            => G = [F EXCEPT ![s] = G[s]]
  OBVIOUS

\* One side of q changes.
LEMMA SideTurns ==
    ASSUME NEW q, SidesOf(q), SidesOf(q)', NEW s \in RW, \A z \in RW : z # s => SameOn(<<q, z>>)
    PROVE  /\ WaitingOn(q)' = [WaitingOn(q) EXCEPT ![s] = kernel'.pend[<<q, s>>]]
           /\ GrantedBy(q)' = [GrantedBy(q) EXCEPT ![s] = GrantedOn(<<q, s>>)']
           /\ ExpiredOn(q)' = [ExpiredOn(q) EXCEPT ![s] = LateOn(<<q, s>>)']
<1>1. /\ WaitingOn(q) = [rw \in RW |-> kernel.pend[<<q, rw>>]]
      /\ GrantedBy(q) = [rw \in RW |-> GrantedOn(<<q, rw>>)]
      /\ ExpiredOn(q) = [rw \in RW |-> LateOn(<<q, rw>>)]
  BY DEF WaitingOn, SidesOf
<1>2. /\ WaitingOn(q)' = [rw \in RW |-> kernel'.pend[<<q, rw>>]]
      /\ GrantedBy(q)' = [rw \in RW |-> GrantedOn(<<q, rw>>)']
      /\ ExpiredOn(q)' = [rw \in RW |-> LateOn(<<q, rw>>)']
  BY DEF WaitingOn, SidesOf
<1>3. \A z \in RW : z # s => /\ kernel'.pend[<<q, z>>] = kernel.pend[<<q, z>>]
                             /\ GrantedOn(<<q, z>>)' = GrantedOn(<<q, z>>)
                             /\ LateOn(<<q, z>>)' = LateOn(<<q, z>>)
  BY DEF SameOn
<1>4. WaitingOn(q)' = [WaitingOn(q) EXCEPT ![s] = kernel'.pend[<<q, s>>]]
  <2>1. PICK F, G : F = WaitingOn(q) /\ G = WaitingOn(q)'
    OBVIOUS
  <2>2. F = [rw \in RW |-> F[rw]] /\ G = [rw \in RW |-> G[rw]] /\ G[s] = kernel'.pend[<<q, s>>]
    BY <1>1, <1>2, <2>1
  <2>3. \A z \in RW : z # s => G[z] = F[z]
    BY <1>1, <1>2, <1>3, <2>1
  <2>4. G = [F EXCEPT ![s] = G[s]]
    BY <2>2, <2>3, SideChanges
  <2> QED BY <2>1, <2>2, <2>4
<1>5. GrantedBy(q)' = [GrantedBy(q) EXCEPT ![s] = GrantedOn(<<q, s>>)']
  <2>1. PICK F, G : F = GrantedBy(q) /\ G = GrantedBy(q)'
    OBVIOUS
  <2>2. F = [rw \in RW |-> F[rw]] /\ G = [rw \in RW |-> G[rw]] /\ G[s] = GrantedOn(<<q, s>>)'
    BY <1>1, <1>2, <2>1
  <2>3. \A z \in RW : z # s => G[z] = F[z]
    BY <1>1, <1>2, <1>3, <2>1
  <2>4. G = [F EXCEPT ![s] = G[s]]
    BY <2>2, <2>3, SideChanges
  <2> QED BY <2>1, <2>2, <2>4
<1>6. ExpiredOn(q)' = [ExpiredOn(q) EXCEPT ![s] = LateOn(<<q, s>>)']
  <2>1. PICK F, G : F = ExpiredOn(q) /\ G = ExpiredOn(q)'
    OBVIOUS
  <2>2. F = [rw \in RW |-> F[rw]] /\ G = [rw \in RW |-> G[rw]] /\ G[s] = LateOn(<<q, s>>)'
    BY <1>1, <1>2, <2>1
  <2>3. \A z \in RW : z # s => G[z] = F[z]
    BY <1>1, <1>2, <1>3, <2>1
  <2>4. G = [F EXCEPT ![s] = G[s]]
    BY <2>2, <2>3, SideChanges
  <2> QED BY <2>1, <2>2, <2>4
<1> QED BY <1>4, <1>5, <1>6

-----------------------------------------------------------------------------
(* A step of the tasks: nothing, a timeout, or the end of a task in its    *)
(* call, on one side of one queue.                                         *)

\* x runs out of time in its call on o, or does not come back to it.
LeavesOn(o, x) == x \in Task /\ (LateAt(o, x) \/ CutOff(o, x))

\* A step of the tasks takes at most one task from a list.
LEMMA OneOn ==
    ASSUME TaskInv, ObjInv, TaskInv', ObjInv', ResultsGoOn
    PROVE  \E x \in TCB : \A o \in WaitObj : SameOn(o) \/ LeavesOn(o, x)
<1>1. PICK x \in TCB :
         /\ \A q \in WaitObj : kernel'.pend[q] = Unlink(kernel.pend[q], x)
         /\ \A z \in TCB : z # x /\ AtResult(z) => AtResult(z)'
  BY DEF ResultsGoOn, OneLeaves
<1>2. ASSUME NEW o \in WaitObj PROVE SameOn(o) \/ LeavesOn(o, x)
  <2>1. SameOn(o) \/ \E z \in Task : LateAt(o, z) \/ CutOff(o, z)
    BY TasksOn
  <2>2. ASSUME NEW z \in Task, LateAt(o, z) PROVE z = x
    <3>1. kernel.pend[o] \in Seq(Task) /\ IsInjective(kernel.pend[o])
      BY CallersSplit DEF Split
    <3>2. /\ ~Contains(Unlink(kernel.pend[o], z), z)
          /\ z # x => (Contains(Unlink(kernel.pend[o], x), z) <=> Contains(kernel.pend[o], z))
      BY <3>1, UnlinkOnce DEF Unlink
    <3>3. kernel'.pend[o] = Unlink(kernel.pend[o], z) /\ Contains(kernel.pend[o], z)
      BY <2>2 DEF LateAt, CutOut
    <3> QED BY <1>1, <3>2, <3>3
  <2>3. ASSUME NEW z \in Task, CutOff(o, z) PROVE z = x
    <3>1. z \in TCB /\ AtResult(z) /\ kernel'.status[z] \cap {"EXIT", "UNUSED"} # {}
      BY <2>3 DEF CutOff, CallersOn, TCB
    <3>2. ~AtResult(z)'
      BY <3>1 DEF ObjInv, OutcomeInv
    <3> QED BY <1>1, <3>1, <3>2
  <2> QED BY <2>1, <2>2, <2>3 DEF LeavesOn
<1> QED BY <1>2

LEMMA LeaversCall ==
    ASSUME NEW o, Split(o), NEW x, LeavesOn(o, x)
    PROVE  x \in CallersOn(o) /\ arg[x] = o
  BY DEF LeavesOn, LateAt, CutOff, Split, CallersOn

LEMMA TasksKeepJobs ==
    ASSUME TaskStepOfQueues
    PROVE  NewJobs
<1>1. \A t \in TCB : job'[t] = IF todo'[t] = <<>> THEN NoJob ELSE job[t]
  BY DEF TaskStepOfQueues
<1>2. \A t \in TCB : AtResult(t)' => todo'[t] # <<>>
  BY DEF AtResult
<1> QED BY <1>1, <1>2 DEF NewJobs

\* The nodes that were reserved for those who are deleted are lost.
LEMMA TasksLose ==
    ASSUME NodeInv, TaskStepOfQueues, ResultsGoOn, NEW q \in Queue, NEW rw \in RW
    PROVE  lost'[q][rw] = lost[q][rw] + Cardinality(GrantedOn(<<q, rw>>) \ GrantedOn(<<q, rw>>)')
<1>0. \A z : AtResult(z)' => todo'[z] # <<>>
  BY DEF AtResult
<1>1. lost'[q][rw] = lost[q][rw] + Cardinality({t \in Reserved(q, rw) : todo'[t] = <<>>})
  BY DEF TaskStepOfQueues
<1>2. Reserved(q, rw) = GrantedOn(<<q, rw>>)
  BY NodeParts, ReservedIsDue DEF Due, GrantedOn, Granted, CallersOn
<1>3. ASSUME NEW t \in GrantedOn(<<q, rw>>)
      PROVE  todo'[t] = <<>> <=> t \notin GrantedOn(<<q, rw>>)'
  <2>1. t \in Task /\ t \in TCB /\ AtResult(t) /\ arg[t] = <<q, rw>> /\ Granted(t)
    BY DEF GrantedOn, CallersOn, TCB
  <2>2. /\ AtResult(t)' => arg'[t] = arg[t] /\ Granted(t)'
        /\ AtResult(t)' \/ todo'[t] = <<>>
    BY <2>1 DEF ResultsGoOn
  <2>3. AtResult(t)' => todo'[t] # <<>>
    BY <1>0
  <2> QED BY <2>1, <2>2, <2>3 DEF GrantedOn, CallersOn
<1>4. {t \in Reserved(q, rw) : todo'[t] = <<>>} = GrantedOn(<<q, rw>>) \ GrantedOn(<<q, rw>>)'
  BY <1>2, <1>3
<1> QED BY <1>1, <1>4

-----------------------------------------------------------------------------
(* The steps of the tasks.                                                 *)

LEMMA WaitingStays ==
    ASSUME NEW q, \A rw \in RW : kernel'.pend[<<q, rw>>] = kernel.pend[<<q, rw>>]
    PROVE  WaitingOn(q)' = WaitingOn(q)
  BY DEF WaitingOn

LEMMA GrantedStays ==
    ASSUME NEW q, SidesOf(q), SidesOf(q)', \A rw \in RW : GrantedOn(<<q, rw>>)' = GrantedOn(<<q, rw>>)
    PROVE  GrantedBy(q)' = GrantedBy(q)
  BY DEF SidesOf

LEMMA ExpiredStays ==
    ASSUME NEW q, SidesOf(q), SidesOf(q)', \A rw \in RW : LateOn(<<q, rw>>)' = LateOn(<<q, rw>>)
    PROVE  ExpiredOn(q)' = ExpiredOn(q)
  BY DEF SidesOf

\* x leaves the wait list of side s, and the other list stays.
LEMMA QueueUnqueues ==
    ASSUME NEW q, SidesOf(q), NEW s \in RW, NEW x, Contains(kernel.pend[<<q, s>>], x),
           CutOut(<<q, s>>, x),
           WaitingOn(q)' = [WaitingOn(q) EXCEPT ![s] = kernel'.pend[<<q, s>>]]
    PROVE  AbstractQueue(q)!Unqueue(s, x)
<1>1. PICK p \in Seq(Task) : p = kernel.pend[<<q, s>>]
  BY DEF SidesOf, Split
<1>2. PICK r : r = RemoveFirst(p, x)
  OBVIOUS
<1>3. PICK i \in DOMAIN p : p[i] = x /\ r = SubSeq(p, 1, i - 1) \o SubSeq(p, i + 1, Len(p))
  BY <1>1, <1>2, UnlinkCut
<1>4. kernel'.pend[<<q, s>>] = r
  BY <1>1, <1>2 DEF CutOut, Unlink
<1>5. WaitingOn(q)[s] = p
  BY <1>1 DEF WaitingOn
<1>6. WaitingOn(q)' = [WaitingOn(q) EXCEPT ![s] = SubSeq(p, 1, i - 1) \o SubSeq(p, i + 1, Len(p))]
  BY <1>3, <1>4
<1> QED BY <1>3, <1>5, <1>6 DEF AbstractQueue!Unqueue

\* The callers of a side after one has run out of time, or is gone.
LEMMA LateCallers ==
    ASSUME NEW o, Split(o), Split(o)', NEW x, LateAt(o, x)
    PROVE  CallersOn(o)' = CallersOn(o)
<1>1. PICK p \in Seq(Task) : p = kernel.pend[o] /\ IsInjective(p)
  BY DEF Split
<1>2. PICK r : r = RemoveFirst(p, x) /\ kernel'.pend[o] = r
  BY <1>1 DEF LateAt, CutOut, Unlink
<1>3. ~Contains(r, x) /\ \A z : z # x => (Contains(r, z) <=> Contains(p, z))
  BY <1>1, <1>2, UnlinkOnce
<1>4. Contains(p, x) /\ x \in Task
  <2>1. Contains(p, x)
    BY <1>1 DEF LateAt
  <2> QED BY <1>1, <2>1, ContainsType
<1>5. GrantedOn(o)' = GrantedOn(o) /\ LateOn(o)' = LateOn(o) \cup {x}
  BY DEF LateAt
<1>6. CallersOn(o) = {t \in Task : Contains(p, t)} \cup GrantedOn(o) \cup LateOn(o)
  BY <1>1, CallersAre
<1>7. CallersOn(o)' = {t \in Task : Contains(r, t)} \cup GrantedOn(o)' \cup LateOn(o)'
  BY <1>2, CallersAreNext
<1> QED BY <1>3, <1>4, <1>5, <1>6, <1>7

LEMMA CutCallers ==
    ASSUME NEW o, Split(o), Split(o)', NEW x, CutOff(o, x)
    PROVE  CallersOn(o)' = CallersOn(o) \ {x}
<1>1. PICK p \in Seq(Task) : p = kernel.pend[o] /\ IsInjective(p)
  BY DEF Split
<1>2. PICK r : r = RemoveFirst(p, x) /\ kernel'.pend[o] = r
  BY <1>1 DEF CutOff, CutOut, Unlink
<1>3. ~Contains(r, x) /\ \A z : z # x => (Contains(r, z) <=> Contains(p, z))
  BY <1>1, <1>2, UnlinkOnce
<1>5. GrantedOn(o)' = GrantedOn(o) \ {x} /\ LateOn(o)' = LateOn(o) \ {x}
  BY DEF CutOff
<1>6. CallersOn(o) = {t \in Task : Contains(p, t)} \cup GrantedOn(o) \cup LateOn(o)
  BY <1>1, CallersAre
<1>7. CallersOn(o)' = {t \in Task : Contains(r, t)} \cup GrantedOn(o)' \cup LateOn(o)'
  BY <1>2, CallersAreNext
<1> QED BY <1>3, <1>5, <1>6, <1>7

LEMMA SameCallers ==
    ASSUME NEW o, Split(o), Split(o)', SameOn(o)
    PROVE  CallersOn(o)' = CallersOn(o)
<1>1. CallersOn(o) = {t \in Task : Contains(kernel.pend[o], t)} \cup GrantedOn(o) \cup LateOn(o)
  BY CallersAre
<1>2. CallersOn(o)' = {t \in Task : Contains(kernel'.pend[o], t)} \cup GrantedOn(o)' \cup LateOn(o)'
  BY CallersAreNext
<1> QED BY <1>1, <1>2 DEF SameOn

\* One side of q loses a caller or has one that is late; the other stays.
OthersSame(q, s) == \A z \in RW : z # s => SameOn(<<q, z>>)

LEMMA QueueExpires ==
    ASSUME NEW q \in Queue, SidesOf(q), SidesOf(q)', NewJobs, SameBlock(q), NEW s \in RW, NEW x,
           LateAt(<<q, s>>, x), OthersSame(q, s)
    PROVE  AbstractQueue(q)!Expire(s, x)
<1>0. /\ WaitingOn(q)' = [WaitingOn(q) EXCEPT ![s] = kernel'.pend[<<q, s>>]]
      /\ ExpiredOn(q)' = [ExpiredOn(q) EXCEPT ![s] = LateOn(<<q, s>>)']
  BY SideTurns DEF OthersSame
<1>1. AbstractQueue(q)!Unqueue(s, x)
  BY <1>0, QueueUnqueues DEF LateAt
<1>2. ExpiredOn(q)' = [ExpiredOn(q) EXCEPT ![s] = ExpiredOn(q)[s] \cup {x}]
  <2>1. LateOn(<<q, s>>)' = LateOn(<<q, s>>) \cup {x} /\ ExpiredOn(q)[s] = LateOn(<<q, s>>)
    BY SidesAreFunctions DEF LateAt
  <2> QED BY <1>0, <2>1
<1>3. GrantedBy(q)' = GrantedBy(q)
  <2>1. \A rw \in RW : GrantedOn(<<q, rw>>)' = GrantedOn(<<q, rw>>)
    BY DEF OthersSame, LateAt, SameOn
  <2> QED BY <2>1, GrantedStays
<1>4. JobsOn(q)' = JobsOn(q)
  <2>1. ASSUME NEW rw \in RW PROVE CallersOn(<<q, rw>>)' = CallersOn(<<q, rw>>)
    <3>1. PICK o : o = <<q, rw>>
      OBVIOUS
    <3>2. Split(o) /\ Split(o)'
      BY <3>1 DEF SidesOf
    <3>3. LateAt(o, x) \/ SameOn(o)
      BY <3>1 DEF OthersSame
    <3>4. CallersOn(o)' = CallersOn(o)
      BY <3>2, <3>3, LateCallers, SameCallers
    <3> QED BY <3>1, <3>4
  <2> QED BY <2>1, JobsSame
<1>5. /\ Content(q)' = Content(q) /\ InUse(q)' = InUse(q)
      /\ queueCB'[q].len = queueCB[q].len /\ lost'[q] = lost[q]
  BY BlockContent DEF SameBlock
<1> QED BY <1>1, <1>2, <1>3, <1>4, <1>5 DEF AbstractQueue!Expire

\* The grants of callers that are deleted are counted.
CountsLost(q) ==
    /\ lost[q] \in [RW -> Nat] /\ lost'[q] \in [RW -> Nat]
    /\ \A rw \in RW :
          lost'[q][rw] = lost[q][rw] + Cardinality(GrantedOn(<<q, rw>>) \ GrantedOn(<<q, rw>>)')

LEMMA NoneLost ==
    ASSUME NEW q, CountsLost(q), \A rw \in RW : GrantedOn(<<q, rw>>)' = GrantedOn(<<q, rw>>)
    PROVE  lost'[q] = lost[q]
<1>1. ASSUME NEW rw \in RW PROVE lost'[q][rw] = lost[q][rw]
  <2>1. GrantedOn(<<q, rw>>) \ GrantedOn(<<q, rw>>)' = {}
    OBVIOUS
  <2>2. Cardinality({}) = 0
    BY FS_EmptySet
  <2>3. lost[q][rw] \in Nat
    BY DEF CountsLost
  <2> QED BY <2>1, <2>2, <2>3 DEF CountsLost
<1> QED BY <1>1 DEF CountsLost

LEMMA OneLost ==
    ASSUME NEW q, CountsLost(q), NEW s \in RW, NEW x, x \in GrantedOn(<<q, s>>),
           GrantedOn(<<q, s>>)' = GrantedOn(<<q, s>>) \ {x}, OthersSame(q, s)
    PROVE  lost'[q] = [lost[q] EXCEPT ![s] = @ + 1]
<1>1. ASSUME NEW rw \in RW, rw # s PROVE lost'[q][rw] = lost[q][rw]
  <2>1. GrantedOn(<<q, rw>>) \ GrantedOn(<<q, rw>>)' = {}
    BY <1>1 DEF OthersSame, SameOn
  <2>2. Cardinality({}) = 0
    BY FS_EmptySet
  <2>3. lost[q][rw] \in Nat
    BY DEF CountsLost
  <2> QED BY <2>1, <2>2, <2>3 DEF CountsLost
<1>2. lost'[q][s] = lost[q][s] + 1
  <2>1. GrantedOn(<<q, s>>) \ GrantedOn(<<q, s>>)' = {x}
    OBVIOUS
  <2>2. Cardinality({x}) = 1
    BY FS_Singleton
  <2> QED BY <2>1, <2>2 DEF CountsLost
<1> QED BY <1>1, <1>2 DEF CountsLost

LEMMA QueueLeaves ==
    ASSUME NEW q \in Queue, SidesOf(q), SidesOf(q)', NewJobs, queueCB'[q] = queueCB[q], CountsLost(q),
           NEW s \in RW, NEW x, CutOff(<<q, s>>, x), OthersSame(q, s)
    PROVE  AbstractQueue(q)!Leave(s, x) \/ AbstractQueue(q)!GiveUp(s, x)
<1>0. /\ WaitingOn(q)' = [WaitingOn(q) EXCEPT ![s] = kernel'.pend[<<q, s>>]]
      /\ GrantedBy(q)' = [GrantedBy(q) EXCEPT ![s] = GrantedOn(<<q, s>>)']
      /\ ExpiredOn(q)' = [ExpiredOn(q) EXCEPT ![s] = LateOn(<<q, s>>)']
      /\ GrantedBy(q)[s] = GrantedOn(<<q, s>>) /\ ExpiredOn(q)[s] = LateOn(<<q, s>>)
  BY SideTurns, SidesAreFunctions DEF OthersSame
<1>1. PICK o : o = <<q, s>>
  OBVIOUS
<1>2. /\ Split(o) /\ Split(o)' /\ x \in CallersOn(o) /\ CutOut(o, x) /\ x \in Task
      /\ GrantedOn(o)' = GrantedOn(o) \ {x} /\ LateOn(o)' = LateOn(o) \ {x}
  BY <1>1 DEF SidesOf, CutOff, CallersOn
<1>3. JobsOn(q)' = [JobsOn(q) EXCEPT ![x] = NoJob]
  <2>1. ASSUME NEW rw \in RW PROVE CallersOn(<<q, rw>>)' = CallersOn(<<q, rw>>) \ {x}
    <3>1. PICK p : p = <<q, rw>>
      OBVIOUS
    <3>2. Split(p) /\ Split(p)'
      BY <3>1 DEF SidesOf
    <3>3. CASE rw = s
      BY <1>1, <3>1, <3>2, <3>3, CutCallers
    <3>4. CASE rw # s
      <4>1. SameOn(p) /\ p # o
        BY <1>1, <3>1, <3>4 DEF OthersSame
      <4>2. CallersOn(p)' = CallersOn(p)
        BY <3>2, <4>1, SameCallers
      <4>3. x \notin CallersOn(p)
        BY <1>2, <4>1 DEF CallersOn
      <4> QED BY <3>1, <4>2, <4>3
    <3> QED BY <3>3, <3>4
  <2> QED BY <1>2, <2>1, JobEnds
<1>4. Content(q)' = Content(q) /\ InUse(q)' = InUse(q) /\ queueCB'[q].len = queueCB[q].len
  BY BlockContent
<1>5. \A rw \in RW : rw # s => /\ GrantedOn(<<q, rw>>)' = GrantedOn(<<q, rw>>)
                               /\ LateOn(<<q, rw>>)' = LateOn(<<q, rw>>)
                               /\ kernel'.pend[<<q, rw>>] = kernel.pend[<<q, rw>>]
  BY DEF OthersSame, SameOn
<1>6. x \notin GrantedOn(o) => lost'[q] = lost[q] /\ GrantedBy(q)' = GrantedBy(q)
  <2>1. x \notin GrantedOn(o) => \A rw \in RW : GrantedOn(<<q, rw>>)' = GrantedOn(<<q, rw>>)
    BY <1>1, <1>2, <1>5
  <2> QED BY <2>1, NoneLost, GrantedStays
<1>7. x \notin LateOn(o) => ExpiredOn(q)' = ExpiredOn(q)
  <2>1. x \notin LateOn(o) => \A rw \in RW : LateOn(<<q, rw>>)' = LateOn(<<q, rw>>)
    BY <1>1, <1>2, <1>5
  <2> QED BY <2>1, ExpiredStays
<1>8. ~Contains(kernel.pend[o], x) => WaitingOn(q)' = WaitingOn(q)
  <2> SUFFICES ASSUME ~Contains(kernel.pend[o], x) PROVE WaitingOn(q)' = WaitingOn(q)
    OBVIOUS
  <2>1. kernel'.pend[o] = kernel.pend[o]
    BY <1>2, UnlinkAbsent DEF CutOut, Unlink
  <2> QED BY <1>1, <1>5, <2>1, WaitingStays
<1>9. CASE Contains(kernel.pend[o], x)
  <2>1. x \notin GrantedOn(o) /\ x \notin LateOn(o)
    BY <1>2, <1>9 DEF Split, GrantedOn, LateOn, Granted
  <2>2. AbstractQueue(q)!Unqueue(s, x)
    BY <1>0, <1>1, <1>2, <1>9, QueueUnqueues
  <2> QED BY <1>3, <1>4, <1>6, <1>7, <2>1, <2>2 DEF AbstractQueue!Leave, AbstractQueue!Ends
<1>10. CASE x \in GrantedOn(o)
  <2>1. ~Contains(kernel.pend[o], x) /\ x \notin LateOn(o)
    BY <1>2, <1>10 DEF Split, GrantedOn, LateOn, Granted
  <2>2. lost'[q] = [lost[q] EXCEPT ![s] = @ + 1]
    BY <1>1, <1>2, <1>10, OneLost
  <2>3. GrantedBy(q)' = [GrantedBy(q) EXCEPT ![s] = @ \ {x}]
    BY <1>0, <1>1, <1>2
  <2> QED BY <1>0, <1>1, <1>3, <1>4, <1>7, <1>8, <1>10, <2>1, <2>2, <2>3
       DEF AbstractQueue!Leave, AbstractQueue!Ends
<1>11. CASE x \in LateOn(o)
  <2>1. ~Contains(kernel.pend[o], x) /\ x \notin GrantedOn(o)
    BY <1>2, <1>11 DEF Split, GrantedOn
  <2>2. ExpiredOn(q)' = [ExpiredOn(q) EXCEPT ![s] = @ \ {x}]
    BY <1>0, <1>1, <1>2
  <2> QED BY <1>0, <1>1, <1>3, <1>4, <1>6, <1>8, <1>11, <2>1, <2>2
       DEF AbstractQueue!GiveUp, AbstractQueue!Ends
<1>12. x \in GrantedOn(o) \/ x \in LateOn(o) \/ Contains(kernel.pend[o], x)
  BY <1>2 DEF Split, GrantedOn
<1> QED BY <1>9, <1>10, <1>11, <1>12

LEMMA QueueTaskStep ==
    ASSUME Unprotected = {}, NodeInv, NodeInv', TaskStepOfQueues, NEW q \in Queue
    PROVE  QueueStepOn(q)
<1>1. /\ TaskNext /\ queueCB' = queueCB /\ TaskInv /\ ObjInv /\ TaskInv' /\ ObjInv'
  BY DEF TaskStepOfQueues, NodeInv, QueueInv
<1>2. ResultsGoOn
  BY <1>1, TaskGoes
<1>3. NewJobs
  BY TasksKeepJobs
<1>4. SidesOf(q) /\ SidesOf(q)'
  BY SidesAre, SidesNext
<1>5. CountsLost(q)
  <2>1. lost[q] \in [RW -> Nat] /\ lost'[q] \in [RW -> Nat]
    BY NodeParts DEF NodeInv
  <2>2. \A rw \in RW :
           lost'[q][rw] = lost[q][rw] + Cardinality(GrantedOn(<<q, rw>>) \ GrantedOn(<<q, rw>>)')
    BY <1>2, TasksLose
  <2> QED BY <2>1, <2>2 DEF CountsLost
<1>6. PICK x \in TCB : \A o \in WaitObj : SameOn(o) \/ LeavesOn(o, x)
  BY <1>1, <1>2, OneOn
<1>7. \A rw \in RW : <<q, rw>> \in WaitObj
  BY ListsAreObjects
<1>8. CASE \A rw \in RW : SameOn(<<q, rw>>)
  <2>1. \A rw \in RW : GrantedOn(<<q, rw>>)' = GrantedOn(<<q, rw>>)
    BY <1>8 DEF SameOn
  <2>2. SameBlock(q)
    BY <1>1, <1>5, <2>1, NoneLost DEF SameBlock
  <2> QED BY <1>3, <1>8, <2>2, QueueStutters DEF QueueStepOn
<1>9. ASSUME NEW s \in RW, ~SameOn(<<q, s>>) PROVE QueueStepOn(q)
  <2>1. LeavesOn(<<q, s>>, x)
    BY <1>6, <1>7, <1>9
  <2>2. OthersSame(q, s)
    <3>1. arg[x] = <<q, s>>
      BY <1>4, <2>1, LeaversCall DEF SidesOf
    <3>2. \A z \in RW : LeavesOn(<<q, z>>, x) => arg[x] = <<q, z>>
      BY <1>4, LeaversCall DEF SidesOf
    <3> QED BY <1>6, <1>7, <3>1, <3>2 DEF OthersSame
  <2>3. x \in Task /\ s \in AbstractQueue(q)!Side
    BY <2>1 DEF LeavesOn, AbstractQueue!Side, RW
  <2>4. CASE LateAt(<<q, s>>, x)
    <3>1. SameBlock(q)
      <4>1. \A rw \in RW : GrantedOn(<<q, rw>>)' = GrantedOn(<<q, rw>>)
        BY <2>2, <2>4 DEF OthersSame, SameOn, LateAt
      <4> QED BY <1>1, <1>5, <4>1, NoneLost DEF SameBlock
    <3>2. AbstractQueue(q)!Expire(s, x)
      BY <1>3, <1>4, <2>2, <2>4, <3>1, QueueExpires
    <3> QED BY <2>3, <3>2 DEF QueueStepOn, AbstractQueue!Next
  <2>5. CASE CutOff(<<q, s>>, x)
    <3>1. AbstractQueue(q)!Leave(s, x) \/ AbstractQueue(q)!GiveUp(s, x)
      BY <1>1, <1>3, <1>4, <1>5, <2>2, <2>5, QueueLeaves
    <3> QED BY <2>3, <3>1 DEF QueueStepOn, AbstractQueue!Next
  <2> QED BY <2>1, <2>4, <2>5 DEF LeavesOn
<1> QED BY <1>8, <1>9

-----------------------------------------------------------------------------
(* What nobody was promised, and who is handed what a job makes available. *)

LEMMA SameCardinality ==
    ASSUME NEW q, NEW S
    PROVE  AbstractQueue(q)!Cardinality(S) = Cardinality(S)
  BY DEF AbstractQueue!Cardinality, Cardinality

LEMMA UnclaimedIs ==
    ASSUME NodeInv, NEW q \in Queue, InUse(q), NEW s \in RW
    PROVE  AbstractQueue(q)!Unclaimed(s) = queueCB[q].cnt[s]
<1>1. /\ queueCB[q] \in ControlBlock /\ OnRing(queueCB[q]) /\ Ring(queueCB[q]) /\ queueCB[q].len # 0
      /\ queueCB[q].cnt[s] \in Nat /\ lost[q][s] \in Nat /\ queueCB[q].len \in Nat
      /\ queueCB[q].cnt[s] + Cardinality(Due(q, s)) + lost[q][s] = Share(queueCB[q], s)
  <2>1. queueCB[q] \in ControlBlock /\ OnRing(queueCB[q]) /\ Balanced(q)
    BY DEF NodeInv, QueueInv, QueueParts
  <2>2. queueCB[q].len # 0
    BY <2>1 DEF OnRing, InUse
  <2> QED BY <2>1, <2>2, LengthsAreNat DEF NodeInv, Balanced, ControlBlock
<1>2. Cardinality(GrantedBy(q)[s]) = Cardinality(Due(q, s)) /\ Cardinality(Due(q, s)) \in Nat
  <2>1. GrantedBy(q)[s] = GrantedOn(<<q, s>>)
    BY SidesAre, SidesAreFunctions
  <2>2. GrantedOn(<<q, s>>) = Due(q, s)
    BY DEF GrantedOn, CallersOn, Due, Granted
  <2> QED BY <2>1, <2>2, DueFinite
<1>3. Len(Content(q)) = Used(queueCB[q]) /\ Used(queueCB[q]) \in Nat
  BY <1>1, ContentIs, ContentLength, UsedNat
<1>4. PICK n, d, l, c, u, len : /\ n = Cardinality(GrantedBy(q)[s]) /\ d = Cardinality(Due(q, s))
                                /\ l = lost[q][s] /\ c = queueCB[q].cnt[s] /\ u = Used(queueCB[q])
                                /\ len = queueCB[q].len
  OBVIOUS
<1>5. AbstractQueue(q)!Unclaimed(s) = (IF s = "READ" THEN u ELSE len - u) - d - l
  <2>1. AbstractQueue(q)!Unclaimed(s) =
           (IF s = "READ" THEN Len(Content(q)) ELSE queueCB[q].len - Len(Content(q)))
              - Cardinality(GrantedBy(q)[s]) - lost[q][s]
    BY SameCardinality DEF AbstractQueue!Unclaimed
  <2>2. Len(Content(q)) = u /\ Cardinality(GrantedBy(q)[s]) = d
    BY <1>2, <1>3, <1>4
  <2> QED BY <1>4, <2>1, <2>2
<1>6. c + d + l = IF s = "READ" THEN u ELSE len - u
  BY <1>1, <1>4 DEF Share
<1>7. c \in Nat /\ d \in Nat /\ l \in Nat /\ u \in Nat /\ len \in Nat
  BY <1>1, <1>2, <1>3, <1>4
<1> QED BY <1>4, <1>5, <1>6, <1>7

\* The first on the list b is woken, if there is one; the calls of T, who were
\* granted something on a, are over.
FirstWoken(b, W) ==
    IF kernel.pend[b] = <<>>
    THEN W = {} /\ \A p \in WaitObj : kernel'.pend[p] = kernel.pend[p]
    ELSE /\ W = {Head(kernel.pend[b])}
         /\ \A p \in WaitObj : kernel'.pend[p] = Unlink(kernel.pend[p], Head(kernel.pend[b]))

\* What this means for the callers of o.
HandsTo(a, b, T, o) ==
    /\ LateOn(o)' = LateOn(o)
    /\ IF o = b /\ kernel.pend[b] # <<>>
       THEN /\ GrantedOn(o)' = GrantedOn(o) \cup {Head(kernel.pend[b])}
            /\ kernel'.pend[o] = Tail(kernel.pend[o])
       ELSE /\ GrantedOn(o)' = IF o = a THEN GrantedOn(o) \ T ELSE GrantedOn(o)
            /\ kernel'.pend[o] = kernel.pend[o]
    /\ CallersOn(o)' = CallersOn(o) \ T

LEMMA HandsOver ==
    ASSUME TaskInv, ObjInv, TaskInv', ObjInv', NEW T, NEW W, Granting(T, W),
           NEW a, NEW b \in WaitObj, a # b, FirstWoken(b, W), NEW o \in WaitObj,
           \A u \in T : AtResult(u) => Granted(u) /\ arg[u] = a
    PROVE  HandsTo(a, b, T, o)
<1>1. CallersAfter(o, T, W)
  BY GrantsOn
<1>2. /\ CallersOn(o)' = CallersOn(o) \ T
      /\ GrantedOn(o)' = (GrantedOn(o) \ T) \cup (W \cap CallersOn(o))
      /\ LateOn(o)' = {t \in CallersOn(o) \ T :
                          ~Granted(t) /\ t \notin W /\ ~Contains(kernel'.pend[o], t)}
  BY <1>1 DEF CallersAfter
<1>3. Split(o) /\ Split(b)
  BY CallersSplit
<1>4. LateOn(o) = {t \in CallersOn(o) : ~Granted(t) /\ ~Contains(kernel.pend[o], t)}
  BY <1>3 DEF Split
<1>5. \A t \in T : t \in CallersOn(o) => Granted(t) /\ o = a
  BY DEF CallersOn
<1>6. o # a => GrantedOn(o) \ T = GrantedOn(o)
  BY <1>5 DEF GrantedOn
<1>7. CASE kernel.pend[b] = <<>>
  <2>1. W = {} /\ kernel'.pend[o] = kernel.pend[o]
    BY <1>7 DEF FirstWoken
  <2>2. LateOn(o)' = LateOn(o)
    BY <1>2, <1>4, <1>5, <2>1
  <2> QED BY <1>2, <1>6, <1>7, <2>1, <2>2 DEF HandsTo
<1>8. CASE kernel.pend[b] # <<>>
  <2>1. PICK w : w = Head(kernel.pend[b])
    OBVIOUS
  <2>2. W = {w} /\ kernel'.pend[o] = Unlink(kernel.pend[o], w)
    BY <1>8, <2>1 DEF FirstWoken
  <2>3. w \in CallersOn(b) /\ w \in Task /\ Contains(kernel.pend[b], w)
    <3>1. kernel.pend[b] \in Seq(Task)
      BY <1>3 DEF Split
    <3>2. w \in Task /\ Contains(kernel.pend[b], w)
      BY <1>8, <2>1, <3>1, EmptyList
    <3> QED BY <1>3, <3>2 DEF Split
  <2>4. arg[w] = b
    BY <2>3 DEF CallersOn
  <2>5. CASE o = b
    <3>1. PICK p \in Seq(Task) : p = kernel.pend[o] /\ IsInjective(p)
      BY <1>3 DEF Split
    <3>2. kernel'.pend[o] = RemoveFirst(p, w) /\ w = Head(p) /\ p # <<>>
      BY <1>8, <2>1, <2>2, <2>5, <3>1 DEF Unlink
    <3>6. kernel'.pend[o] = Tail(p)
      BY <3>1, <3>2, UnlinkHead
    <3>7. \A z : z # w => (Contains(RemoveFirst(p, w), z) <=> Contains(p, z))
      BY <3>1, UnlinkOnce
    <3>3. /\ kernel'.pend[o] = Tail(p)
          /\ \A z : z # w => (Contains(kernel'.pend[o], z) <=> Contains(p, z))
      BY <3>2, <3>6, <3>7
    <3>4. GrantedOn(o)' = GrantedOn(o) \cup {w}
      BY <1>2, <1>6, <2>2, <2>3, <2>5
    <3>5. LateOn(o)' = LateOn(o)
      BY <1>2, <1>4, <1>5, <2>2, <2>3, <2>5, <3>1, <3>3
    <3> QED BY <1>2, <1>8, <2>1, <2>5, <3>1, <3>3, <3>4, <3>5 DEF HandsTo
  <2>6. CASE o # b
    <3>1. w \notin CallersOn(o)
      BY <2>4, <2>6 DEF CallersOn
    <3>2. ~Contains(kernel.pend[o], w)
      BY <1>3, <3>1 DEF Split
    <3>3. kernel'.pend[o] = kernel.pend[o]
      BY <2>2, <3>2, UnlinkAbsent DEF Unlink
    <3>4. LateOn(o)' = LateOn(o)
      BY <1>2, <1>4, <1>5, <2>2, <3>1, <3>3
    <3>5. GrantedOn(o)' = GrantedOn(o) \ T
      BY <1>2, <2>2, <3>1
    <3> QED BY <1>2, <1>6, <2>6, <3>3, <3>4, <3>5 DEF HandsTo
  <2> QED BY <2>5, <2>6
<1> QED BY <1>7, <1>8

LEMMA OperatedWakes ==
    ASSUME TaskInv, ObjInv, NEW q \in Queue, NEW j \in Job, NEW T, NEW W, HandedOn(q, j, T, W),
           \/ \E t \in TCB : OperatedCall(t, q, j)
           \/ IsrQueueOperate(q, j)
    PROVE  FirstWoken(<<q, Other(j.rw)>>, W)
<1>1. PICK b \in WaitObj : b = <<q, Other(j.rw)>> /\ Opposite(q, j.rw) = kernel.pend[b]
  BY ListsAreObjects DEF Opposite, Other, RW
<1>2. WellFormed(kernel) /\ "pend" \in DOMAIN kernel /\ WaitObj \subseteq WaitList
  BY SafeKernel DEF WellFormed, SchedState, WaitList, ObjInv
<1>3. CASE kernel.pend[b] = <<>>
  <2>1. kernel' = kernel
    BY <1>1, <1>3 DEF OperatedCall, Call, IsrQueueOperate
  <2> QED BY <1>1, <1>3, <2>1 DEF FirstWoken, HandedOn
<1>4. CASE kernel.pend[b] # <<>>
  <2>1. PICK w : w = Head(kernel.pend[b])
    OBVIOUS
  <2>2. PICK m : m = OsSchedTaskWake(kernel, w)
    OBVIOUS
  <2>3. kernel' = m \/ kernel' = LOS_Schedule(m)
    BY <1>1, <1>4, <2>1, <2>2 DEF OperatedCall, Call, IsrQueueOperate
  <2>4. WellFormed(m)
    BY <1>4, <2>1, <2>2, SelfAsBefore, FirstWaiter DEF ObjInv
  <2>5. kernel'.pend = m.pend
    BY <2>3, <2>4, AskSame DEF SameLists
  <2>6. \A p \in WaitObj : m.pend[p] = Unlink(kernel.pend[p], w)
    <3>1. LeftBy(kernel, m, w)
      BY <2>2, WakePend
    <3> QED BY <1>2, <3>1 DEF LeftBy
  <2>7. W = {w}
    BY <1>1, <1>4, <2>1 DEF HandedOn
  <2> QED BY <1>1, <1>4, <2>1, <2>5, <2>6, <2>7 DEF FirstWoken
<1> QED BY <1>3, <1>4

\* The longest waiting caller of the other side has what is new, if there is one.
LEMMA QueueHands ==
    ASSUME NEW q \in Queue, SidesOf(q), SidesOf(q)', NEW r \in RW, NEW s \in RW, r # s, NEW T, NEW now,
           \A rw \in RW : HandsTo(<<q, r>>, <<q, s>>, T, <<q, rw>>),
           now = [rw \in RW |-> IF rw = r THEN GrantedOn(<<q, rw>>) \ T ELSE GrantedOn(<<q, rw>>)]
    PROVE  AbstractQueue(q)!Hand(s, now) /\ ExpiredOn(q)' = ExpiredOn(q)
<1>1. ExpiredOn(q)' = ExpiredOn(q)
  <2>1. \A rw \in RW : LateOn(<<q, rw>>)' = LateOn(<<q, rw>>)
    BY DEF HandsTo
  <2> QED BY <2>1, ExpiredStays
<1>2. PICK F, G : F = WaitingOn(q) /\ G = WaitingOn(q)'
  OBVIOUS
<1>3. /\ F = [rw \in RW |-> F[rw]] /\ G = [rw \in RW |-> G[rw]]
      /\ \A rw \in RW : F[rw] = kernel.pend[<<q, rw>>] /\ G[rw] = kernel'.pend[<<q, rw>>]
  BY <1>2 DEF WaitingOn
<1>4. PICK H : H = GrantedBy(q)'
  OBVIOUS
<1>5. H = [rw \in RW |-> H[rw]] /\ \A rw \in RW : H[rw] = GrantedOn(<<q, rw>>)'
  BY <1>4 DEF SidesOf
<1>6. now = [rw \in RW |-> now[rw]] /\ now[s] = GrantedOn(<<q, s>>) /\ now[r] = GrantedOn(<<q, r>>) \ T
  OBVIOUS
<1>7. \A rw \in RW : rw = r \/ rw = s
  BY DEF RW
<1>8. \A rw \in RW : <<q, rw>> = <<q, s>> <=> rw = s
  OBVIOUS
<1>9. \A rw \in RW : <<q, rw>> = <<q, r>> <=> rw = r
  OBVIOUS
<1>10. G[r] = F[r] /\ H[r] = now[r]
  <2>1. GrantedOn(<<q, r>>)' = GrantedOn(<<q, r>>) \ T /\ kernel'.pend[<<q, r>>] = kernel.pend[<<q, r>>]
    BY <1>8, <1>9 DEF HandsTo
  <2> QED BY <1>3, <1>5, <1>6, <2>1
<1>11. CASE F[s] = <<>>
  <2>1. GrantedOn(<<q, s>>)' = GrantedOn(<<q, s>>) /\ kernel'.pend[<<q, s>>] = kernel.pend[<<q, s>>]
    BY <1>3, <1>8, <1>9, <1>11 DEF HandsTo
  <2>2. G[s] = F[s] /\ H[s] = now[s]
    BY <1>3, <1>5, <1>6, <2>1
  <2>3. G = F
    BY <1>3, <1>7, <1>10, <2>2
  <2>4. H = now
    BY <1>5, <1>6, <1>7, <1>10, <2>2
  <2>5. WaitingOn(q)[s] = <<>>
    BY <1>2, <1>11
  <2> QED BY <1>1, <1>2, <1>4, <2>3, <2>4, <2>5 DEF AbstractQueue!Hand
<1>12. CASE F[s] # <<>>
  <2>1. /\ GrantedOn(<<q, s>>)' = GrantedOn(<<q, s>>) \cup {Head(kernel.pend[<<q, s>>])}
        /\ kernel'.pend[<<q, s>>] = Tail(kernel.pend[<<q, s>>])
    BY <1>3, <1>8, <1>12 DEF HandsTo
  <2>2. G[s] = Tail(F[s]) /\ H[s] = now[s] \cup {Head(F[s])}
    BY <1>3, <1>5, <1>6, <2>1
  <2>3. G = [F EXCEPT ![s] = G[s]]
    BY <1>3, <1>7, <1>10, SideChanges
  <2>4. H = [now EXCEPT ![s] = H[s]]
    BY <1>5, <1>6, <1>7, <1>10, SideChanges
  <2>5. G = [F EXCEPT ![s] = Tail(@)] /\ H = [now EXCEPT ![s] = @ \cup {Head(F[s])}]
    BY <2>2, <2>3, <2>4
  <2>6. WaitingOn(q)' = [WaitingOn(q) EXCEPT ![s] = Tail(@)]
    BY <1>2, <2>5
  <2>7. GrantedBy(q)' = [now EXCEPT ![s] = @ \cup {Head(WaitingOn(q)[s])}]
    BY <1>2, <1>4, <2>5
  <2>8. WaitingOn(q)[s] # <<>>
    BY <1>2, <1>12
  <2> QED BY <1>1, <2>6, <2>7, <2>8 DEF AbstractQueue!Hand
<1> QED BY <1>11, <1>12

-----------------------------------------------------------------------------
(* A job is done at once, by an interrupt, or with what was granted.       *)

LEMMA BlockIsInUse ==
    ASSUME NodeInv, NEW q \in Queue, InUse(q)
    PROVE  /\ queueCB[q] \in ControlBlock /\ OnRing(queueCB[q]) /\ queueCB[q].len # 0 /\ Ring(queueCB[q])
           /\ queueCB[q].cnt \in [RW -> Nat] /\ queueCB[q].len \in Nat /\ Used(queueCB[q]) \in Nat
           /\ Used(queueCB[q]) <= queueCB[q].len /\ lost[q] \in [RW -> Nat]
           /\ \A rw \in RW : queueCB[q].cnt[rw] + Cardinality(Due(q, rw)) + lost[q][rw]
                                = Share(queueCB[q], rw)
<1>1. /\ queueCB[q] \in ControlBlock /\ OnRing(queueCB[q]) /\ Balanced(q) /\ lost[q] \in [RW -> Nat]
  BY DEF NodeInv, QueueInv, QueueParts
<1>2. queueCB[q].len # 0
  BY <1>1 DEF OnRing, InUse
<1>3. Ring(queueCB[q]) /\ Used(queueCB[q]) <= queueCB[q].len
  BY <1>1 DEF Balanced, Ring
<1>4. \A rw \in RW : queueCB[q].cnt[rw] + Cardinality(Due(q, rw)) + lost[q][rw] = Share(queueCB[q], rw)
  BY <1>1 DEF Balanced
<1>5. queueCB[q].cnt \in [RW -> Nat] /\ queueCB[q].len \in Nat
  BY <1>1, LengthsAreNat DEF ControlBlock
<1> QED BY <1>1, <1>2, <1>3, <1>4, <1>5, UsedNat

\* Who can be served finds a message, or a place.
LEMMA ThereIsOne ==
    ASSUME NodeInv, NEW q \in Queue, InUse(q), NEW j \in Job,
           queueCB[q].cnt[j.rw] > 0 \/ Due(q, j.rw) # {}
    PROVE  /\ j.rw = "READ" => Used(queueCB[q]) > 0
           /\ j.rw = "WRITE" => Used(queueCB[q]) < queueCB[q].len
<1>1. j.rw \in RW
  BY DEF Job, RW
<1>2. PICK c, d, l, u, n : /\ c = queueCB[q].cnt[j.rw] /\ d = Cardinality(Due(q, j.rw))
                           /\ l = lost[q][j.rw] /\ u = Used(queueCB[q]) /\ n = queueCB[q].len
  OBVIOUS
<1>3. c \in Nat /\ l \in Nat /\ u \in Nat /\ n \in Nat
  BY <1>1, <1>2, BlockIsInUse
<1>4. d \in Nat /\ (Due(q, j.rw) # {} => d # 0)
  <2>1. IsFiniteSet(Due(q, j.rw)) /\ Cardinality(Due(q, j.rw)) \in Nat
    BY DueFinite
  <2>2. Cardinality(Due(q, j.rw)) = 0 <=> Due(q, j.rw) = {}
    BY <2>1, FS_EmptySet
  <2> QED BY <1>2, <2>1, <2>2
<1>5. c + d + l = IF j.rw = "READ" THEN u ELSE n - u
  BY <1>1, <1>2, BlockIsInUse DEF Share
<1>6. c > 0 \/ d # 0
  BY <1>2, <1>4
<1>7. (j.rw = "READ" => u > 0) /\ (j.rw = "WRITE" => u < n)
  BY <1>3, <1>4, <1>5, <1>6
<1> QED BY <1>2, <1>7

LEMMA ContentIsNext == \A q \in Queue : Content(q)' = ContentOf(queueCB'[q])
  BY DEF Content, ContentOf, RingSeq, Filled, Used, Messages

\* The job, on a block cb that differs from that of q by its counts.
LEMMA JobDone ==
    ASSUME NodeInv, NEW q \in Queue, InUse(q), NEW j \in Job,
           queueCB[q].cnt[j.rw] > 0 \/ Due(q, j.rw) # {},
           NEW cb \in ControlBlock, cb.len = queueCB[q].len, cb.head = queueCB[q].head,
           cb.tail = queueCB[q].tail, cb.node = queueCB[q].node, cb.stat = queueCB[q].stat,
           queueCB' = [queueCB EXCEPT ![q] = Operated(q, j, cb)]
    PROVE  /\ AbstractQueue(q)!Do(j) /\ InUse(q)' = InUse(q) /\ queueCB'[q].len = queueCB[q].len
           /\ \A z \in Queue : z # q => queueCB'[z] = queueCB[z]
<1>1. /\ queueCB[q] \in ControlBlock /\ OnRing(queueCB[q]) /\ queueCB[q].len # 0 /\ Ring(queueCB[q])
  BY BlockIsInUse
<1>2. OnRing(cb) /\ cb.len # 0
  BY <1>1 DEF OnRing
<1>3. Used(cb) = Used(queueCB[q]) /\ Ring(cb) /\ ContentOf(cb) = ContentOf(queueCB[q])
  <2>1. Messages(cb) = Messages(queueCB[q])
    BY DEF Messages
  <2>2. Used(cb) = Used(queueCB[q])
    BY <2>1 DEF Used
  <2> QED BY <1>1, <2>1, <2>2 DEF Ring, Depth, Wrap, ContentOf
<1>4. PICK b : b = OsQueueBufferOperate(cb, j)
  OBVIOUS
<1>5. PICK y : y = Operated(q, j, cb)
  OBVIOUS
<1>6. b \in ControlBlock
  BY <1>2, <1>4, BufferKeeps DEF SameButRing
<1>7. y.node = b.node /\ y.head = b.head /\ y.len = b.len
  BY <1>4, <1>5, <1>6 DEF Operated, ControlBlock
<1>8. y.stat = cb.stat /\ y.len = cb.len
  BY <1>2, <1>5, OperatedKeeps
<1>9. Done(j, cb.len, ContentOf(cb), ContentOf(y))
  <2>1. /\ j.rw = "READ" => Used(cb) > 0
        /\ j.rw = "WRITE" => Used(cb) < cb.len
    BY <1>3, ThereIsOne
  <2> QED BY <1>2, <1>3, <1>4, <1>7, <2>1, OperatedContent
<1>10. queueCB'[q] = y /\ \A z \in Queue : z # q => queueCB'[z] = queueCB[z]
  <2>1. queueCB \in [Queue -> ControlBlock]
    BY DEF NodeInv, QueueInv, QueueParts
  <2> QED BY <1>5, <2>1
<1>11. Content(q) = ContentOf(queueCB[q]) /\ Content(q)' = ContentOf(y)
  BY <1>10, ContentIs, ContentIsNext
<1>12. Done(j, queueCB[q].len, Content(q), Content(q)')
  BY <1>3, <1>9, <1>11
<1>13. AbstractQueue(q)!Do(j)
  BY <1>12 DEF AbstractQueue!Do, Done
<1> QED BY <1>8, <1>10, <1>13 DEF InUse

\* Who is granted what by the job.
LEMMA JobHands ==
    ASSUME NodeInv, NodeInv', NEW q \in Queue, NEW j \in Job, NEW T \in SUBSET TCB, NEW W,
           HandedOn(q, j, T, W), FirstWoken(<<q, Other(j.rw)>>, W), \A u \in T : ~AtResult(u)',
           \A u \in T : AtResult(u) => Granted(u) /\ arg[u] = <<q, j.rw>>
    PROVE  \A o \in WaitObj : HandsTo(<<q, j.rw>>, <<q, Other(j.rw)>>, T, o)
<1>1. TaskInv /\ ObjInv /\ TaskInv' /\ ObjInv'
  BY DEF NodeInv, QueueInv
<1>2. j.rw \in RW /\ Other(j.rw) \in RW /\ j.rw # Other(j.rw)
  BY DEF Job, RW, Other
<1>3. PICK a, b \in WaitObj : a = <<q, j.rw>> /\ b = <<q, Other(j.rw)>> /\ a # b
  BY <1>2, ListsAreObjects
<1>4. Granting(T, W)
  <2>1. W \in SUBSET Task /\ T \cap W = {} /\ Grants(T, W)
    BY DEF HandedOn
  <2>2. ASSUME NEW w \in W PROVE AtResult(w)
    <3>1. kernel.pend[b] # <<>> /\ w = Head(kernel.pend[b])
      BY <1>3, <2>2 DEF FirstWoken
    <3>2. kernel.pend[b] \in Seq(Task) /\ \A t : Contains(kernel.pend[b], t) => t \in CallersOn(b)
      BY <1>1, <1>3, CallersSplit DEF Split
    <3>3. Contains(kernel.pend[b], w)
      BY <3>1, <3>2, EmptyList
    <3> QED BY <3>2, <3>3 DEF CallersOn
  <2> QED BY <2>1, <2>2 DEF Granting
<1> QED BY <1>1, <1>3, <1>4, HandsOver

\* The other queues have the callers that they had.
LEMMA JobAside ==
    ASSUME NodeInv, NodeInv', NewJobs, lost' = lost, NEW q \in Queue, NEW z \in Queue, z # q,
           queueCB'[z] = queueCB[z], NEW r \in RW, NEW s \in RW, NEW T,
           \A o \in WaitObj : HandsTo(<<q, r>>, <<q, s>>, T, o)
    PROVE  QueueStepOn(z)
<1>1. ASSUME NEW rw \in RW PROVE SameOn(<<z, rw>>)
  <2>1. PICK o \in WaitObj : o = <<z, rw>> /\ o # <<q, r>> /\ o # <<q, s>>
    BY ListsAreObjects
  <2>2. HandsTo(<<q, r>>, <<q, s>>, T, o)
    OBVIOUS
  <2>3. SameOn(o)
    BY <2>1, <2>2 DEF HandsTo, SameOn
  <2> QED BY <2>1, <2>3
<1>2. SameBlock(z)
  BY DEF SameBlock
<1> QED BY <1>1, <1>2, QueueStutters DEF QueueStepOn

\* What a job of the caller T, who was granted it or needed no grant, does to q.
LEMMA JobMoves ==
    ASSUME NodeInv, NodeInv', NEW q \in Queue, NEW j \in Job, NEW T,
           \A o \in WaitObj : HandsTo(<<q, j.rw>>, <<q, Other(j.rw)>>, T, o), NEW now,
           now = [rw \in RW |-> IF rw = j.rw THEN GrantedOn(<<q, rw>>) \ T ELSE GrantedOn(<<q, rw>>)]
    PROVE  /\ AbstractQueue(q)!Hand(AbstractQueue(q)!Opposite(j.rw), now)
           /\ ExpiredOn(q)' = ExpiredOn(q)
           /\ \A rw \in RW : CallersOn(<<q, rw>>)' = CallersOn(<<q, rw>>) \ T
<1>1. SidesOf(q) /\ SidesOf(q)'
  BY SidesAre, SidesNext
<1>2. PICK r, s \in RW : r = j.rw /\ s = Other(j.rw) /\ r # s
  BY DEF Job, RW, Other
<1>3. AbstractQueue(q)!Opposite(j.rw) = s
  BY <1>2 DEF AbstractQueue!Opposite, Other
<1>4. \A rw \in RW : HandsTo(<<q, r>>, <<q, s>>, T, <<q, rw>>)
  BY <1>2, ListsAreObjects
<1>5. \A rw \in RW : CallersOn(<<q, rw>>)' = CallersOn(<<q, rw>>) \ T
  BY <1>4 DEF HandsTo
<1>6. now = [rw \in RW |-> IF rw = r THEN GrantedOn(<<q, rw>>) \ T ELSE GrantedOn(<<q, rw>>)]
  BY <1>2
<1>7. AbstractQueue(q)!Hand(s, now) /\ ExpiredOn(q)' = ExpiredOn(q)
  BY <1>1, <1>2, <1>4, <1>6, QueueHands
<1> QED BY <1>3, <1>5, <1>7

LEMMA JobAtOnce ==
    ASSUME NodeInv, NodeInv', NewJobs, lost' = lost, NEW q \in Queue, InUse(q), NEW j \in Job,
           queueCB[q].cnt[j.rw] > 0, queueCB' = [queueCB EXCEPT ![q] = Operated(q, j, Counted(q, j.rw))],
           NEW T \in SUBSET TCB, NEW W, HandedOn(q, j, T, W), FirstWoken(<<q, Other(j.rw)>>, W),
           \A u \in T : ~AtResult(u) /\ ~AtResult(u)'
    PROVE  /\ AbstractQueue(q)!AtOnce(j)
           /\ \A z \in Queue : z # q => QueueStepOn(z)
<1>1. SidesOf(q) /\ SidesOf(q)'
  BY SidesAre, SidesNext
<1>2. \A o \in WaitObj : HandsTo(<<q, j.rw>>, <<q, Other(j.rw)>>, T, o)
  BY JobHands
<1>3. j.rw \in RW /\ Other(j.rw) \in RW
  BY DEF Job, RW, Other
<1>4. PICK now : now = GrantedBy(q)
  OBVIOUS
<1>5. \A rw \in RW : /\ GrantedOn(<<q, rw>>) \ T = GrantedOn(<<q, rw>>)
                      /\ CallersOn(<<q, rw>>) \ T = CallersOn(<<q, rw>>)
  BY DEF GrantedOn, CallersOn
<1>6. now = [rw \in RW |-> IF rw = j.rw THEN GrantedOn(<<q, rw>>) \ T ELSE GrantedOn(<<q, rw>>)]
  BY <1>1, <1>4, <1>5 DEF SidesOf
<1>7. /\ AbstractQueue(q)!Hand(AbstractQueue(q)!Opposite(j.rw), now)
      /\ ExpiredOn(q)' = ExpiredOn(q)
      /\ \A rw \in RW : CallersOn(<<q, rw>>)' = CallersOn(<<q, rw>>) \ T
  BY <1>2, <1>6, JobMoves
<1>8. JobsOn(q)' = JobsOn(q)
  BY <1>1, <1>5, <1>7, JobsSame
<1>9. /\ AbstractQueue(q)!Do(j) /\ InUse(q)' = InUse(q) /\ queueCB'[q].len = queueCB[q].len
      /\ \A z \in Queue : z # q => queueCB'[z] = queueCB[z]
  <2>1. PICK cb : cb = Counted(q, j.rw)
    OBVIOUS
  <2>2. /\ queueCB[q] \in ControlBlock /\ queueCB[q].cnt \in [RW -> Nat]
    BY BlockIsInUse
  <2>3. PICK c : c = [queueCB[q].cnt EXCEPT ![j.rw] = @ - 1]
    OBVIOUS
  <2>4. c \in [RW -> Nat]
    BY <1>3, <2>2, <2>3
  <2>5. cb = [queueCB[q] EXCEPT !.cnt = c]
    BY <2>1, <2>2, <2>3 DEF Counted, ControlBlock
  <2>6. /\ cb \in ControlBlock /\ cb.len = queueCB[q].len /\ cb.head = queueCB[q].head
        /\ cb.tail = queueCB[q].tail /\ cb.node = queueCB[q].node /\ cb.stat = queueCB[q].stat
    BY <2>2, <2>4, <2>5 DEF ControlBlock
  <2>7. queueCB' = [queueCB EXCEPT ![q] = Operated(q, j, cb)]
    BY <2>1
  <2> QED BY <2>6, <2>7, JobDone
<1>10. AbstractQueue(q)!Unclaimed(j.rw) > 0
  BY <1>3, UnclaimedIs
<1>11. AbstractQueue(q)!AtOnce(j)
  BY <1>4, <1>7, <1>8, <1>9, <1>10 DEF AbstractQueue!AtOnce
<1>12. ASSUME NEW z \in Queue, z # q PROVE QueueStepOn(z)
  BY <1>2, <1>3, <1>9, <1>12, JobAside
<1> QED BY <1>11, <1>12

\* LOS_QueueRead and LOS_QueueWrite find a node.
LEMMA QueueOperates ==
    ASSUME NodeInv, NodeInv', NEW t \in TCB, NEW q \in Queue, NEW j \in Jobs, QueueOperate(t, q, j)
    PROVE  \A z \in Queue : QueueStepOn(z)
<1>1. j \in Job
  BY QueueAssumption
<1>2. /\ Thread(t) /\ todo[t] = <<>> /\ InUse(q) /\ queueCB[q].cnt[j.rw] > 0
      /\ OperatedCall(t, q, j) /\ lost' = lost /\ job' = job
      /\ queueCB' = [queueCB EXCEPT ![q] = Operated(q, j, Counted(q, j.rw))]
  BY DEF QueueOperate, App
<1>3. TaskInv /\ ObjInv
  BY DEF NodeInv, QueueInv
<1>4. /\ \E W : HandedOn(q, j, {t}, W)
      /\ \A u \in TCB : AtResult(u)' => u # t
  BY <1>1, <1>2, <1>3, HandsOn
<1>5. PICK W : HandedOn(q, j, {t}, W)
  BY <1>4
<1>6. FirstWoken(<<q, Other(j.rw)>>, W)
  BY <1>1, <1>2, <1>3, <1>5, OperatedWakes
<1>7. ~AtResult(t) /\ ~AtResult(t)' /\ NewJobs /\ {t} \in SUBSET TCB
  BY <1>2, <1>4 DEF AtResult, NewJobs
<1>8. AbstractQueue(q)!AtOnce(j) /\ \A z \in Queue : z # q => QueueStepOn(z)
  <2>1. \A u \in {t} : ~AtResult(u) /\ ~AtResult(u)'
    BY <1>7
  <2> QED BY <1>1, <1>2, <1>5, <1>6, <1>7, <2>1, JobAtOnce
<1>9. AbstractQueue(q)!Next
  BY <1>1, <1>8 DEF AbstractQueue!Next
<1> QED BY <1>8, <1>9 DEF QueueStepOn

LEMMA IsrOperates ==
    ASSUME NodeInv, NodeInv', NEW q \in Queue, NEW j \in Jobs, IsrQueueOperate(q, j)
    PROVE  \A z \in Queue : QueueStepOn(z)
<1>1. j \in Job
  BY QueueAssumption
<1>2. /\ InUse(q) /\ queueCB[q].cnt[j.rw] > 0 /\ lost' = lost /\ job' = job
      /\ queueCB' = [queueCB EXCEPT ![q] = Operated(q, j, Counted(q, j.rw))]
  BY DEF IsrQueueOperate
<1>3. TaskInv /\ ObjInv
  BY DEF NodeInv, QueueInv
<1>4. PICK T, W : T = {} /\ HandedOn(q, j, T, W)
  BY <1>1, <1>3, IsrHandsOn
<1>5. FirstWoken(<<q, Other(j.rw)>>, W)
  BY <1>1, <1>3, <1>4, OperatedWakes
<1>6. NewJobs /\ T \in SUBSET TCB /\ \A u \in T : ~AtResult(u) /\ ~AtResult(u)'
  BY <1>2, <1>4 DEF NewJobs
<1>7. AbstractQueue(q)!AtOnce(j) /\ \A z \in Queue : z # q => QueueStepOn(z)
  BY <1>1, <1>2, <1>4, <1>5, <1>6, JobAtOnce
<1>8. AbstractQueue(q)!Next
  BY <1>1, <1>7 DEF AbstractQueue!Next
<1> QED BY <1>7, <1>8 DEF QueueStepOn

\* A task that was granted a node comes back for it.
LEMMA QueueReturns ==
    ASSUME NodeInv, NodeInv', NEW t \in TCB, QueueGranted(t)
    PROVE  \A z \in Queue : QueueStepOn(z)
<1>1. /\ Doing(t, "result") /\ arg[t] \in Queue \X RW /\ ~Has(kernel, t, {"PEND", "TIMEOUT"})
      /\ lost' = lost /\ job' = [job EXCEPT ![t] = NoJob] /\ AtResult(t) /\ t \in Task
  <2>1. Doing(t, "result") /\ TaskInv /\ SafeInv /\ OutcomeInv
    BY DEF QueueGranted, NodeInv, QueueInv, ObjInv
  <2>2. t \in Task => kernel.status[t] \cap Blocking = {}
    BY <2>1, WorkFlags DEF Doing
  <2>3. AtResult(t)
    <3>1. todo[t] \in Rest /\ todo[t] # <<>> /\ Head(todo[t]) = "result"
      BY <2>1 DEF SafeInv, Doing
    <3> QED BY <3>1 DEF Rest, AtResult
  <2>4. t \in Task
    BY <2>1, <2>3 DEF OutcomeInv
  <2> QED BY <2>2, <2>3, <2>4 DEF QueueGranted, Has, Blocking
<1>2. TaskInv /\ ObjInv /\ JobInv /\ job \in [TCB -> Job]
  BY DEF NodeInv, QueueInv, QueueParts
<1>3. PICK q \in Queue, r \in RW : arg[t] = <<q, r>>
  BY <1>1
<1>4. PICK j \in Job : j = job[t] /\ j.rw = r
  BY <1>1, <1>2, <1>3 DEF JobInv
<1>5. Granted(t)
  BY <1>1 DEF Granted, Has
<1>6. OperatedCall(t, q, j) /\ queueCB' = [queueCB EXCEPT ![q] = Operated(q, j, queueCB[q])]
  BY <1>3, <1>4 DEF QueueGranted, GrantedBlock
<1>7. t \in Due(q, r) /\ t \in CallersOn(<<q, r>>) /\ t \in GrantedOn(<<q, r>>)
  BY <1>1, <1>3, <1>5 DEF Due, CallersOn, GrantedOn
<1>8. InUse(q)
  BY <1>7 DEF NodeInv, Unowed
<1>9. /\ \E W : HandedOn(q, j, {t}, W)
      /\ \A u \in TCB : AtResult(u)' => u # t
  <2>1. Thread(t) /\ todo[t] # <<>> /\ Head(todo[t]) = "result" /\ "TIMEOUT" \notin kernel.status[t]
    BY <1>1 DEF Doing, Has
  <2> QED BY <1>2, <1>6, <2>1, HandsOn
<1>10. PICK T, W : T = {t} /\ HandedOn(q, j, T, W)
  BY <1>9
<1>11. FirstWoken(<<q, Other(j.rw)>>, W)
  BY <1>2, <1>6, <1>10, OperatedWakes
<1>12. NewJobs
  BY <1>1, <1>2, <1>9 DEF NewJobs
<1>13. \A o \in WaitObj : HandsTo(<<q, j.rw>>, <<q, Other(j.rw)>>, T, o)
  <2>1. /\ T \in SUBSET TCB /\ \A u \in T : ~AtResult(u)'
        /\ \A u \in T : AtResult(u) => Granted(u) /\ arg[u] = <<q, j.rw>>
    BY <1>3, <1>4, <1>5, <1>9, <1>10
  <2> QED BY <1>10, <1>11, <2>1, JobHands
<1>14. SidesOf(q) /\ SidesOf(q)'
  BY SidesAre, SidesNext
<1>15. PICK now : now = [GrantedBy(q) EXCEPT ![j.rw] = @ \ {t}]
  OBVIOUS
<1>16. now = [rw \in RW |-> IF rw = j.rw THEN GrantedOn(<<q, rw>>) \ T ELSE GrantedOn(<<q, rw>>)]
  <2>1. PICK G : G = GrantedBy(q)
    OBVIOUS
  <2>2. G = [rw \in RW |-> GrantedOn(<<q, rw>>)]
    BY <1>14, <2>1 DEF SidesOf
  <2>3. now = [G EXCEPT ![j.rw] = @ \ T] /\ j.rw \in RW
    BY <1>4, <1>10, <1>15, <2>1
  <2> QED BY <2>2, <2>3
<1>17. /\ AbstractQueue(q)!Hand(AbstractQueue(q)!Opposite(j.rw), now)
       /\ ExpiredOn(q)' = ExpiredOn(q)
       /\ \A rw \in RW : CallersOn(<<q, rw>>)' = CallersOn(<<q, rw>>) \ T
  BY <1>13, <1>16, JobMoves
<1>18. JobsOn(q)' = [JobsOn(q) EXCEPT ![t] = NoJob]
  BY <1>1, <1>10, <1>12, <1>14, <1>17, JobEnds
<1>19. /\ AbstractQueue(q)!Do(j) /\ InUse(q)' = InUse(q) /\ queueCB'[q].len = queueCB[q].len
       /\ \A z \in Queue : z # q => queueCB'[z] = queueCB[z]
  <2>1. PICK cb \in ControlBlock : cb = queueCB[q]
    BY <1>8, BlockIsInUse
  <2> QED BY <1>4, <1>6, <1>7, <1>8, <2>1, JobDone
<1>20. JobsOn(q)[t] = j
  BY <1>1, <1>4, <1>7, <1>14 DEF SidesOf, CalledBy
<1>21. t \in GrantedBy(q)[j.rw]
  BY <1>4, <1>7, <1>14, SidesAreFunctions
<1>22. AbstractQueue(q)!Return(t)
  BY <1>1, <1>15, <1>17, <1>18, <1>19, <1>20, <1>21 DEF AbstractQueue!Return, AbstractQueue!Ends
<1>23. ASSUME NEW z \in Queue, z # q PROVE QueueStepOn(z)
  BY <1>1, <1>4, <1>12, <1>13, <1>19, <1>23, JobAside DEF Job, RW, Other
<1>24. AbstractQueue(q)!Next
  BY <1>1, <1>22 DEF AbstractQueue!Next
<1> QED BY <1>23, <1>24 DEF QueueStepOn

-----------------------------------------------------------------------------
(* The other operations.                                                   *)

\* A queue that a step does not concern.
LEMMA QueueAside ==
    ASSUME NodeInv, NodeInv', NewJobs, lost' = lost, NEW z \in Queue, queueCB'[z] = queueCB[z],
           \A rw \in RW : SameOn(<<z, rw>>)
    PROVE  QueueStepOn(z)
<1>1. SameBlock(z)
  BY DEF SameBlock
<1> QED BY <1>1, QueueStutters DEF QueueStepOn

LEMMA QueueWaits ==
    ASSUME NodeInv, NodeInv', NEW t \in TCB, NEW q \in Queue, NEW j \in Jobs,
           NEW timeout \in QueueTimeout, QueueWait(t, q, j, timeout)
    PROVE  \A z \in Queue : QueueStepOn(z)
<1>1. TaskInv /\ ObjInv /\ QueueInv /\ TaskInv' /\ ObjInv' /\ job \in [TCB -> Job] /\ j \in Job
  BY QueueAssumption DEF NodeInv, QueueInv, QueueParts
<1>2. PICK r \in RW, o \in WaitObj : r = j.rw /\ o = <<q, r>>
  BY <1>1, ListsAreObjects DEF Job, RW
<1>3. /\ Thread(t) /\ t \in Task /\ t = kernel.run /\ todo[t] = <<>> /\ kernel.lock = 0
      /\ Call(t, OsSchedTaskWait(kernel, o, timeout), <<"schedule", "result">>, o)
      /\ queueCB' = queueCB /\ lost' = lost /\ job' = [job EXCEPT ![t] = j]
      /\ InUse(q) /\ queueCB[q].cnt[r] = 0
  BY <1>2 DEF QueueWait, App, Thread
<1>4. AsBefore(kernel) /\ timeout \in (0 .. MaxDelay) \cup {NoTime} /\ WellFormed(kernel)
  BY <1>1, SelfAsBefore, QueueAssumption, InvWellFormed DEF ObjInv
<1>5. Grants({t}, {}) /\ todo'[t] = <<"schedule", "result">> /\ arg'[t] = o
  <2>1. todo[t] \in {<<>>, <<"eventRead">>}
    BY <1>3
  <2> QED BY <1>1, <1>2, <1>3, <1>4, <2>1, WaitGoes
<1>6. kernel'.pend = [kernel.pend EXCEPT ![o] = Append(@, t)]
  <2>1. kernel' = OsSchedTaskWait(kernel, o, timeout) /\ o \in WaitList
    BY <1>2, <1>3 DEF Call, WaitList
  <2> QED BY <1>3, <1>4, <2>1, WaitAppends
<1>7. ~AtResult(t) /\ AtResult(t)'
  BY <1>3, <1>5 DEF AtResult
<1>8. /\ t \notin CallersOn(o) /\ kernel'.pend[o] = Append(kernel.pend[o], t)
      /\ GrantedOn(o)' = GrantedOn(o) /\ LateOn(o)' = LateOn(o)
      /\ \A p \in WaitObj \ {o} : SameOn(p)
  BY <1>1, <1>2, <1>3, <1>5, <1>6, <1>7, WaitsOn
<1>9. NewJobs
  <2>1. \A u \in TCB : u # t => job'[u] = job[u]
    BY <1>1, <1>3
  <2> QED BY <1>7, <2>1 DEF NewJobs
<1>10. SidesOf(q) /\ SidesOf(q)'
  BY SidesAre, SidesNext
<1>11. OthersSame(q, r)
  <2>1. \A z \in RW : <<q, z>> \in WaitObj /\ (z # r => <<q, z>> # o)
    BY <1>2, ListsAreObjects
  <2> QED BY <1>8, <2>1 DEF OthersSame
<1>12. WaitingOn(q)' = [WaitingOn(q) EXCEPT ![r] = Append(@, t)]
  <2>1. WaitingOn(q)' = [WaitingOn(q) EXCEPT ![r] = kernel'.pend[<<q, r>>]]
    BY <1>10, <1>11, SideTurns DEF OthersSame
  <2>2. WaitingOn(q)[r] = kernel.pend[<<q, r>>]
    BY DEF WaitingOn
  <2> QED BY <1>2, <1>8, <2>1, <2>2
<1>13. GrantedBy(q)' = GrantedBy(q) /\ ExpiredOn(q)' = ExpiredOn(q)
  <2>1. \A rw \in RW : /\ GrantedOn(<<q, rw>>)' = GrantedOn(<<q, rw>>)
                       /\ LateOn(<<q, rw>>)' = LateOn(<<q, rw>>)
    BY <1>2, <1>8, <1>11 DEF OthersSame, SameOn
  <2> QED BY <1>10, <2>1, GrantedStays, ExpiredStays
<1>14. JobsOn(q)' = [JobsOn(q) EXCEPT ![t] = j]
  <2>1. CalledBy(q, t)'
    BY <1>2, <1>3, <1>5, <1>7 DEF CalledBy, CallersOn
  <2>2. ASSUME NEW u \in Task, u # t PROVE CalledBy(q, u)' <=> CalledBy(q, u)
    <3>1. u \in TCB /\ todo'[u] = todo[u] /\ arg'[u] = arg[u]
      BY <1>5, <2>2 DEF Grants, TCB
    <3> QED BY <3>1 DEF CalledBy, CallersOn, AtResult
  <2> QED BY <1>1, <1>3, <1>10, <2>1, <2>2, JobBegins
<1>15. t \notin AbstractQueue(q)!calling
  <2>1. \A s \in RW : t \notin CallersOn(<<q, s>>)
    BY <1>7 DEF CallersOn
  <2>2. ASSUME NEW s \in RW
        PROVE  /\ t \notin AbstractQueue(q)!Range(WaitingOn(q)[s])
               /\ t \notin GrantedBy(q)[s] /\ t \notin ExpiredOn(q)[s]
    <3>1. /\ GrantedBy(q)[s] = GrantedOn(<<q, s>>) /\ ExpiredOn(q)[s] = LateOn(<<q, s>>)
          /\ WaitingOn(q)[s] = kernel.pend[<<q, s>>]
      BY <1>10, SidesAreFunctions
    <3>2. /\ ~Contains(kernel.pend[<<q, s>>], t) /\ kernel.pend[<<q, s>>] \in Seq(Task)
      BY <1>10, <2>1 DEF SidesOf, Split
    <3>3. t \notin AbstractQueue(q)!Range(kernel.pend[<<q, s>>])
      BY <3>2 DEF AbstractQueue!Range, Contains
    <3> QED BY <2>1, <3>1, <3>3 DEF GrantedOn, LateOn
  <2>3. AbstractQueue(q)!Side = RW
    BY DEF AbstractQueue!Side, RW
  <2> QED BY <2>2, <2>3 DEF AbstractQueue!calling
<1>16. AbstractQueue(q)!Unclaimed(r) = 0
  BY <1>2, <1>3, UnclaimedIs
<1>17. Content(q)' = Content(q) /\ InUse(q)' = InUse(q)
  BY <1>3, BlockContent
<1>18. AbstractQueue(q)!Wait(t, j)
  BY <1>2, <1>3, <1>12, <1>13, <1>14, <1>15, <1>16, <1>17 DEF AbstractQueue!Wait
<1>19. AbstractQueue(q)!Next
  BY <1>1, <1>3, <1>18 DEF AbstractQueue!Next
<1>20. ASSUME NEW z \in Queue, z # q PROVE QueueStepOn(z)
  <2>1. \A rw \in RW : <<z, rw>> \in WaitObj \ {o}
    BY <1>2, <1>20, ListsAreObjects
  <2>2. \A rw \in RW : SameOn(<<z, rw>>)
    BY <1>8, <2>1
  <2> QED BY <1>3, <1>9, <2>2, QueueAside
<1> QED BY <1>19, <1>20 DEF QueueStepOn

LEMMA QueueTimesOut ==
    ASSUME NodeInv, NodeInv', NEW t \in TCB, QueueTimedOut(t)
    PROVE  \A z \in Queue : QueueStepOn(z)
<1>1. /\ TaskInv /\ ObjInv /\ SafeInv /\ OutcomeInv /\ TaskInv' /\ ObjInv' /\ job \in [TCB -> Job]
  BY DEF NodeInv, QueueInv, QueueParts, ObjInv
<1>2. /\ Doing(t, "result") /\ Has(kernel, t, {"TIMEOUT"}) /\ arg[t] \in Queue \X RW
      /\ Call(t, [kernel EXCEPT !.status[t] = @ \ {"TIMEOUT"}], <<>>, NoArg)
      /\ queueCB' = queueCB /\ lost' = lost /\ job' = [job EXCEPT ![t] = NoJob]
  BY DEF QueueTimedOut
<1>3. Grants({t}, {}) /\ todo'[t] = <<>>
  <2>1. <<>> \in Plain
    BY DEF Plain
  <2> QED BY <1>1, <1>2, <2>1, TimeoutGoes
<1>4. AtResult(t) /\ t \in Task /\ "PEND" \notin kernel.status[t] /\ "TIMEOUT" \in kernel.status[t]
  <2>1. AtResult(t)
    <3>1. todo[t] \in Rest /\ todo[t] # <<>> /\ Head(todo[t]) = "result"
      BY <1>1, <1>2 DEF SafeInv, Doing
    <3> QED BY <3>1 DEF Rest, AtResult
  <2>2. t \in Task
    BY <1>1, <2>1 DEF OutcomeInv
  <2>3. kernel.status[t] \cap Blocking = {}
    BY <1>1, <1>2, <2>2, WorkFlags DEF Doing
  <2> QED BY <1>2, <2>1, <2>2, <2>3 DEF Blocking, Has
<1>5. kernel'.pend = kernel.pend /\ ~AtResult(t)'
  <2>1. kernel' = [kernel EXCEPT !.status[t] = @ \ {"TIMEOUT"}] /\ WellFormed(kernel)
    BY <1>1, <1>2, InvWellFormed DEF Call
  <2> QED BY <1>3, <2>1 DEF WellFormed, SchedState, AtResult
<1>6. PICK q \in Queue, r \in RW, o \in WaitObj : arg[t] = <<q, r>> /\ o = <<q, r>>
  BY <1>2, ListsAreObjects
<1>7. \A p \in WaitObj : p # o => SameOn(p)
  <2>1. \A p \in WaitObj : p # o => t \notin CallersOn(p)
    BY <1>6 DEF CallersOn
  <2> QED BY <1>1, <1>3, <1>4, <1>5, <2>1, ReturnsOn
<1>8. /\ t \in LateOn(o) /\ kernel'.pend[o] = kernel.pend[o]
      /\ GrantedOn(o)' = GrantedOn(o) /\ LateOn(o)' = LateOn(o) \ {t}
  <2>1. t \in CallersOn(o) /\ t \in LateOn(o) /\ t \notin GrantedOn(o)
    BY <1>4, <1>6 DEF CallersOn, LateOn, GrantedOn, Granted
  <2>2. /\ kernel'.pend[o] = kernel.pend[o]
        /\ GrantedOn(o)' = GrantedOn(o) \ {t} /\ LateOn(o)' = LateOn(o) \ {t}
    BY <1>1, <1>3, <1>4, <1>5, <2>1, ReturnsOn
  <2> QED BY <2>1, <2>2
<1>9. NewJobs
  <2>1. \A u \in TCB : u # t => job'[u] = job[u]
    BY <1>1, <1>2
  <2> QED BY <1>5, <2>1 DEF NewJobs
<1>10. SidesOf(q) /\ SidesOf(q)'
  BY SidesAre, SidesNext
<1>11. OthersSame(q, r)
  <2>1. \A z \in RW : <<q, z>> \in WaitObj /\ (z # r => <<q, z>> # o)
    BY <1>6, ListsAreObjects
  <2> QED BY <1>7, <2>1 DEF OthersSame
<1>12. WaitingOn(q)' = WaitingOn(q) /\ GrantedBy(q)' = GrantedBy(q)
  <2>1. \A rw \in RW : /\ GrantedOn(<<q, rw>>)' = GrantedOn(<<q, rw>>)
                       /\ kernel'.pend[<<q, rw>>] = kernel.pend[<<q, rw>>]
    BY <1>6, <1>8, <1>11 DEF OthersSame, SameOn
  <2> QED BY <1>10, <2>1, GrantedStays, WaitingStays
<1>13. ExpiredOn(q)' = [ExpiredOn(q) EXCEPT ![r] = @ \ {t}] /\ t \in ExpiredOn(q)[r]
  <2>1. ExpiredOn(q)' = [ExpiredOn(q) EXCEPT ![r] = LateOn(<<q, r>>)']
    BY <1>10, <1>11, SideTurns DEF OthersSame
  <2>2. ExpiredOn(q)[r] = LateOn(<<q, r>>)
    BY <1>10, SidesAreFunctions
  <2> QED BY <1>6, <1>8, <2>1, <2>2
<1>14. JobsOn(q)' = [JobsOn(q) EXCEPT ![t] = NoJob]
  <2>1. ASSUME NEW rw \in RW PROVE CallersOn(<<q, rw>>)' = CallersOn(<<q, rw>>) \ {t}
    <3>1. ASSUME NEW u \in Task, u # t PROVE u \in CallersOn(<<q, rw>>)' <=> u \in CallersOn(<<q, rw>>)
      <4>1. u \in TCB /\ todo'[u] = todo[u] /\ arg'[u] = arg[u]
        BY <1>3, <3>1 DEF Grants, TCB
      <4> QED BY <4>1 DEF CallersOn, AtResult
    <3>2. t \notin CallersOn(<<q, rw>>)'
      BY <1>5 DEF CallersOn
    <3>3. CallersOn(<<q, rw>>) \subseteq Task /\ CallersOn(<<q, rw>>)' \subseteq Task
      BY DEF CallersOn
    <3> QED BY <3>1, <3>2, <3>3
  <2> QED BY <1>4, <1>9, <1>10, <2>1, JobEnds
<1>15. Content(q)' = Content(q) /\ InUse(q)' = InUse(q)
  BY <1>2, BlockContent
<1>16. AbstractQueue(q)!GiveUp(r, t)
  BY <1>2, <1>12, <1>13, <1>14, <1>15 DEF AbstractQueue!GiveUp, AbstractQueue!Ends
<1>17. AbstractQueue(q)!Next
  <2>1. r \in AbstractQueue(q)!Side
    BY DEF AbstractQueue!Side, RW
  <2> QED BY <1>4, <1>16, <2>1 DEF AbstractQueue!Next
<1>18. ASSUME NEW z \in Queue, z # q PROVE QueueStepOn(z)
  <2>1. \A rw \in RW : <<z, rw>> \in WaitObj /\ <<z, rw>> # o
    BY <1>6, <1>18, ListsAreObjects
  <2>2. \A rw \in RW : SameOn(<<z, rw>>)
    BY <1>7, <2>1
  <2> QED BY <1>2, <1>9, <2>2, QueueAside
<1> QED BY <1>17, <1>18 DEF QueueStepOn

LEMMA NoContent ==
    ASSUME NEW cb, cb.node = [i \in Node |-> NoMsg]
    PROVE  ContentOf(cb) = <<>>
<1>1. Messages(cb) = {}
  BY DEF Messages
<1>2. Used(cb) = 0
  BY <1>1, FS_EmptySet DEF Used
<1>3. 1 .. 0 = {}
  OBVIOUS
<1> QED BY <1>2, <1>3 DEF ContentOf, RingSeq

LEMMA QueueOpens ==
    ASSUME NodeInv, NodeInv', NEW t \in TCB, NEW len \in QueueLen, OsQueueCreate(t, len)
    PROVE  \A z \in Queue : QueueStepOn(z)
<1>1. PICK q : q = Head(freeQueue)
  OBVIOUS
<1>2. PICK cb : cb = [stat |-> "INUSE", len |-> len, cnt |-> [READ |-> 0, WRITE |-> len],
                      head |-> 0, tail |-> 0, node |-> [i \in Node |-> NoMsg]]
  OBVIOUS
<1>3. /\ UNCHANGED taskVars /\ job' = job /\ freeQueue # <<>>
      /\ queueCB' = [queueCB EXCEPT ![q] = cb] /\ lost' = [lost EXCEPT ![q] = NoCount]
  BY <1>1, <1>2 DEF OsQueueCreate
<1>4. q \in Queue /\ ~InUse(q)
  <2>1. freeQueue \in Seq(Queue) /\ freeQueue # <<>> /\ IsInjective(freeQueue)
    BY <1>3 DEF NodeInv, QueueInv, QueueParts, FreeQueues
  <2>2. q \in Queue /\ Contains(freeQueue, q)
    BY <1>1, <2>1, TakeFirst
  <2> QED BY <2>2 DEF NodeInv, QueueInv, FreeQueues
<1>5. lost \in [Queue -> [RW -> Nat]] /\ queueCB \in [Queue -> ControlBlock]
  BY DEF NodeInv, QueueInv, QueueParts
<1>6. NewJobs
  BY <1>3 DEF NewJobs
<1>7. ASSUME NEW z \in Queue PROVE \A rw \in RW : SameOn(<<z, rw>>)
  BY <1>3, CallersStay
<1>8. AbstractQueue(q)!Open(len)
  <2>1. UNCHANGED <<WaitingOn(q), GrantedBy(q), ExpiredOn(q), JobsOn(q)>>
    BY <1>4, <1>6, <1>7, SidesAre, SidesNext, SidesStay
  <2>2. queueCB'[q] = cb /\ lost'[q] = NoCount
    BY <1>3, <1>4, <1>5
  <2>3. InUse(q)' /\ queueCB'[q].len = len
    BY <1>2, <2>2 DEF InUse
  <2>4. Content(q)' = <<>>
    <3>1. ContentOf(cb) = <<>>
      BY <1>2, NoContent
    <3> QED BY <1>4, <2>2, <3>1, ContentIsNext
  <2>5. lost'[q] = [s \in AbstractQueue(q)!Side |-> 0]
    BY <2>2 DEF NoCount, RW, AbstractQueue!Side
  <2> QED BY <1>4, <2>1, <2>3, <2>4, <2>5 DEF AbstractQueue!Open
<1>9. AbstractQueue(q)!Next
  BY <1>8 DEF AbstractQueue!Next
<1>10. ASSUME NEW z \in Queue, z # q PROVE QueueStepOn(z)
  <2>1. SameBlock(z)
    BY <1>3, <1>5, <1>10 DEF SameBlock
  <2> QED BY <1>6, <1>7, <2>1, QueueStutters DEF QueueStepOn
<1> QED BY <1>9, <1>10 DEF QueueStepOn

LEMMA QueueCloses ==
    ASSUME NodeInv, NodeInv', NEW t \in TCB, NEW q \in Queue, QueueDelete(t, q)
    PROVE  \A z \in Queue : QueueStepOn(z)
<1>1. PICK none : none = [i \in Node |-> NoMsg]
  OBVIOUS
<1>2. /\ UNCHANGED taskVars /\ job' = job /\ lost' = lost /\ InUse(q)
      /\ queueCB' = [queueCB EXCEPT ![q].stat = "UNUSED", ![q].node = none]
      /\ queueCB[q].cnt["READ"] + queueCB[q].cnt["WRITE"] = queueCB[q].len
      /\ \A rw \in RW : kernel.pend[<<q, rw>>] = <<>>
  BY <1>1 DEF QueueDelete, QueueDeletable, RW
<1>3. queueCB \in [Queue -> ControlBlock] /\ queueCB[q] \in ControlBlock /\ lost[q] \in [RW -> Nat]
  BY DEF NodeInv, QueueInv, QueueParts
<1>4. NewJobs
  BY <1>2 DEF NewJobs
<1>5. ASSUME NEW z \in Queue PROVE \A rw \in RW : SameOn(<<z, rw>>)
  BY <1>2, CallersStay
<1>6. \A rw \in RW : Due(q, rw) = {} /\ lost[q][rw] = 0
  <2>1. PICK cr, cw, dr, dw, lr, lw, u, n :
           /\ cr = queueCB[q].cnt["READ"] /\ cw = queueCB[q].cnt["WRITE"]
           /\ dr = Cardinality(Due(q, "READ")) /\ dw = Cardinality(Due(q, "WRITE"))
           /\ lr = lost[q]["READ"] /\ lw = lost[q]["WRITE"]
           /\ u = Used(queueCB[q]) /\ n = queueCB[q].len
    OBVIOUS
  <2>2. "READ" \in RW /\ "WRITE" \in RW
    BY DEF RW
  <2>3. cr + dr + lr = u /\ cw + dw + lw = n - u
    BY <1>2, <2>1, <2>2, BlockIsInUse DEF Share
  <2>4. cr \in Nat /\ cw \in Nat /\ lr \in Nat /\ lw \in Nat /\ u \in Nat /\ n \in Nat
    BY <1>2, <2>1, <2>2, BlockIsInUse
  <2>5. dr \in Nat /\ dw \in Nat
    BY <2>1, DueFinite
  <2>6. cr + cw = n
    BY <1>2, <2>1
  <2>7. dr = 0 /\ dw = 0 /\ lr = 0 /\ lw = 0
    BY <2>3, <2>4, <2>5, <2>6
  <2>8. IsFiniteSet(Due(q, "READ")) /\ IsFiniteSet(Due(q, "WRITE"))
    BY DueFinite
  <2>9. Due(q, "READ") = {} /\ Due(q, "WRITE") = {}
    BY <2>1, <2>7, <2>8, FS_EmptySet
  <2> QED BY <2>1, <2>7, <2>9 DEF RW
<1>7. AbstractQueue(q)!Close
  <2>1. UNCHANGED <<WaitingOn(q), GrantedBy(q), ExpiredOn(q), JobsOn(q)>>
    BY <1>4, <1>5, SidesAre, SidesNext, SidesStay
  <2>2. ASSUME NEW s \in RW PROVE WaitingOn(q)[s] = <<>> /\ GrantedBy(q)[s] = {} /\ lost[q][s] = 0
    <3>1. WaitingOn(q)[s] = kernel.pend[<<q, s>>] /\ GrantedBy(q)[s] = GrantedOn(<<q, s>>)
      BY SidesAre, SidesAreFunctions
    <3>2. GrantedOn(<<q, s>>) = Due(q, s)
      BY DEF GrantedOn, CallersOn, Due, Granted
    <3> QED BY <1>2, <1>6, <3>1, <3>2
  <2>3. AbstractQueue(q)!Side = RW
    BY DEF AbstractQueue!Side, RW
  <2>4. PICK cb : cb = queueCB'[q]
    OBVIOUS
  <2>5. cb.stat = "UNUSED" /\ cb.node = none /\ cb.len = queueCB[q].len
    BY <1>2, <1>3, <2>4 DEF ControlBlock
  <2>6. ~InUse(q)' /\ queueCB'[q].len = queueCB[q].len
    BY <2>4, <2>5 DEF InUse
  <2>7. Content(q)' = <<>>
    <3>1. ContentOf(cb) = <<>>
      BY <1>1, <2>5, NoContent
    <3> QED BY <2>4, <3>1, ContentIsNext
  <2> QED BY <1>2, <2>1, <2>2, <2>3, <2>6, <2>7 DEF AbstractQueue!Close
<1>8. AbstractQueue(q)!Next
  BY <1>7 DEF AbstractQueue!Next
<1>9. ASSUME NEW z \in Queue, z # q PROVE QueueStepOn(z)
  <2>1. queueCB'[z] = queueCB[z]
    BY <1>2, <1>3, <1>9
  <2> QED BY <1>2, <1>4, <1>5, <2>1, QueueAside
<1> QED BY <1>8, <1>9 DEF QueueStepOn

-----------------------------------------------------------------------------

(* The refinement.                                                         *)

LEMMA EachQueueSimulates ==
    ASSUME Unprotected = {}, NodeInv, NodeInv', [QueueNext]_allQueueVars
    PROVE  \A z \in Queue : QueueStepOn(z)
<1>1. CASE TaskStepOfQueues
  BY <1>1, QueueTaskStep
<1>2. ASSUME NEW t \in TCB, QueueStep(t) PROVE \A z \in Queue : QueueStepOn(z)
  BY <1>2, QueueOpens, QueueTimesOut, QueueReturns, QueueCloses, QueueOperates, QueueWaits DEF QueueStep
<1>3. CASE IsrQueueStep
  BY <1>3, IsrOperates DEF IsrQueueStep
<1>4. CASE UNCHANGED allQueueVars
  <2>1. UNCHANGED taskVars /\ UNCHANGED <<queueCB, freeQueue, job, lost>>
    BY <1>4 DEF allQueueVars, taskVars
  <2>2. NewJobs /\ \A o : SameOn(o)
    BY <2>1, CallersStay DEF NewJobs
  <2> QED BY <2>1, <2>2, QueueAside
<1> QED BY <1>1, <1>2, <1>3, <1>4 DEF QueueNext

LEMMA EachQueueBegins ==
    ASSUME QueueInit, NEW q \in Queue
    PROVE  AbstractQueue(q)!Init
<1>1. NodeInv /\ Init
  BY NodeInit DEF QueueInit
<1>2. PICK cb : cb = queueCB[q]
  OBVIOUS
<1>3. cb.stat = "UNUSED" /\ cb.len = 0 /\ cb.node = [i \in Node |-> NoMsg] /\ lost[q] = NoCount
  BY <1>2 DEF QueueInit
<1>4. ~InUse(q) /\ queueCB[q].len = 0
  BY <1>2, <1>3 DEF InUse
<1>5. Content(q) = <<>>
  BY <1>2, <1>3, NoContent, ContentIs
<1>6. SidesOf(q)
  BY <1>1, SidesAre
<1>7. \A rw \in RW : CallersOn(<<q, rw>>) = {}
  BY <1>1 DEF Init, CallersOn, AtResult, TCB
<1>8. \A rw \in RW : GrantedOn(<<q, rw>>) = {} /\ LateOn(<<q, rw>>) = {} /\ kernel.pend[<<q, rw>>] = <<>>
  <2>1. ASSUME NEW rw \in RW PROVE kernel.pend[<<q, rw>>] = <<>>
    <3>1. PICK p : p = kernel.pend[<<q, rw>>] /\ p \in Seq(Task) /\ \A u : ~Contains(p, u)
      BY <1>6, <1>7 DEF SidesOf, Split
    <3>2. p # <<>> => Contains(p, Head(p))
      BY <3>1, EmptyList
    <3> QED BY <3>1, <3>2
  <2> QED BY <1>7, <2>1 DEF GrantedOn, LateOn
<1>9. AbstractQueue(q)!Side = RW
  BY DEF AbstractQueue!Side, RW
<1>10. WaitingOn(q) = [s \in RW |-> <<>>]
  BY <1>8 DEF WaitingOn
<1>11. GrantedBy(q) = [s \in RW |-> {}] /\ ExpiredOn(q) = [s \in RW |-> {}]
  BY <1>6, <1>8 DEF SidesOf
<1>12. JobsOn(q) = [c \in Task |-> NoJob]
  BY <1>6, <1>7 DEF SidesOf, CalledBy
<1> QED BY <1>3, <1>4, <1>5, <1>9, <1>10, <1>11, <1>12 DEF AbstractQueue!Init, NoCount

\* Every step of the system is for each queue a step of the abstract queue or none:
\* messages come out in the order of the queue, each once, and a woken caller finds
\* what it was woken for, whoever times out or is deleted in the meantime.
THEOREM EveryQueueIsOne ==
    ASSUME Unprotected = {}
    PROVE  QueueSpec => EachIsAQueue
<1>1. QueueInit => NodeInv /\ \A q \in Queue : AbstractQueue(q)!Init
  BY NodeInit, EachQueueBegins
<1>2. NodeInv /\ [QueueNext]_allQueueVars => NodeInv'
  BY NodeNext
<1>3. NodeInv /\ NodeInv' /\ [QueueNext]_allQueueVars
         => [\A q \in Queue : UNCHANGED AbstractQueue(q)!queue \/ AbstractQueue(q)!Next]_allQueueVars
  BY EachQueueSimulates DEF QueueStepOn
<1> QED BY <1>1, <1>2, <1>3, PTL DEF QueueSpec, EachIsAQueue

-----------------------------------------------------------------------------
(* Mails.  A block is in one place: in the pool, with the application, in  *)
(* the msg of a task that was woken for it, or lost with such a task.      *)

InOnePlace(b) ==
    /\ Contains(pool, b) \/ b \in out \cup gone \cup InHand
    /\ Contains(pool, b) => b \notin out \cup gone \cup InHand
    /\ b \in out => b \notin gone \cup InHand
    /\ b \in gone => b \notin InHand

BlockInv ==
    /\ pool \in Seq(Block) /\ IsInjective(pool)
    /\ msg \in [TCB -> Block \cup {NoBlock}]
    /\ out \subseteq Block /\ gone \subseteq Block
    /\ \A b \in Block : InOnePlace(b)
    /\ \A t, u \in TCB : msg[t] = msg[u] /\ msg[t] # NoBlock => t = u

\* A task that was woken from memList.
ForBlock(t) == Granted(t) /\ arg[t] = memList

\* Whoever was woken for a block, and nobody else, has one.
HandInv == \A t \in TCB : msg[t] # NoBlock <=> ForBlock(t)

NoWaitWithBlocks == MailWaiters # <<>> => pool = <<>>

MailInv == NodeInv /\ BlockInv /\ HandInv /\ NoWaitWithBlocks

LEMMA MemListIsObject ==
    /\ memList \in WaitObj /\ memList \in WaitList /\ memList \notin Queue \X RW
    /\ memList # NoArg /\ NoBlock \notin Block /\ MailQueue \in Queue
    /\ \A q, rw : rw \in RW => memList # <<q, rw>>
<1>1. "MEM" \in List /\ "MEM" \notin RW
  BY DEF List, RW
<1>2. MailQueue \in Queue /\ memList # NoArg /\ NoBlock \notin Block
  BY MailAssumption DEF memList
<1>3. memList \in WaitObj
  BY <1>1, <1>2, ListsAreObjects DEF memList
<1> QED BY <1>1, <1>2, <1>3 DEF memList, WaitList

LEMMA InHandIs == \A b \in Block : b \in InHand <=> \E t \in TCB : msg[t] = b
  BY MemListIsObject DEF InHand

(* Where a block goes. *)

LEMMA BlockTaken ==
    ASSUME BlockInv, MemboxAlloc, UNCHANGED <<msg, gone>>
    PROVE  BlockInv'
<1>1. PICK b : b = Head(pool)
  OBVIOUS
<1>2. /\ pool # <<>> /\ pool' = Tail(pool) /\ out' = out \cup {b} /\ InHand' = InHand
      /\ pool \in Seq(Block) /\ IsInjective(pool)
  BY <1>1 DEF MemboxAlloc, BlockInv, InHand
<1>3. /\ b \in Block /\ Contains(pool, b) /\ pool' \in Seq(Block) /\ IsInjective(pool')
      /\ ~Contains(pool', b)
      /\ \A z \in Block \ {b} : Contains(pool', z) <=> Contains(pool, z)
  BY <1>1, <1>2, TakeFirst
<1>4. ASSUME NEW z \in Block PROVE InOnePlace(z)'
  <2>1. InOnePlace(z) /\ InOnePlace(b)
    BY <1>3 DEF BlockInv
  <2> QED BY <1>2, <1>3, <2>1 DEF InOnePlace
<1> QED BY <1>2, <1>3, <1>4 DEF BlockInv

LEMMA BlockFreed ==
    ASSUME BlockInv, NEW b \in out, MemboxFree(b), out' = out \ {b}, UNCHANGED <<msg, gone>>
    PROVE  BlockInv'
<1>1. /\ b \in Block /\ InOnePlace(b) /\ pool \in Seq(Block) /\ IsInjective(pool)
      /\ pool' = <<b>> \o pool /\ InHand' = InHand
  BY DEF BlockInv, MemboxFree, InHand
<1>2. ~Contains(pool, b)
  BY <1>1 DEF InOnePlace
<1>3. /\ pool' \in Seq(Block) /\ IsInjective(pool') /\ Contains(pool', b)
      /\ \A z \in Block \ {b} : Contains(pool', z) <=> Contains(pool, z)
  BY <1>1, <1>2, PutFirst
<1>4. ASSUME NEW z \in Block PROVE InOnePlace(z)'
  <2>1. InOnePlace(z)
    BY DEF BlockInv
  <2> QED BY <1>1, <1>3, <2>1 DEF InOnePlace
<1> QED BY <1>3, <1>4 DEF BlockInv

LEMMA BlockHanded ==
    ASSUME BlockInv, NEW b \in out, NEW w \in TCB, msg[w] = NoBlock,
           msg' = [msg EXCEPT ![w] = b], out' = out \ {b}, UNCHANGED <<pool, gone>>
    PROVE  BlockInv'
<1>1. /\ b \in Block /\ InOnePlace(b) /\ msg \in [TCB -> Block \cup {NoBlock}] /\ b # NoBlock
  BY MemListIsObject DEF BlockInv
<1>2. /\ msg' \in [TCB -> Block \cup {NoBlock}] /\ msg'[w] = b
      /\ \A t \in TCB : t # w => msg'[t] = msg[t]
  BY <1>1
<1>3. \A t \in TCB : msg[t] # b
  BY <1>1, InHandIs DEF InOnePlace
<1>4. \A z \in Block : z \in InHand' <=> z \in InHand \/ z = b
  <2>1. \A z \in Block : z \in InHand' <=> \E t \in TCB : msg'[t] = z
    BY MemListIsObject DEF InHand
  <2>2. \A z \in Block : msg[w] # z
    BY MemListIsObject
  <2> QED BY <1>2, <2>1, <2>2, InHandIs
<1>5. ASSUME NEW z \in Block PROVE InOnePlace(z)'
  <2>1. InOnePlace(z) /\ (Contains(pool', z) <=> Contains(pool, z))
    BY DEF BlockInv
  <2> QED BY <1>1, <1>4, <2>1 DEF InOnePlace
<1>6. \A t, u \in TCB : msg'[t] = msg'[u] /\ msg'[t] # NoBlock => t = u
  BY <1>2, <1>3 DEF BlockInv
<1> QED BY <1>2, <1>5, <1>6 DEF BlockInv

\* Blocks leave the hands of the tasks of T: for the application or for good.
LEMMA BlocksLeave ==
    ASSUME BlockInv, NEW T \in SUBSET TCB, NEW S, S = {msg[t] : t \in T} \ {NoBlock},
           msg' = [t \in TCB |-> IF t \in T THEN NoBlock ELSE msg[t]], pool' = pool,
           \/ out' = out \cup S /\ gone' = gone
           \/ gone' = gone \cup S /\ out' = out
    PROVE  BlockInv'
<1>1. msg \in [TCB -> Block \cup {NoBlock}] /\ S \subseteq Block
  BY DEF BlockInv
<1>2. msg' \in [TCB -> Block \cup {NoBlock}]
  BY <1>1
<1>3. \A z \in Block : z \in S <=> \E t \in T : msg[t] = z
  BY MemListIsObject
<1>4. \A z \in Block : z \in InHand' <=> \E t \in TCB \ T : msg[t] = z
  BY MemListIsObject DEF InHand
<1>5. \A z \in Block : /\ z \in InHand <=> z \in InHand' \/ z \in S
                       /\ z \in S => z \notin InHand'
  <2>1. ASSUME NEW z \in Block, NEW t \in T, NEW u \in TCB \ T, msg[t] = z, msg[u] = z
        PROVE  FALSE
    BY <2>1, MemListIsObject DEF BlockInv
  <2> QED BY <1>3, <1>4, <2>1, InHandIs
<1>6. ASSUME NEW z \in Block PROVE InOnePlace(z)'
  <2>1. InOnePlace(z) /\ (Contains(pool', z) <=> Contains(pool, z))
    BY DEF BlockInv
  <2> QED BY <1>5, <2>1 DEF InOnePlace
<1>7. \A t, u \in TCB : msg'[t] = msg'[u] /\ msg'[t] # NoBlock => t = u
  BY DEF BlockInv
<1>8. out' \subseteq Block /\ gone' \subseteq Block /\ pool' \in Seq(Block) /\ IsInjective(pool')
  BY <1>1 DEF BlockInv
<1> QED BY <1>2, <1>6, <1>7, <1>8 DEF BlockInv

(* The steps of the mails. *)

\* After a step that ends the calls of T and wakes W.
LEMMA ForBlockAfter ==
    ASSUME NEW T, NEW W \in SUBSET Task, T \cap W = {}, Grants(T, W)
    PROVE  \A t \in TCB : ForBlock(t)' <=> (ForBlock(t) /\ t \notin T) \/ (t \in W /\ arg[t] = memList)
<1> SUFFICES ASSUME NEW t \in TCB
             PROVE  ForBlock(t)' <=> (ForBlock(t) /\ t \notin T) \/ (t \in W /\ arg[t] = memList)
  OBVIOUS
<1>1. /\ Granted(t)' <=> (Granted(t) /\ t \notin T) \/ t \in W
      /\ t \notin T => arg'[t] = arg[t]
  BY DEF Grants
<1>2. memList' = memList
  BY DEF memList
<1> QED BY <1>1, <1>2 DEF ForBlock

\* No reader or writer is concerned.
LEMMA NodesStay ==
    ASSUME NodeInv, QueueInv', ObjInv', UNCHANGED queueVars,
           NEW T, NEW W \in SUBSET Task, T \cap W = {}, Grants(T, W),
           \A t \in T : Granted(t) => arg[t] = memList,
           \A t \in T : AtResult(t)' => arg'[t] = memList,
           \A w \in W : arg[w] = memList
    PROVE  NodeInv'
<1>1. queueCB' = queueCB /\ lost' = lost /\ job' = job
  BY DEF queueVars
<1>2. ASSUME NEW u \in TCB, AtResult(u)', arg'[u] \in Queue \X RW PROVE job'[u].rw = arg'[u][2]
  <2>1. u \notin T
    BY <1>2, MemListIsObject
  <2>2. todo'[u] = todo[u] /\ arg'[u] = arg[u]
    BY <2>1 DEF Grants
  <2> QED BY <1>1, <1>2, <2>2 DEF NodeInv, JobInv, AtResult
<1>3. JobInv'
  BY <1>2 DEF JobInv
<1>4. ASSUME NEW q \in Queue, NEW rw \in RW PROVE Due(q, rw)' = Due(q, rw)
  <2>1. Due(q, rw)' = (Due(q, rw) \ T) \cup {w \in W : arg[w] = <<q, rw>>}
    BY DueAfter
  <2>2. memList # <<q, rw>>
    BY MemListIsObject
  <2>3. {w \in W : arg[w] = <<q, rw>>} = {}
    BY <2>2
  <2>4. Due(q, rw) \ T = Due(q, rw)
    BY <2>2 DEF Due
  <2> QED BY <2>1, <2>3, <2>4
<1> QED BY <1>1, <1>3, <1>4, QuietNodes

\* A block is there: it is taken.
LEMMA MailTaken ==
    ASSUME Unprotected = {}, MailInv, MemboxAlloc, UNCHANGED <<allQueueVars, msg, gone>>
    PROVE  MailInv'
<1>1. BlockInv'
  BY BlockTaken DEF MailInv
<1>2. NodeInv'
  BY NodeNext DEF MailInv
<1>3. HandInv'
  BY DEF MailInv, HandInv, ForBlock, Granted, AtResult, memList, allQueueVars
<1>4. MailWaiters' = <<>>
  BY DEF MailInv, NoWaitWithBlocks, MemboxAlloc, MailWaiters, memList, allQueueVars
<1> QED BY <1>1, <1>2, <1>3, <1>4 DEF MailInv, NoWaitWithBlocks

\* The pool is empty: the caller waits, on a queue in use.
LEMMA MailWaitQueue ==
    ASSUME QueueInv, NEW t \in TCB, NEW timeout \in QueueTimeout, MailWait(t, timeout)
    PROVE  QueueInv'
<1> DEFINE k == OsSchedTaskWait(kernel, memList, timeout)
           steps == <<"schedule", "result">>
<1>1. /\ kernel' = k /\ queueCB' = queueCB /\ freeQueue' = freeQueue /\ job' = job
      /\ todo' = [todo EXCEPT ![t] = steps]
      /\ arg' = [arg EXCEPT ![t] = IF steps = <<>> THEN NoArg ELSE memList]
      /\ handles' = handles /\ InUse(MailQueue)
  BY DEF MailWait, Call, queueVars
<1>2. /\ kernel.run \in Task /\ memList \in WaitList /\ timeout \in (0 .. MaxDelay) \cup {NoTime}
  BY MemListIsObject, QueueAssumption DEF MailWait, App, Thread
<1>3. WellFormed(k) /\ \A z \in WaitList \ {memList} : k.pend[z] = kernel.pend[z]
  BY <1>2, InvWellFormed, TaskWaitKeeps DEF QueueInv
<1> HIDE DEF k
<1>4. steps \in Seq(Step) /\ ~ObjectIsTask(steps) /\ steps # <<>>
  BY DEF Step, ObjectIsTask
<1> HIDE DEF steps
<1>5. TaskInv'
  <2>1. TaskInv /\ WellFormed(kernel') /\ memList \in WaitList \cup {NoArg}
    BY <1>1, <1>2, <1>3 DEF QueueInv
  <2>2. handles' \subseteq Task
    BY <1>1, <2>1 DEF TaskInv, TaskTypeOK
  <2> QED BY <1>1, <1>4, <2>1, <2>2, CallStep
<1>6. QueueParts'
  <2>1. \A u \in TCB : arg'[u] = arg[u] \/ arg'[u] \notin Queue \X RW
    BY <1>1, <1>4, MemListIsObject DEF QueueInv, TaskInv, TaskTypeOK
  <2>2. ASSUME NEW u \in TCB, arg'[u] \in Queue \X RW
        PROVE  queueCB[arg'[u][1]].len # 0
    BY <2>1, <2>2 DEF QueueInv, QueueParts
  <2> QED BY <1>1, <2>2 DEF QueueInv, QueueParts
<1>7. \A z \in Queue : \A list \in List : <<z, list>> # memList =>
          kernel'.pend[<<z, list>>] = kernel.pend[<<z, list>>]
  BY <1>1, <1>3, ListsAreObjects DEF WaitList
<1>8. FreeQueues'
  <2>1. \A z \in Queue : ~InUse(z) => \A list \in List : <<z, list>> # memList
    BY <1>1 DEF memList
  <2>2. \A z \in Queue : InUse(z)' <=> InUse(z)
    BY <1>1 DEF InUse
  <2> QED BY <1>1, <1>7, <2>1, <2>2 DEF QueueInv, FreeQueues
<1>9. NoWaitWithNodes'
  <2>1. \A z \in Queue : \A rw \in RW : kernel'.pend[<<z, rw>>] = kernel.pend[<<z, rw>>]
    BY <1>7, MemListIsObject, ListsAreObjects
  <2> QED BY <1>1, <2>1 DEF QueueInv, NoWaitWithNodes
<1> QED BY <1>5, <1>6, <1>8, <1>9 DEF QueueInv

LEMMA MailWaits ==
    ASSUME Unprotected = {}, MailInv, NEW t \in TCB, NEW timeout \in QueueTimeout, MailWait(t, timeout)
    PROVE  MailInv'
<1>1. TaskInv /\ ObjInv /\ QueueInv
  BY DEF MailInv, NodeInv, QueueInv
<1>2. /\ Thread(t) /\ t \in Task /\ todo[t] = <<>> /\ pool = <<>>
      /\ Call(t, OsSchedTaskWait(kernel, memList, timeout), <<"schedule", "result">>, memList)
      /\ UNCHANGED queueVars /\ UNCHANGED mailVars
  BY DEF MailWait, App
<1>3. kernel.lock = 0
  <2>1. kernel.lock \in Nat
    BY <1>1 DEF TaskInv, TaskTypeOK, SchedState
  <2> QED BY <2>1 DEF MailWait
<1>4. AsBefore(kernel) /\ timeout \in (0 .. MaxDelay) \cup {NoTime} /\ memList \in WaitObj
  BY <1>1, SelfAsBefore, QueueAssumption, MemListIsObject DEF ObjInv
<1>5. todo[t] \in {<<>>, <<"eventRead">>}
  BY <1>2
<1>6. ObjInv' /\ Grants({t}, {}) /\ ~Granted(t) /\ arg'[t] = memList
  BY <1>1, <1>2, <1>3, <1>4, <1>5, WaitGoes
<1>7. QueueInv'
  BY <1>1, MailWaitQueue
<1>8. NodeInv'
  BY <1>2, <1>6, <1>7, NodesStay DEF MailInv
<1>9. HandInv'
  <2>1. \A u \in TCB : ForBlock(u)' <=> (ForBlock(u) /\ u \notin {t}) \/ (u \in {} /\ arg[u] = memList)
    BY <1>6, ForBlockAfter
  <2> QED BY <1>2, <1>6, <2>1 DEF MailInv, HandInv, ForBlock, mailVars
<1>10. BlockInv' /\ NoWaitWithBlocks'
  BY <1>2 DEF MailInv, BlockInv, NoWaitWithBlocks, InOnePlace, InHand, mailVars
<1> QED BY <1>8, <1>9, <1>10 DEF MailInv

LEMMA MailTimesOut ==
    ASSUME MailInv, NEW t \in TCB, MailTimedOut(t)
    PROVE  MailInv'
<1>1. TaskInv /\ ObjInv /\ QueueInv
  BY DEF MailInv, NodeInv, QueueInv
<1> DEFINE S == kernel.status[t] \ {"TIMEOUT"}
           k == [kernel EXCEPT !.status[t] = S]
<1>2. /\ Doing(t, "result") /\ arg[t] = memList /\ Has(kernel, t, {"TIMEOUT"})
      /\ Call(t, k, <<>>, NoArg) /\ UNCHANGED queueVars /\ UNCHANGED mailVars
  BY DEF MailTimedOut, ForMail
<1>3. ObjInv' /\ Grants({t}, {}) /\ todo'[t] = <<>>
  <2>1. <<>> \in Plain
    BY DEF Plain
  <2> QED BY <1>1, <1>2, <2>1, TimeoutGoes
<1>4. Keeps(kernel, k)
  <2>1. Fits(t, S)
    BY <1>1, InvWellFormed DEF Fits, WellFormed, SpecialTasks, SchedState
  <2> QED BY <1>1, <2>1, InvWellFormed, StatusKeeps
<1> HIDE DEF k
<1>5. TaskInv' /\ NoNewObjWaiter
  BY <1>1, <1>2, <1>4, PlainSteps, CallKeeps
<1>6. QueueInv'
  <2>1. \A u \in TCB : arg'[u] = arg[u] \/ arg'[u] \notin Queue \X RW
    BY <1>1, <1>2, ListsAreObjects DEF Call, TaskInv, TaskTypeOK
  <2>2. queueCB' = queueCB /\ freeQueue' = freeQueue /\ job' \in [TCB -> Job]
    BY <1>1, <1>2 DEF queueVars, QueueInv, QueueParts
  <2> QED BY <1>1, <1>5, <2>1, <2>2, SamePart
<1>7. ~AtResult(t)' /\ ~Granted(t)
  BY <1>2, <1>3 DEF AtResult, Granted, Has
<1>8. NodeInv'
  BY <1>2, <1>3, <1>6, <1>7, NodesStay DEF MailInv
<1>9. HandInv'
  <2>1. \A u \in TCB : ForBlock(u)' <=> (ForBlock(u) /\ u \notin {t}) \/ (u \in {} /\ arg[u] = memList)
    BY <1>3, ForBlockAfter
  <2> QED BY <1>2, <1>7, <2>1 DEF MailInv, HandInv, ForBlock, mailVars
<1>10. BlockInv'
  BY <1>2 DEF MailInv, BlockInv, InOnePlace, InHand, mailVars
<1>11. NoWaitWithBlocks'
  BY <1>2, <1>5, MemListIsObject
     DEF MailInv, NoWaitWithBlocks, MailWaiters, memList, mailVars, NoNewObjWaiter
<1> QED BY <1>8, <1>9, <1>10, <1>11 DEF MailInv

\* The task that was woken finds its block.
LEMMA MailComes ==
    ASSUME MailInv, NEW t \in TCB, MailGranted(t)
    PROVE  MailInv'
<1>1. TaskInv /\ ObjInv /\ QueueInv /\ SafeInv
  BY DEF MailInv, NodeInv, QueueInv, ObjInv
<1>2. /\ Doing(t, "result") /\ arg[t] = memList /\ ~Has(kernel, t, {"TIMEOUT"})
      /\ Call(t, kernel, <<>>, NoArg) /\ UNCHANGED queueVars /\ UNCHANGED <<pool, gone>>
      /\ out' = out \cup ({msg[t]} \ {NoBlock}) /\ msg' = [msg EXCEPT ![t] = NoBlock]
  BY DEF MailGranted, ForMail
<1>3. Thread(t) /\ todo[t] # <<>> /\ Head(todo[t]) = "result" /\ "TIMEOUT" \notin kernel.status[t]
  BY <1>2 DEF Doing, Has
<1>4. ObjInv' /\ Grants({t}, {}) /\ todo'[t] = <<>>
  <2>1. <<>> \in Plain
    BY DEF Plain
  <2> QED BY <1>1, <1>2, <1>3, <2>1, WorkGoes
<1>5. TaskInv' /\ NoNewObjWaiter
  BY <1>1, <1>2, InvWellFormed, KeepsSelf, PlainSteps, CallKeeps
<1>6. QueueInv'
  <2>1. \A u \in TCB : arg'[u] = arg[u] \/ arg'[u] \notin Queue \X RW
    BY <1>1, <1>2, ListsAreObjects DEF Call, TaskInv, TaskTypeOK
  <2>2. queueCB' = queueCB /\ freeQueue' = freeQueue /\ job' \in [TCB -> Job]
    BY <1>1, <1>2 DEF queueVars, QueueInv, QueueParts
  <2> QED BY <1>1, <1>5, <2>1, <2>2, SamePart
<1>7. NodeInv'
  <2>1. ~AtResult(t)'
    BY <1>4 DEF AtResult
  <2> QED BY <1>2, <1>4, <1>6, <2>1, NodesStay DEF MailInv
<1>8. msg \in [TCB -> Block \cup {NoBlock}]
  BY DEF MailInv, BlockInv
<1>9. HandInv'
  <2>1. \A u \in TCB : ForBlock(u)' <=> (ForBlock(u) /\ u \notin {t}) \/ (u \in {} /\ arg[u] = memList)
    BY <1>4, ForBlockAfter
  <2> QED BY <1>2, <1>8, <2>1 DEF MailInv, HandInv
<1>10. BlockInv'
  <2>1. PICK S : S = {msg[u] : u \in {t}} \ {NoBlock}
    OBVIOUS
  <2>2. out' = out \cup S /\ msg' = [u \in TCB |-> IF u \in {t} THEN NoBlock ELSE msg[u]]
    BY <1>2, <1>8, <2>1
  <2>3. {t} \in SUBSET TCB
    OBVIOUS
  <2> QED BY <1>2, <2>1, <2>2, <2>3, BlocksLeave DEF MailInv
<1>11. NoWaitWithBlocks'
  BY <1>2, <1>5, MemListIsObject
     DEF MailInv, NoWaitWithBlocks, MailWaiters, memList, NoNewObjWaiter
<1> QED BY <1>7, <1>9, <1>10, <1>11 DEF MailInv

\* A block that comes back goes to the first task that waits, or to the pool.
LEMMA BlockDelivered ==
    ASSUME MailInv, NodeInv', NEW b \in out, Deliver(b), out' = out \ {b}, gone' = gone, NoNewObjWaiter,
           NEW T \in SUBSET TCB, \A t \in T : ~Granted(t), NEW W \in SUBSET Task, Grants(T, W),
           MailWaiters = <<>> => W = {},
           MailWaiters # <<>> => /\ Head(MailWaiters) \in Task \ T /\ W = {Head(MailWaiters)}
                                 /\ ~Granted(Head(MailWaiters)) /\ arg[Head(MailWaiters)] = memList
    PROVE  MailInv'
<1>1. \A u \in TCB : ForBlock(u)' <=> (ForBlock(u) /\ u \notin T) \/ (u \in W /\ arg[u] = memList)
  <2>1. T \cap W = {}
    OBVIOUS
  <2> QED BY <2>1, ForBlockAfter
<1>2. \A u \in TCB : ForBlock(u)' <=> ForBlock(u) \/ (u \in W /\ arg[u] = memList)
  BY <1>1 DEF ForBlock
<1>3. HandInv /\ BlockInv /\ NoWaitWithBlocks /\ msg \in [TCB -> Block \cup {NoBlock}]
  BY DEF MailInv, BlockInv
<1>4. CASE MailWaiters = <<>>
  <2>1. MemboxFree(b) /\ msg' = msg /\ W = {}
    BY <1>4 DEF Deliver
  <2>2. BlockInv'
    BY <1>3, <2>1, BlockFreed
  <2>3. HandInv'
    BY <1>2, <1>3, <2>1 DEF HandInv
  <2>4. MailWaiters' = <<>>
    BY <1>4, MemListIsObject DEF MailWaiters, memList, NoNewObjWaiter
  <2> QED BY <2>2, <2>3, <2>4 DEF MailInv, NoWaitWithBlocks
<1>5. CASE MailWaiters # <<>>
  <2>1. PICK w : w = Head(MailWaiters)
    OBVIOUS
  <2>2. /\ msg' = [msg EXCEPT ![w] = b] /\ pool' = pool /\ pool = <<>>
        /\ w \in Task /\ w \in TCB /\ W = {w} /\ ~Granted(w) /\ arg[w] = memList
    BY <1>3, <1>5, <2>1 DEF Deliver, NoWaitWithBlocks, TCB
  <2>3. msg[w] = NoBlock /\ b # NoBlock
    BY <1>3, <2>2, MemListIsObject DEF HandInv, ForBlock, BlockInv
  <2>4. BlockInv'
    BY <1>3, <2>2, <2>3, BlockHanded
  <2>5. HandInv'
    BY <1>2, <1>3, <2>2, <2>3 DEF HandInv
  <2> QED BY <2>2, <2>4, <2>5 DEF MailInv, NoWaitWithBlocks
<1> QED BY <1>4, <1>5

LEMMA MailIsFreed ==
    ASSUME MailInv, NEW t \in TCB, NEW b \in Block, MailFree(t, b)
    PROVE  MailInv'
<1>1. TaskInv /\ ObjInv /\ QueueInv
  BY DEF MailInv, NodeInv, QueueInv
<1>2. /\ Thread(t) /\ todo[t] = <<>> /\ b \in out /\ Deliver(b) /\ out' = out \ {b}
      /\ UNCHANGED queueVars /\ gone' = gone /\ ~Granted(t)
  BY DEF MailFree, App, Granted, AtResult
<1>3. queueCB' = queueCB /\ freeQueue' = freeQueue /\ job' \in [TCB -> Job]
  BY <1>1, <1>2 DEF queueVars, QueueInv, QueueParts
<1>4. CASE MailWaiters = <<>>
  <2>1. Call(t, kernel, <<>>, NoArg) /\ <<>> \in Plain
    BY <1>4 DEF MailFree, Plain
  <2>2. ObjInv' /\ Grants({t}, {}) /\ todo'[t] = <<>>
    BY <1>1, <1>2, <2>1, WorkGoes
  <2>3. TaskInv' /\ NoNewObjWaiter
    BY <1>1, <2>1, InvWellFormed, KeepsSelf, PlainSteps, CallKeeps
  <2>4. \A u \in TCB : arg'[u] = arg[u] \/ arg'[u] \notin Queue \X RW
    BY <1>1, <2>1, ListsAreObjects DEF Call, TaskInv, TaskTypeOK
  <2>5. QueueInv'
    BY <1>1, <1>3, <2>3, <2>4, SamePart
  <2>6. ~AtResult(t)'
    BY <2>2 DEF AtResult
  <2>7. NodeInv'
    BY <1>2, <2>2, <2>5, <2>6, NodesStay DEF MailInv
  <2> QED BY <1>2, <1>4, <2>2, <2>3, <2>7, BlockDelivered
<1>5. CASE MailWaiters # <<>>
  <2>1. PICK w : w = Head(MailWaiters)
    OBVIOUS
  <2>2. PICK k : k = OsSchedTaskWake(kernel, w)
    OBVIOUS
  <2>3. /\ memList \in WaitObj /\ kernel.pend[memList] # <<>> /\ AsBefore(kernel)
        /\ w = Head(kernel.pend[memList]) /\ Call(t, k, <<"schedule">>, NoArg)
    BY <1>1, <1>5, <2>1, <2>2, SelfAsBefore, MemListIsObject DEF MailFree, MailWaiters, ObjInv
  <2>4. /\ ObjInv' /\ Grants({t}, {w}) /\ ~Granted(w) /\ todo'[t] = <<"schedule">>
        /\ w \in Task /\ w # t /\ arg[w] = memList
    <3>1. PICK o : o = memList
      OBVIOUS
    <3>2. /\ o \in WaitObj /\ kernel.pend[o] # <<>> /\ w = Head(kernel.pend[o])
          /\ Call(t, OsSchedTaskWake(kernel, w), <<"schedule">>, NoArg) /\ AsBefore(kernel)
      BY <2>2, <2>3, <3>1
    <3>3. /\ Thread(t)
          /\ \/ todo[t] = <<>>
             \/ todo[t] # <<>> /\ Head(todo[t]) \in {"eventRead", "eventWrite"}
             \/ todo[t] # <<>> /\ Head(todo[t]) = "result" /\ "TIMEOUT" \notin kernel.status[t]
      BY <1>2
    <3>4. TaskInv /\ ObjInv /\ SafeInv
      BY <1>1 DEF ObjInv
    <3>5. ObjInv' /\ Grants({t}, {w}) /\ ~Granted(w) /\ todo'[t] = <<"schedule">>
      BY <3>2, <3>3, <3>4, WakeGoes
    <3>6. PICK m : m = OsSchedTaskWake(kernel, w)
      OBVIOUS
    <3>7. w \in Task /\ arg[w] = o
      BY <3>2, <3>4, <3>6, FirstWaiter DEF Results
    <3>8. w # t
      BY <3>5, <3>7 DEF Grants, TCB, Granted, AtResult
    <3> QED BY <3>1, <3>5, <3>7, <3>8
  <2>5. Keeps(kernel, k)
    BY <1>1, <2>2, <2>4, InvWellFormed, TaskWakeKeeps
  <2>6. TaskInv' /\ NoNewObjWaiter
    BY <1>1, <2>3, <2>5, PlainSteps, CallKeeps
  <2>7. \A u \in TCB : arg'[u] = arg[u] \/ arg'[u] \notin Queue \X RW
    BY <1>1, <2>3, ListsAreObjects DEF Call, TaskInv, TaskTypeOK
  <2>8. QueueInv'
    BY <1>1, <1>3, <2>6, <2>7, SamePart
  <2>9. ~AtResult(t)' /\ {w} \in SUBSET Task /\ {t} \cap {w} = {}
    BY <2>4 DEF AtResult
  <2>10. NodeInv'
    BY <1>2, <2>4, <2>8, <2>9, NodesStay DEF MailInv
  <2> QED BY <1>2, <1>5, <2>1, <2>4, <2>6, <2>9, <2>10, BlockDelivered
<1> QED BY <1>4, <1>5

LEMMA IsrMailIsFreed ==
    ASSUME MailInv, NEW b \in Block, IsrMailFree(b)
    PROVE  MailInv'
<1>1. TaskInv /\ ObjInv /\ QueueInv
  BY DEF MailInv, NodeInv, QueueInv
<1>2. /\ UNCHANGED <<todo, arg, handles>> /\ b \in out /\ Deliver(b) /\ out' = out \ {b}
      /\ UNCHANGED queueVars /\ gone' = gone
  BY DEF IsrMailFree
<1>3. queueCB' = queueCB /\ freeQueue' = freeQueue /\ job' \in [TCB -> Job] /\ arg' = arg
  BY <1>1, <1>2 DEF queueVars, QueueInv, QueueParts
<1>4. CASE MailWaiters = <<>>
  <2>1. kernel' = kernel
    BY <1>4 DEF IsrMailFree
  <2>2. ObjInv'
    BY <1>1, <1>2, <2>1 DEF ObjInv, ControlInv, SafeInv, OutcomeInv, SwitchComes, CreateInv, JoinInv,
                      ResultInv, HandleInv, Creating, Reclaims, Joins, Results, AtResult
  <2>3. Grants({}, {})
    BY <1>2, <2>1 DEF Grants, Granted, AtResult
  <2>4. UNCHANGED taskVars
    BY <1>2, <2>1 DEF taskVars
  <2>5. TaskInv' /\ NoNewObjWaiter
    BY <1>1, <2>4, StutterInv
  <2>6. QueueInv'
    BY <1>1, <1>3, <2>5, SamePart
  <2>7. NodeInv'
    BY <1>2, <2>2, <2>3, <2>6, NodesStay DEF MailInv
  <2> QED BY <1>2, <1>4, <2>3, <2>5, <2>7, BlockDelivered
<1>5. CASE MailWaiters # <<>>
  <2>1. PICK w : w = Head(MailWaiters)
    OBVIOUS
  <2>2. PICK k : k = OsSchedTaskWake(kernel, w)
    OBVIOUS
  <2>3. /\ memList \in WaitObj /\ kernel.pend[memList] # <<>>
        /\ w = Head(kernel.pend[memList]) /\ kernel' = LOS_Schedule(k)
    BY <1>5, <2>1, <2>2, MemListIsObject DEF IsrMailFree, MailWaiters
  <2>4. ObjInv' /\ Grants({}, {w}) /\ ~Granted(w) /\ w \in Task /\ arg[w] = memList
    BY <1>1, <1>2, <2>2, <2>3, IsrWakeGoes
  <2>5. Keeps(kernel, LOS_Schedule(k))
    <3>1. Keeps(kernel, k)
      BY <1>1, <2>2, <2>4, InvWellFormed, TaskWakeKeeps
    <3> QED BY <3>1, ScheduleKeeps, KeepsWellFormed, KeepsTrans
  <2>6. TaskInv' /\ NoNewObjWaiter
    BY <1>1, <1>2, <2>3, <2>5, KernelStep
  <2>7. QueueInv'
    BY <1>1, <1>3, <2>6, SamePart
  <2>8. {w} \in SUBSET Task /\ {} \cap {w} = {}
    BY <2>4
  <2>9. NodeInv'
    BY <1>2, <2>4, <2>7, <2>8, NodesStay DEF MailInv
  <2> QED BY <1>2, <1>5, <2>1, <2>4, <2>6, <2>8, <2>9, BlockDelivered
<1> QED BY <1>4, <1>5

(* The steps of tasks and queues. *)

\* No block is handed out or waited for; a call may be cut off.
MailsGoOn ==
    /\ \A t \in TCB : ForBlock(t)' <=> ForBlock(t) /\ todo'[t] # <<>>
    /\ MailWaiters = <<>> => MailWaiters' = <<>>

LEMMA MailsAside ==
    ASSUME NEW T, NEW W \in SUBSET Task, T \cap W = {}, Grants(T, W),
           \A t \in T : ~ForBlock(t), \A w \in W : arg[w] # memList,
           MailWaiters = <<>> => MailWaiters' = <<>>
    PROVE  MailsGoOn
<1>1. ASSUME NEW t \in TCB PROVE ForBlock(t)' <=> ForBlock(t) /\ todo'[t] # <<>>
  <2>1. ForBlock(t)' <=> ForBlock(t)
    BY ForBlockAfter
  <2>2. ForBlock(t) => t \notin T /\ todo[t] # <<>>
    BY DEF ForBlock, Granted, AtResult
  <2>3. t \notin T => todo'[t] = todo[t]
    BY DEF Grants
  <2> QED BY <2>1, <2>2, <2>3
<1> QED BY <1>1 DEF MailsGoOn

LEMMA NoNewMailWaiter == NoNewObjWaiter => (MailWaiters = <<>> => MailWaiters' = <<>>)
  BY MemListIsObject DEF NoNewObjWaiter, MailWaiters, memList

LEMMA HandedAside ==
    ASSUME NEW q \in Queue, NEW j \in Job, NEW T, NEW W, HandedOn(q, j, T, W), NoNewObjWaiter,
           \A t \in T : ~ForBlock(t)
    PROVE  MailsGoOn
<1>1. W \in SUBSET Task /\ T \cap W = {} /\ Grants(T, W)
  BY DEF HandedOn
<1>2. \A w \in W : arg[w] # memList
  <2>1. Other(j.rw) \in RW
    BY DEF Other, RW
  <2>2. memList # <<q, Other(j.rw)>>
    BY <2>1, MemListIsObject
  <2> QED BY <2>2 DEF HandedOn
<1> QED BY <1>1, <1>2, NoNewMailWaiter, MailsAside

LEMMA QueueStepAside ==
    ASSUME Unprotected = {}, NodeInv, NEW t \in TCB, QueueStep(t)
    PROVE  MailsGoOn
<1>0. TaskInv /\ ObjInv /\ QueueInv /\ SafeInv /\ \A j \in Jobs : j \in Job
  BY QueueAssumption DEF NodeInv, QueueInv, ObjInv
<1>1. CASE UNCHANGED taskVars
  BY <1>1 DEF MailsGoOn, ForBlock, Granted, AtResult, memList, MailWaiters, taskVars
<1>2. CASE QueueTimedOut(t)
  <2>1. /\ Doing(t, "result") /\ Has(kernel, t, {"TIMEOUT"})
        /\ Call(t, [kernel EXCEPT !.status[t] = @ \ {"TIMEOUT"}], <<>>, NoArg)
    BY <1>2 DEF QueueTimedOut
  <2>2. Grants({t}, {})
    <3>1. <<>> \in Plain
      BY DEF Plain
    <3> QED BY <1>0, <2>1, <3>1, TimeoutGoes
  <2>3. ~ForBlock(t)
    BY <2>1 DEF ForBlock, Granted, Has
  <2>4. kernel'.pend = kernel.pend
    BY <2>1 DEF Call
  <2>5. MailWaiters = <<>> => MailWaiters' = <<>>
    BY <2>4 DEF MailWaiters, memList
  <2> QED BY <2>2, <2>3, <2>5, MailsAside
<1>3. CASE QueueGranted(t)
  <2>1. PICK q, j : q = arg[t][1] /\ j = job[t]
    OBVIOUS
  <2>2. /\ Doing(t, "result") /\ arg[t] \in Queue \X RW /\ ~Has(kernel, t, {"TIMEOUT"})
        /\ OperatedCall(t, q, j)
    BY <1>3, <2>1 DEF QueueGranted
  <2>3. q \in Queue /\ j \in Job
    BY <1>0, <2>1, <2>2 DEF QueueInv, QueueParts
  <2>4. Thread(t) /\ todo[t] # <<>> /\ Head(todo[t]) = "result" /\ "TIMEOUT" \notin kernel.status[t]
    BY <2>2 DEF Doing, Has
  <2>5. \E W : HandedOn(q, j, {t}, W)
    BY <1>0, <2>2, <2>3, <2>4, HandsOn
  <2>6. NoNewObjWaiter
    BY <1>0, <2>2, <2>3, OperatedCallKeeps
  <2>7. ~ForBlock(t)
    BY <2>2, MemListIsObject DEF ForBlock
  <2> QED BY <2>3, <2>5, <2>6, <2>7, HandedAside
<1>4. ASSUME NEW q \in Queue, NEW j \in Jobs, QueueOperate(t, q, j) PROVE MailsGoOn
  <2>1. Thread(t) /\ todo[t] = <<>> /\ OperatedCall(t, q, j) /\ j \in Job
    BY <1>0, <1>4 DEF QueueOperate, App
  <2>2. \E W : HandedOn(q, j, {t}, W)
    BY <1>0, <2>1, HandsOn
  <2>3. NoNewObjWaiter
    BY <1>0, <2>1, OperatedCallKeeps
  <2>4. ~ForBlock(t)
    BY <2>1 DEF ForBlock, Granted, AtResult
  <2> QED BY <2>1, <2>2, <2>3, <2>4, HandedAside
<1>5. ASSUME NEW q \in Queue, NEW j \in Jobs, NEW timeout \in QueueTimeout, QueueWait(t, q, j, timeout)
      PROVE  MailsGoOn
  <2>1. PICK o : o = <<q, j.rw>>
    OBVIOUS
  <2>2. /\ Thread(t) /\ t \in Task /\ todo[t] = <<>> /\ kernel.lock = 0
        /\ Call(t, OsSchedTaskWait(kernel, o, timeout), <<"schedule", "result">>, o)
    BY <1>5, <2>1 DEF QueueWait, App
  <2>3. /\ o \in WaitObj /\ o \in WaitList /\ AsBefore(kernel) /\ o # memList
        /\ timeout \in (0 .. MaxDelay) \cup {NoTime}
    <3>1. j.rw \in RW
      BY <1>0 DEF Job, RW
    <3>2. o \in WaitObj /\ o # memList
      BY <2>1, <3>1, ListsAreObjects, MemListIsObject
    <3> QED BY <1>0, <3>2, SelfAsBefore, QueueAssumption DEF ObjInv, WaitList
  <2>4. todo[t] \in {<<>>, <<"eventRead">>}
    BY <2>2
  <2>5. Grants({t}, {}) /\ ~Granted(t)
    BY <1>0, <2>2, <2>3, <2>4, WaitGoes
  <2>6. kernel'.pend[memList] = kernel.pend[memList]
    <3>1. kernel.run \in Task
      BY <2>2 DEF Thread
    <3>2. kernel' = OsSchedTaskWait(kernel, o, timeout)
      BY <2>2 DEF Call
    <3>3. memList \in WaitList \ {o}
      BY <2>3, MemListIsObject
    <3> QED BY <1>0, <2>3, <3>1, <3>2, <3>3, InvWellFormed, TaskWaitKeeps
  <2>7. MailWaiters = <<>> => MailWaiters' = <<>>
    BY <2>6 DEF MailWaiters, memList
  <2> QED BY <2>5, <2>7, MailsAside DEF ForBlock
<1>6. ASSUME NEW len \in QueueLen, OsQueueCreate(t, len) PROVE UNCHANGED taskVars
  BY <1>6 DEF OsQueueCreate
<1>7. ASSUME NEW q \in Queue, QueueDelete(t, q) PROVE UNCHANGED taskVars
  BY <1>7 DEF QueueDelete
<1> QED BY <1>1, <1>2, <1>3, <1>4, <1>5, <1>6, <1>7 DEF QueueStep

LEMMA QueuesAside ==
    ASSUME Unprotected = {}, NodeInv, QueueNext
    PROVE  MailsGoOn
<1>0. TaskInv /\ ObjInv /\ QueueInv /\ \A j \in Jobs : j \in Job
  BY QueueAssumption DEF NodeInv, QueueInv
<1>1. CASE TaskStepOfQueues
  <2>1. TaskNext
    BY <1>1 DEF TaskStepOfQueues
  <2>2. ResultsGoOn
    BY <1>0, <2>1, TaskGoes
  <2>3. MailWaiters = <<>> => MailWaiters' = <<>>
    BY <1>0, <2>1, NextInv, NoNewMailWaiter
  <2>4. ASSUME NEW t \in TCB PROVE ForBlock(t)' <=> ForBlock(t) /\ todo'[t] # <<>>
    <3>1. ForBlock(t)' => ForBlock(t) /\ todo'[t] # <<>>
      BY <2>2 DEF ResultsGoOn, ForBlock, Granted, AtResult, memList
    <3>2. ASSUME ForBlock(t), todo'[t] # <<>> PROVE ForBlock(t)'
      <4>1. AtResult(t)' /\ Granted(t)' /\ arg'[t] = arg[t]
        BY <2>2, <3>2 DEF ResultsGoOn, ForBlock, Granted
      <4> QED BY <3>2, <4>1 DEF ForBlock, memList
    <3> QED BY <3>1, <3>2
  <2> QED BY <2>3, <2>4 DEF MailsGoOn
<1>2. ASSUME NEW t \in TCB, QueueStep(t) PROVE MailsGoOn
  BY <1>2, QueueStepAside
<1>3. ASSUME NEW q \in Queue, NEW j \in Jobs, IsrQueueOperate(q, j) PROVE MailsGoOn
  <2>1. NoNewObjWaiter /\ j \in Job
    BY <1>0, <1>3, IsrOperateKeeps
  <2>2. \E W : HandedOn(q, j, {}, W)
    BY <1>0, <1>3, <2>1, IsrHandsOn
  <2> QED BY <2>1, <2>2, HandedAside
<1> QED BY <1>1, <1>2, <1>3 DEF QueueNext, IsrQueueStep

\* A block that was handed to a task that is deleted is lost with it.
LEMMA MailsGo ==
    ASSUME Unprotected = {}, MailInv, QueueStepOfMails
    PROVE  MailInv'
<1>1. /\ QueueNext /\ pool' = pool /\ out' = out
      /\ msg' = [t \in TCB |-> IF t \in Ended THEN NoBlock ELSE msg[t]]
      /\ gone' = gone \cup ({msg[t] : t \in Ended} \ {NoBlock})
  BY DEF QueueStepOfMails
<1>2. NodeInv' /\ MailsGoOn
  BY <1>1, QueuesAside, NodeNext DEF MailInv
<1>3. Ended \in SUBSET TCB
  BY DEF Ended, TCB
<1>4. HandInv'
  <2>1. ASSUME NEW t \in TCB PROVE msg'[t] # NoBlock <=> ForBlock(t)'
    <3>1. /\ msg[t] # NoBlock <=> ForBlock(t)
          /\ ForBlock(t)' <=> ForBlock(t) /\ todo'[t] # <<>>
      BY <1>2 DEF MailInv, HandInv, MailsGoOn
    <3>2. ForBlock(t) => arg[t] # NoArg /\ t \in Task
      BY MemListIsObject DEF ForBlock, Granted, MailInv, NodeInv, ObjInv, OutcomeInv
    <3>3. ForBlock(t) => (t \in Ended <=> todo'[t] = <<>>)
      BY <3>2 DEF Ended
    <3> QED BY <1>1, <3>1, <3>3
  <2> QED BY <2>1 DEF HandInv
<1>5. BlockInv'
  <2>1. PICK S : S = {msg[t] : t \in Ended} \ {NoBlock}
    OBVIOUS
  <2> QED BY <1>1, <1>3, <2>1, BlocksLeave DEF MailInv
<1>6. NoWaitWithBlocks'
  BY <1>1, <1>2 DEF MailsGoOn, MailInv, NoWaitWithBlocks
<1> QED BY <1>2, <1>4, <1>5, <1>6 DEF MailInv

LEMMA MailNextInv ==
    ASSUME Unprotected = {}
    PROVE  MailInv /\ [MailNext]_allMailVars => MailInv'
<1> SUFFICES ASSUME MailInv, [MailNext]_allMailVars PROVE MailInv'
  OBVIOUS
<1>1. CASE UNCHANGED allMailVars
  <2>1. UNCHANGED allQueueVars /\ UNCHANGED mailVars
    BY <1>1 DEF allMailVars
  <2>2. NodeInv'
    BY <2>1, NodeNext DEF MailInv
  <2> QED BY <2>1, <2>2
     DEF MailInv, HandInv, ForBlock, Granted, AtResult, memList, BlockInv, InOnePlace, InHand,
         NoWaitWithBlocks, MailWaiters, mailVars, allQueueVars
<1>2. ASSUME NEW t \in TCB, MailStep(t) PROVE MailInv'
  <2>1. MailTake(t) => MailInv'
    BY MailTaken DEF MailTake
  <2> QED BY <1>2, <2>1, MailWaits, MailTimesOut, MailComes, MailIsFreed DEF MailStep
<1>3. CASE IsrMailStep
  <2>1. IsrMailTake => MailInv'
    BY MailTaken DEF IsrMailTake
  <2> QED BY <1>3, <2>1, IsrMailIsFreed DEF IsrMailStep
<1> QED BY <1>1, <1>2, <1>3, MailsGo DEF MailNext

LEMMA MailInitInv == MailInit => MailInv
<1> SUFFICES ASSUME MailInit PROVE MailInv
  OBVIOUS
<1>1. /\ NodeInv /\ Init /\ msg = [t \in TCB |-> NoBlock] /\ out = {} /\ gone = {}
      /\ pool \in Bijection(1 .. Cardinality(Block), Block)
  BY NodeInit DEF MailInit, QueueInit
<1>2. Cardinality(Block) \in Nat
  BY FS_CardinalityType, MailAssumption
<1>3. pool \in Seq(Block) /\ IsInjective(pool) /\ \A b \in Block : Contains(pool, b)
  BY <1>1, <1>2 DEF Bijection, Injection, Surjection, IsInjective, Contains
<1>4. InHand = {}
  BY <1>1 DEF InHand
<1>5. BlockInv
  BY <1>1, <1>3, <1>4 DEF BlockInv, InOnePlace
<1>6. HandInv
  BY <1>1 DEF HandInv, ForBlock, Granted, AtResult, Init
<1>7. MailWaiters = <<>>
  BY <1>1, MemListIsObject DEF MailWaiters, Init, WaitList
<1> QED BY <1>1, <1>5, <1>6, <1>7 DEF MailInv, NoWaitWithBlocks

\* The blocks that tasks have in their msg are as many as these tasks.
LEMMA HandsCounted ==
    ASSUME BlockInv
    PROVE  /\ IsFiniteSet(InHand)
           /\ Cardinality({t \in TCB : msg[t] # NoBlock}) = Cardinality(InHand)
<1> DEFINE T == {t \in TCB : msg[t] # NoBlock}
           f == [t \in T |-> msg[t]]
<1>1. f \in Bijection(T, InHand)
  <2>1. \A t \in T : f[t] \in InHand
    BY DEF InHand
  <2>2. \A b \in InHand : \E t \in T : f[t] = b
    BY DEF InHand
  <2>3. \A t, u \in T : f[t] = f[u] => t = u
    BY DEF BlockInv
  <2> QED BY <2>1, <2>2, <2>3 DEF Bijection, Injection, Surjection, IsInjective
<1>2. IsFiniteSet(T)
  <2>1. IsFiniteSet(TCB)
    <3>1. IsFiniteSet(Task) /\ IsFiniteSet({Idle}) /\ IsFiniteSet({Boot})
      BY SchedAssumption, FS_Singleton
    <3>2. IsFiniteSet((Task \cup {Idle}) \cup {Boot})
      BY <3>1, FS_Union
    <3>3. TCB = (Task \cup {Idle}) \cup {Boot}
      BY DEF TCB
    <3> QED BY <3>2, <3>3
  <2>2. T \in SUBSET TCB
    OBVIOUS
  <2> QED BY <2>1, <2>2, FS_Subset
<1> HIDE DEF f, T
<1>3. ExistsBijection(T, InHand)
  BY <1>1 DEF ExistsBijection
<1>4. IsFiniteSet(InHand) /\ Cardinality(InHand) = Cardinality(T)
  BY <1>2, <1>3, FS_Bijection
<1> QED BY <1>4 DEF T

LEMMA PoolCounted ==
    ASSUME BlockInv
    PROVE  /\ IsFiniteSet(ToSet(pool)) /\ Cardinality(ToSet(pool)) = Len(pool)
           /\ \A b : b \in ToSet(pool) <=> Contains(pool, b)
<1>1. pool \in Seq(Block) /\ IsInjective(pool) /\ Len(pool) \in Nat
  BY DEF BlockInv
<1>2. pool \in Bijection(1 .. Len(pool), ToSet(pool))
  BY <1>1 DEF Bijection, Injection, Surjection, IsInjective, ToSet
<1>3. IsFiniteSet(1 .. Len(pool)) /\ Cardinality(1 .. Len(pool)) = Len(pool)
  BY <1>1, FS_Interval
<1>4. ExistsBijection(1 .. Len(pool), ToSet(pool))
  BY <1>2 DEF ExistsBijection
<1>5. IsFiniteSet(ToSet(pool)) /\ Cardinality(ToSet(pool)) = Len(pool)
  BY <1>3, <1>4, FS_Bijection
<1> QED BY <1>1, <1>5 DEF ToSet, Contains

LEMMA CountedApart ==
    ASSUME NEW S, IsFiniteSet(S), NEW T, IsFiniteSet(T), S \cap T = {}
    PROVE  /\ IsFiniteSet(S \cup T)
           /\ Cardinality(S \cup T) = Cardinality(S) + Cardinality(T)
<1>1. Cardinality(S \cap T) = 0
  BY FS_EmptySet
<1>2. /\ IsFiniteSet(S \cup T)
      /\ Cardinality(S \cup T) = Cardinality(S) + Cardinality(T) - Cardinality(S \cap T)
  BY FS_Union
<1>3. Cardinality(S) \in Nat /\ Cardinality(T) \in Nat
  BY FS_CardinalityType
<1> QED BY <1>1, <1>2, <1>3

\* However frees, timeouts, deletions and interrupts come: no block is lost but with a
\* task that was deleted after it was woken for it, none is in two places, whoever comes
\* back from OsQueueMailAlloc without a timeout has a block, and nobody waits while the
\* pool has one.
THEOREM MailsPassedOnOnce ==
    ASSUME Unprotected = {}
    PROVE  MailSpec => []MailsAreSafe
<1>1. ASSUME MailInv PROVE MailBlocksConserved
  <2>1. PICK P, H : P = ToSet(pool) /\ H = InHand
    OBVIOUS
  <2>2. /\ pool \in Seq(Block) /\ IsInjective(pool) /\ out \in SUBSET Block /\ gone \in SUBSET Block
        /\ \A b \in Block : InOnePlace(b)
    BY <1>1 DEF MailInv, BlockInv
  <2>3. /\ IsFiniteSet(P) /\ Cardinality(P) = Len(pool) /\ IsFiniteSet(H)
        /\ Cardinality({t \in TCB : msg[t] # NoBlock}) = Cardinality(H)
        /\ \A b : b \in P <=> Contains(pool, b)
    BY <1>1, <2>1, HandsCounted, PoolCounted DEF MailInv
  <2>4. P \subseteq Block /\ H \subseteq Block
    BY <1>1, <2>1, <2>2 DEF MailInv, BlockInv, InHand, ToSet
  <2>5. /\ P \cup out \cup H \cup gone = Block
        /\ P \cap out = {} /\ (P \cup out) \cap gone = {} /\ (P \cup out \cup gone) \cap H = {}
    BY <2>1, <2>2, <2>3, <2>4 DEF InOnePlace
  <2>6. IsFiniteSet(out) /\ IsFiniteSet(gone)
    BY <2>2, FS_Subset, MailAssumption
  <2>7. /\ IsFiniteSet(P \cup out) /\ Cardinality(P \cup out) = Cardinality(P) + Cardinality(out)
    BY <2>3, <2>5, <2>6, CountedApart
  <2>8. PICK R : R = P \cup out
    OBVIOUS
  <2>9. /\ IsFiniteSet(R \cup gone) /\ Cardinality(R \cup gone) = Cardinality(R) + Cardinality(gone)
    BY <2>5, <2>6, <2>7, <2>8, CountedApart
  <2>10. PICK Q : Q = R \cup gone
    OBVIOUS
  <2>11. Cardinality(Q \cup H) = Cardinality(Q) + Cardinality(H)
    <3>1. Q \cap H = {} /\ IsFiniteSet(Q)
      BY <2>5, <2>8, <2>9, <2>10
    <3> QED BY <2>3, <3>1, CountedApart
  <2>12. Q \cup H = Block
    BY <2>5, <2>8, <2>10
  <2>13. /\ Cardinality(P) \in Nat /\ Cardinality(out) \in Nat /\ Cardinality(gone) \in Nat
         /\ Cardinality(H) \in Nat
    BY <2>3, <2>6, FS_CardinalityType
  <2>14. Len(pool) + Cardinality(out) + Cardinality(gone) + Cardinality(H) = Cardinality(Block)
    BY <2>3, <2>7, <2>8, <2>9, <2>10, <2>11, <2>12, <2>13
  <2> QED BY <2>1, <2>2, <2>3, <2>5, <2>14 DEF MailBlocksConserved
<1>2. ASSUME MailInv PROVE MailNotNull
  <2>1. ASSUME NEW t \in Task, ForMail(t), ~Has(kernel, t, {"TIMEOUT"}) PROVE msg[t] # NoBlock
    <3>1. TaskInv /\ SafeInv /\ OutcomeInv /\ Doing(t, "result") /\ arg[t] = memList /\ t \in TCB
      BY <1>2, <2>1 DEF MailInv, NodeInv, QueueInv, ObjInv, ForMail, TCB
    <3>2. kernel.status[t] \cap Blocking = {}
      BY <3>1, WorkFlags DEF Doing
    <3>3. AtResult(t)
      <4>1. todo[t] \in Rest /\ todo[t] # <<>> /\ Head(todo[t]) = "result"
        BY <3>1 DEF SafeInv, Doing
      <4> QED BY <4>1 DEF Rest, AtResult
    <3>4. ForBlock(t)
      BY <2>1, <3>1, <3>2, <3>3 DEF ForBlock, Granted, Blocking, Has
    <3> QED BY <1>2, <3>1, <3>4 DEF MailInv, HandInv
  <2> QED BY <1>2, <2>1 DEF MailNotNull, MailInv, NoWaitWithBlocks
<1>3. MailInv => MailsAreSafe
  BY <1>1, <1>2 DEF MailsAreSafe
<1> QED BY <1>3, MailInitInv, MailNextInv, PTL DEF MailSpec

=============================================================================
