------------------------------ MODULE LosSwtmr ------------------------------
(***************************************************************************)
(* The software timers of the kernel (kernel/src/los_swtmr.c): their       *)
(* control blocks, the sort link they tick on, the scan of it in the tick  *)
(* interrupt, the queue from there to the timer task, and that task, which *)
(* runs the handlers.                                                      *)
(*                                                                         *)
(* Every API call is one critical section and may come from a task or from *)
(* an interrupt handler, so it may come between any two steps of the timer *)
(* task and, while the tick interrupt is late, between the end of a        *)
(* timer's interval and the scan.  (LOS_SwtmrCreate fills in a control     *)
(* block after its critical section: until it returns nobody has its ID.)  *)
(***************************************************************************)
EXTENDS Integers, FiniteSets, SequencesExt, Functions

CONSTANTS
    Timer,          \* the control blocks g_swtmrCBArray
    Interval,       \* the intervals that timers are created with, in ticks
    Divisor,        \* LOS_COMMON_DIVISOR
    QueueSize,      \* OS_SWTMR_HANDLE_QUEUE_SIZE
    Lives,          \* how many IDs a control block has, one after the other
    MaxLate,        \* bound: the ticks that a scan comes late
    RestartExpired  \* is a one-off timer started again while its handler is due?

Mode == {"ONCE", "PERIOD", "NO_SELFDELETE"}
State == {"UNUSED", "CREATED", "TICKING"}

ASSUME SwtmrAssumption ==
    /\ IsFiniteSet(Timer)
    /\ Interval \subseteq Nat \ {0} /\ Interval # {} /\ Divisor \in Nat \ {0}
    /\ QueueSize \in Nat \ {0} /\ Lives \in Nat \ {0} /\ MaxLate \in Nat
    /\ RestartExpired \in BOOLEAN

VARIABLES
    swtmr,      \* the control blocks; usTimerID is the block's index plus life times
                \* their number, due is responseTime minus the current time
    freeTimers, \* g_swtmrFreeList
    handlers,   \* g_swtmrHandlerQueue
    hand,       \* what the timer task has read and not yet looked at: one item or none
    scanning,   \* the tick interrupt is inside OsSwtmrScan
    dropped     \* history: timers whose timeout found the queue full

swtmrVars == <<swtmr, freeTimers, handlers, hand, scanning, dropped>>

ControlBlock ==
    [state : State, mode : Mode, interval : {0} \cup Interval, insensitive : BOOLEAN,
     life : 0 .. Lives - 1, canAlign : BOOLEAN, isAligned : BOOLEAN,
     linked : BOOLEAN, due : Int]

\* What OsSwtmrTimeoutHandle puts into the queue: the ID, for the handler.
Item == [timer : Timer, life : 0 .. Lives - 1]
ItemOf(t) == [timer |-> t, life |-> swtmr[t].life]

SwtmrInit ==
    /\ swtmr = [t \in Timer |->
                   [state |-> "UNUSED", mode |-> "ONCE", interval |-> 0,
                    insensitive |-> FALSE, life |-> 0, canAlign |-> FALSE,
                    isAligned |-> FALSE, linked |-> FALSE, due |-> 0]]
    /\ freeTimers \in Bijection(1 .. Cardinality(Timer), Timer)
    /\ handlers = <<>> /\ hand = <<>> /\ scanning = FALSE /\ dropped = {}

-----------------------------------------------------------------------------
(* Alignment: periodic timers that do not mind are put on a common grid.   *)

\* times of g_swtmrAlignID; 0 without canMultiple.
Times(s, t) == IF s[t].interval % Divisor = 0 THEN s[t].interval \div Divisor ELSE 0

\* The timers that t may be aligned to.
Aligned(s) == {u \in Timer : s[u].linked /\ s[u].canAlign /\ s[u].isAligned}
Same(s, t) == {u \in Aligned(s) : s[u].interval = s[t].interval}
Larger(s, t) ==
    {u \in Aligned(s) : Times(s, u) >= Times(s, t) /\ Times(s, u) % Times(s, t) = 0}
Smaller(s, t) ==
    {u \in Aligned(s) : /\ Times(s, u) \in 1 .. Times(s, t) - 1
                        /\ Times(s, t) % Times(s, u) = 0}

\* The nearest interval, and of several timers the first on the sort link.
Nearest(s, U, t) ==
    CHOOSE u \in U : \A v \in U :
        LET far(x) == IF s[x].interval > s[t].interval THEN s[x].interval - s[t].interval
                      ELSE s[t].interval - s[x].interval
        IN  far(u) < far(v) \/ (far(u) = far(v) /\ s[u].due <= s[v].due)

\* MUTATION: the next point of the grid instead of the last one.
NextPoint_OsSwtmrCalcStartTime(s, t, u) ==
    IF s[u].due <= 0 THEN s[u].due
    ELSE LET usedTime == s[u].interval - s[u].due
         IN  (usedTime \div s[t].interval + 1) * s[t].interval - usedTime

\* The start time of t, relative to now, on the grid of u.
OsSwtmrCalcStartTime(s, t, u) ==
    IF s[u].due <= 0 THEN s[u].due
    ELSE LET usedTime == s[u].interval - s[u].due
         IN  (usedTime \div s[t].interval) * s[t].interval - usedTime

OsSwtmrFindAlignPos(s, t) ==
    IF Same(s, t) # {} THEN OsSwtmrCalcStartTime(s, t, Nearest(s, Same(s, t), t))
    ELSE IF Times(s, t) # 0 /\ Larger(s, t) \ {u \in Timer : Times(s, u) = 0} # {}
    THEN OsSwtmrCalcStartTime(s, t, Nearest(s, Larger(s, t), t))
    ELSE IF Times(s, t) # 0 /\ Smaller(s, t) # {}
    THEN OsSwtmrCalcStartTime(s, t, Nearest(s, Smaller(s, t), t))
    ELSE 0

-----------------------------------------------------------------------------
(* Starting, stopping and deleting control blocks: from s to the next s.   *)

OsSwtmrStart(s, t, startTime) ==
    LET from == IF s[t].canAlign /\ ~s[t].isAligned THEN OsSwtmrFindAlignPos(s, t)
                ELSE startTime
    IN  [s EXCEPT ![t].state = "TICKING", ![t].isAligned = @ \/ s[t].canAlign,
                  ![t].linked = TRUE, ![t].due = from + s[t].interval]

\* MUTATION: the timer keeps its mark, and is not aligned when it starts again.
StaysAligned_OsSwtmrStop(s, t) ==
    [s EXCEPT ![t].linked = FALSE, ![t].due = 0, ![t].state = "CREATED"]

OsSwtmrStop(s, t) ==
    [s EXCEPT ![t].linked = FALSE, ![t].due = 0, ![t].state = "CREATED",
              ![t].isAligned = FALSE]

NextLife(t) == (swtmr[t].life + 1) % Lives

\* Bound: there are so many IDs that no item is left of the one that comes again.
FreshId(t) ==
    [timer |-> t, life |-> NextLife(t)] \notin ToSet(handlers') \cup ToSet(hand')

\* It is not taken off the sort link here.  What creation will write again is dead: it
\* is set back.
OsSwtmrDelete(s, t) ==
    /\ FreshId(t)
    /\ swtmr' = [s EXCEPT ![t].life = NextLife(t), ![t].state = "UNUSED",
                          ![t].mode = "ONCE", ![t].interval = 0, ![t].insensitive = FALSE,
                          ![t].canAlign = FALSE, ![t].isAligned = FALSE]
    /\ freeTimers' = <<t>> \o freeTimers
    /\ dropped' = dropped \ {t}

-----------------------------------------------------------------------------
(* The API.  A call with an ID that is no timer's, or of a timer that is   *)
(* not created, changes nothing.                                           *)

\* The block is not looked for on the sort link, where it is not: NoFreeTimerTicks.
SwtmrCreate(m, i, insensitive) ==
    /\ ~scanning /\ freeTimers # <<>>
    /\ LET t == Head(freeTimers)
       IN  swtmr' = [swtmr EXCEPT ![t].state = "CREATED", ![t].mode = m, ![t].interval = i,
                                  ![t].insensitive = insensitive, ![t].due = 0]
    /\ freeTimers' = Tail(freeTimers)
    /\ UNCHANGED <<handlers, hand, scanning, dropped>>

\* The handler of t has been asked for, and will run.
Expected(t) == ItemOf(t) \in ToSet(handlers) \cup ToSet(hand)

SwtmrStart(t) ==
    /\ ~scanning /\ swtmr[t].state # "UNUSED"
    /\ swtmr[t].mode = "ONCE" /\ Expected(t) => RestartExpired
    /\ LET marked == [swtmr EXCEPT ![t].canAlign =
                         @ \/ (swtmr[t].insensitive /\ swtmr[t].mode = "PERIOD")]
           stopped == IF swtmr[t].state = "TICKING" THEN OsSwtmrStop(marked, t) ELSE marked
       IN  swtmr' = OsSwtmrStart(stopped, t, 0)
    /\ dropped' = dropped \ {t}
    /\ UNCHANGED <<freeTimers, handlers, hand, scanning>>

SwtmrStop(t) ==
    /\ ~scanning /\ swtmr[t].state = "TICKING"
    /\ swtmr' = OsSwtmrStop(swtmr, t)
    /\ dropped' = dropped \ {t}
    /\ UNCHANGED <<freeTimers, handlers, hand, scanning>>

SwtmrDelete(t) ==
    /\ ~scanning /\ swtmr[t].state # "UNUSED"
    /\ UNCHANGED <<handlers, hand, scanning>>
    /\ OsSwtmrDelete(IF swtmr[t].state = "TICKING" THEN OsSwtmrStop(swtmr, t) ELSE swtmr, t)

-----------------------------------------------------------------------------
(* Time, the scan in the tick interrupt, and the timer task.               *)

TimePasses ==
    /\ ~scanning
    /\ \A t \in Timer : swtmr[t].linked => swtmr[t].due > -MaxLate
    /\ swtmr' = [t \in Timer |-> IF swtmr[t].linked THEN [swtmr[t] EXCEPT !.due = @ - 1]
                                 ELSE swtmr[t]]
    /\ UNCHANGED <<freeTimers, handlers, hand, scanning, dropped>>

Due(t) == swtmr[t].linked /\ swtmr[t].due <= 0

ScanStart ==
    /\ ~scanning /\ (\E t \in Timer : Due(t)) /\ scanning' = TRUE
    /\ UNCHANGED <<swtmr, freeTimers, handlers, hand, dropped>>

\* MUTATION: a one-off timer is started again like a periodic one.
EveryMode_AfterTimeout(s, t) == OsSwtmrStart(s, t, swtmr[t].due)

\* A periodic timer goes on from when it was due; a one-off timer stays as it is
\* until the timer task deletes it.
AfterTimeout(s, t) ==
    IF swtmr[t].mode = "PERIOD" THEN OsSwtmrStart(s, t, swtmr[t].due)
    ELSE IF swtmr[t].mode = "NO_SELFDELETE" THEN [s EXCEPT ![t].state = "CREATED"]
    ELSE s

\* One iteration; the result of the write to the queue is not looked at.
OsSwtmrTimeoutHandle(t) ==
    /\ scanning /\ Due(t)
    /\ \A u \in Timer : swtmr[u].linked => swtmr[t].due <= swtmr[u].due
    /\ IF Len(handlers) < QueueSize
       THEN handlers' = Append(handlers, ItemOf(t)) /\ dropped' = dropped \ {t}
       ELSE dropped' = dropped \cup {t} /\ UNCHANGED handlers
    /\ swtmr' = AfterTimeout([swtmr EXCEPT ![t].linked = FALSE, ![t].due = 0], t)
    /\ UNCHANGED <<freeTimers, hand, scanning>>

ScanEnd ==
    /\ scanning /\ (\A t \in Timer : ~Due(t)) /\ scanning' = FALSE
    /\ UNCHANGED <<swtmr, freeTimers, handlers, hand, dropped>>

\* OsSwtmrTask: the queue is read in one critical section ...
TimerTaskReads ==
    /\ ~scanning /\ hand = <<>> /\ handlers # <<>>
    /\ hand' = <<Head(handlers)>> /\ handlers' = Tail(handlers)
    /\ UNCHANGED <<swtmr, freeTimers, scanning, dropped>>

\* MUTATION: the ID that was read is not compared with the timer's.
AnyLife_IsCurrent(item) == TRUE

IsCurrent(item) == item = ItemOf(item.timer)

\* ... and the ID is looked up in another one; then the handler runs, and may call
\* the API itself.
TimerTaskHandles ==
    /\ ~scanning /\ hand # <<>>
    /\ hand' = <<>> /\ UNCHANGED <<handlers, scanning>>
    /\ LET t == Head(hand).timer
       IN  IF IsCurrent(Head(hand)) /\ swtmr[t].mode = "ONCE" THEN OsSwtmrDelete(swtmr, t)
           ELSE UNCHANGED <<swtmr, freeTimers, dropped>>

SwtmrNext ==
    \/ \E m \in Mode, i \in Interval, b \in BOOLEAN : SwtmrCreate(m, i, b)
    \/ \E t \in Timer :
          SwtmrStart(t) \/ SwtmrStop(t) \/ SwtmrDelete(t) \/ OsSwtmrTimeoutHandle(t)
    \/ TimePasses \/ ScanStart \/ ScanEnd \/ TimerTaskReads \/ TimerTaskHandles

SwtmrSpec == SwtmrInit /\ [][SwtmrNext]_swtmrVars

-----------------------------------------------------------------------------
(* Correctness. *)

\* Every variable keeps its type; a timer ends within its interval from now, whatever
\* it is aligned to.
SwtmrTypeOK ==
    /\ swtmr \in [Timer -> ControlBlock]
    /\ freeTimers \in Seq(Timer) /\ handlers \in Seq(Item)
    /\ hand = <<>> \/ \E item \in Item : hand = <<item>>
    /\ scanning \in BOOLEAN /\ dropped \subseteq Timer
    /\ \A t \in Timer : swtmr[t].linked =>
          swtmr[t].due \in -MaxLate .. swtmr[t].interval

\* A timer on the free list is not on the sort link as well, where it would expire as
\* somebody else's, and its one node be linked twice: not even when it is stopped or
\* deleted while its handler is on its way, or, unless it is a one-off timer, started
\* again.  It fails if a one-off timer is started again then (RestartExpired).
NoFreeTimerTicks ==
    /\ IsInjective(freeTimers)
    /\ \A t \in Timer :
          /\ Contains(freeTimers, t) <=> swtmr[t].state = "UNUSED"
          /\ swtmr[t].linked => swtmr[t].state = "TICKING"

\* A one-off timer expires once, and this is not forgotten: it is on the sort link, or
\* its handler is due, or the queue was full.
OnceExpiresOnce ==
    \A t \in Timer :
        LET items == Cardinality({i \in DOMAIN handlers : handlers[i] = ItemOf(t)})
                     + Cardinality({i \in DOMAIN hand : hand[i] = ItemOf(t)})
        IN  /\ swtmr[t].state = "TICKING" /\ ~swtmr[t].linked =>
                  swtmr[t].mode = "ONCE" /\ (items = 1 \/ t \in dropped)
            /\ swtmr[t].mode = "ONCE" /\ swtmr[t].linked => items = 0
            /\ swtmr[t].mode = "ONCE" => items <= 1

\* Timers that are aligned and whose intervals fit expire together, whenever each of
\* them was started, stopped or reused, and however late the scans are, if all intervals
\* are multiples of Divisor, others being aligned with nothing, and of any two one
\* divides the other: 6 is put on the grid of 2 or of 3, whichever timer is nearer, when
\* these started apart.
AlignedExpireTogether ==
    \A t, u \in Aligned(swtmr) :
        swtmr[u].interval % swtmr[t].interval = 0 =>
            (swtmr[u].due - swtmr[t].due) % swtmr[t].interval = 0

=============================================================================
