--------------------------- MODULE LosTimerProofs ---------------------------
(***************************************************************************)
(* The software timers (LosSwtmr), and the clock with the timer interrupt  *)
(* (LosTick, LosExpire).  They share no state: each has an invariant.      *)
(***************************************************************************)
EXTENDS MCTimers, ListLemmas, FiniteSetTheorems

-----------------------------------------------------------------------------
(***************************************************************************)
(* For any number of timers, any intervals, any length of the queue and    *)
(* any lateness of the scans: no timer is on the free list and on the sort *)
(* link at once.                                                           *)
(*                                                                         *)
(* The danger is in the timer task, which deletes a one-off timer without  *)
(* taking it off the sort link.  The invariant is therefore about what is  *)
(* on its way to that task: a one-off timer is not on the sort link while  *)
(* its handler is due (OnceIsOff), and a timer that is not in use has none *)
(* due, because its ID is changed when it is deleted.  The first holds     *)
(* only if the application does not start such a timer again               *)
(* (RestartExpired).                                                       *)
(***************************************************************************)

\* Control blocks whose response times are in D; where these come from does not matter.
Blocks(D) ==
    [state : State, mode : Mode, interval : {0} \cup Interval, insensitive : BOOLEAN,
     life : 0 .. Lives - 1, canAlign : BOOLEAN, isAligned : BOOLEAN,
     linked : BOOLEAN, due : D]

QueueType ==
    /\ handlers \in Seq(Item) /\ (hand = <<>> \/ \E item \in Item : hand = <<item>>)
    /\ freeTimers \in Seq(Timer)

OnceIsOff ==
    \A t \in Timer :
        Expected(t) => /\ swtmr[t].state # "UNUSED"
                       /\ swtmr[t].mode = "ONCE" => ~swtmr[t].linked

SwtmrInv ==
    /\ \E D : swtmr \in [Timer -> Blocks(D)]
    /\ QueueType /\ NoFreeTimerTicks /\ OnceIsOff

LEMMA SwtmrInitInv == SwtmrInit => SwtmrInv
<1> SUFFICES ASSUME SwtmrInit PROVE SwtmrInv
  OBVIOUS
<1>1. 0 \in 0 .. Lives - 1
  BY SwtmrAssumption
<1>2. swtmr \in [Timer -> Blocks({0})]
  BY <1>1 DEF SwtmrInit, Blocks, State, Mode
<1>3. Cardinality(Timer) \in Nat
  BY SwtmrAssumption, FS_CardinalityType
<1>4. /\ freeTimers \in [1 .. Cardinality(Timer) -> Timer]
      /\ IsInjective(freeTimers)
      /\ \A t \in Timer : \E i \in 1 .. Cardinality(Timer) : freeTimers[i] = t
  BY DEF SwtmrInit, Bijection, Injection, Surjection, IsInjective
<1>5. freeTimers \in Seq(Timer) /\ Len(freeTimers) = Cardinality(Timer)
  BY <1>3, <1>4
<1>6. \A t \in Timer : Contains(freeTimers, t)
  BY <1>4, <1>5 DEF Contains
<1>7. \A t \in Timer : swtmr[t].state = "UNUSED" /\ ~swtmr[t].linked /\ ~Expected(t)
  BY DEF SwtmrInit, Expected, ToSet
<1>8. QueueType
  BY <1>5 DEF SwtmrInit, QueueType
<1>9. NoFreeTimerTicks /\ OnceIsOff
  BY <1>4, <1>6, <1>7 DEF NoFreeTimerTicks, OnceIsOff
<1> QED BY <1>2, <1>8, <1>9 DEF SwtmrInv

-----------------------------------------------------------------------------
(* Control blocks. *)

\* r is s with another block for t, of the same ID.
Updates(s, r, t) ==
    /\ \E D : r \in [Timer -> Blocks(D)]
    /\ \A u \in Timer \ {t} : r[u] = s[u]
    /\ r[t].life = s[t].life /\ r[t].mode = s[t].mode

LEMMA MoreDues ==
    ASSUME NEW D, NEW E, NEW s \in [Timer -> Blocks(D)], D \subseteq E
    PROVE  s \in [Timer -> Blocks(E)]
BY DEF Blocks

LEMMA StartUpdates ==
    ASSUME NEW D, NEW s \in [Timer -> Blocks(D)], NEW t \in Timer, NEW from
    PROVE  LET r == OsSwtmrStart(s, t, from)
           IN  Updates(s, r, t) /\ r[t].state = "TICKING" /\ r[t].linked
<1> DEFINE first == IF s[t].canAlign /\ ~s[t].isAligned THEN OsSwtmrFindAlignPos(s, t)
                    ELSE from
           d == first + s[t].interval
           E == D \cup {d}
           r == OsSwtmrStart(s, t, from)
<1>1. s \in [Timer -> Blocks(E)] /\ d \in E
  BY MoreDues
<1>2. r = [s EXCEPT ![t].state = "TICKING", ![t].isAligned = @ \/ s[t].canAlign,
                    ![t].linked = TRUE, ![t].due = d]
  BY DEF OsSwtmrStart
<1> HIDE DEF d, E, r
<1>3. r \in [Timer -> Blocks(E)]
  <2> DEFINE b == [s[t] EXCEPT !.state = "TICKING", !.isAligned = @ \/ s[t].canAlign,
                               !.linked = TRUE, !.due = d]
  <2>1. s[t] \in Blocks(E) /\ "TICKING" \in State
    BY <1>1 DEF State
  <2>2. b \in Blocks(E)
    BY <1>1, <2>1 DEF Blocks
  <2>3. r = [s EXCEPT ![t] = b]
    BY <1>1, <1>2
  <2> QED BY <1>1, <2>2, <2>3
<1>4. /\ \A u \in Timer \ {t} : r[u] = s[u]
      /\ r[t].life = s[t].life /\ r[t].mode = s[t].mode
      /\ r[t].state = "TICKING" /\ r[t].linked
  BY <1>1, <1>2 DEF Blocks
<1> QED BY <1>3, <1>4 DEF Updates, r

LEMMA StopUpdates ==
    ASSUME NEW D, NEW s \in [Timer -> Blocks(D)], NEW t \in Timer
    PROVE  LET r == OsSwtmrStop(s, t)
           IN  Updates(s, r, t) /\ r[t].state = "CREATED" /\ ~r[t].linked
<1> DEFINE E == D \cup {0}
           r == OsSwtmrStop(s, t)
<1>1. s \in [Timer -> Blocks(E)] /\ 0 \in E
  BY MoreDues
<1>2. r = [s EXCEPT ![t].linked = FALSE, ![t].due = 0, ![t].state = "CREATED",
                    ![t].isAligned = FALSE]
  BY DEF OsSwtmrStop
<1> HIDE DEF E, r
<1>3. r \in [Timer -> Blocks(E)]
  <2> DEFINE b == [s[t] EXCEPT !.linked = FALSE, !.due = 0, !.state = "CREATED",
                               !.isAligned = FALSE]
  <2>1. s[t] \in Blocks(E) /\ "CREATED" \in State
    BY <1>1 DEF State
  <2>2. b \in Blocks(E)
    BY <1>1, <2>1 DEF Blocks
  <2>3. r = [s EXCEPT ![t] = b]
    BY <1>1, <1>2
  <2> QED BY <1>1, <2>2, <2>3
<1>4. /\ \A u \in Timer \ {t} : r[u] = s[u]
      /\ r[t].life = s[t].life /\ r[t].mode = s[t].mode
      /\ r[t].state = "CREATED" /\ ~r[t].linked
  BY <1>1, <1>2 DEF Blocks
<1> QED BY <1>3, <1>4 DEF Updates, r

LEMMA UpdatesTrans ==
    ASSUME NEW s, NEW m, NEW r, NEW t \in Timer, Updates(s, m, t), Updates(m, r, t)
    PROVE  Updates(s, r, t)
BY DEF Updates

-----------------------------------------------------------------------------
(* The API. *)

\* A call that leaves t in use, and the lists and queues as they are.
LEMMA UpdateInv ==
    ASSUME SwtmrInv, NEW t \in Timer, Updates(swtmr, swtmr', t),
           swtmr[t].state # "UNUSED", swtmr'[t].state # "UNUSED",
           swtmr'[t].linked => swtmr'[t].state = "TICKING",
           swtmr[t].mode = "ONCE" /\ Expected(t) => ~swtmr'[t].linked,
           UNCHANGED <<freeTimers, handlers, hand>>
    PROVE  SwtmrInv'
<1>1. \A u \in Timer : Expected(u)' <=> Expected(u)
  BY DEF Updates, Expected, ItemOf
<1>2. QueueType'
  BY DEF SwtmrInv, QueueType
<1>3. NoFreeTimerTicks'
  BY DEF SwtmrInv, NoFreeTimerTicks, Updates
<1>4. OnceIsOff'
  BY <1>1 DEF SwtmrInv, OnceIsOff, Updates
<1> QED BY <1>2, <1>3, <1>4 DEF SwtmrInv, Updates

LEMMA StartEffect ==
    ASSUME SwtmrInv, NEW t \in Timer, SwtmrStart(t)
    PROVE  Updates(swtmr, swtmr', t) /\ swtmr'[t].state = "TICKING" /\ swtmr'[t].linked
<1> DEFINE m == [swtmr EXCEPT ![t].canAlign =
                    @ \/ (swtmr[t].insensitive /\ swtmr[t].mode = "PERIOD")]
           s == IF swtmr[t].state = "TICKING" THEN OsSwtmrStop(m, t) ELSE m
<1>1. PICK D : swtmr \in [Timer -> Blocks(D)]
  BY DEF SwtmrInv
<1>2. m \in [Timer -> Blocks(D)]
  BY <1>1 DEF Blocks
<1>3. Updates(swtmr, m, t)
  <2>1. /\ \A u \in Timer \ {t} : m[u] = swtmr[u]
        /\ m[t].life = swtmr[t].life /\ m[t].mode = swtmr[t].mode
    BY <1>1 DEF Blocks
  <2> QED BY <1>2, <2>1 DEF Updates
<1> HIDE DEF m
<1>4. Updates(swtmr, s, t)
  BY <1>2, <1>3, StopUpdates, UpdatesTrans
<1>5. PICK E : s \in [Timer -> Blocks(E)]
  BY <1>4 DEF Updates
<1>6. swtmr' = OsSwtmrStart(s, t, 0)
  BY DEF SwtmrStart, m
<1> HIDE DEF s
<1>7. Updates(s, swtmr', t) /\ swtmr'[t].state = "TICKING" /\ swtmr'[t].linked
  BY <1>5, <1>6, StartUpdates
<1> QED BY <1>4, <1>7, UpdatesTrans

LEMMA StartInv ==
    ASSUME SwtmrInv, ~RestartExpired, NEW t \in Timer, SwtmrStart(t)
    PROVE  SwtmrInv'
BY StartEffect, UpdateInv DEF SwtmrStart

LEMMA StopInv ==
    ASSUME SwtmrInv, NEW t \in Timer, SwtmrStop(t)
    PROVE  SwtmrInv'
<1>1. PICK D : swtmr \in [Timer -> Blocks(D)]
  BY DEF SwtmrInv
<1>2. Updates(swtmr, swtmr', t) /\ swtmr'[t].state = "CREATED" /\ ~swtmr'[t].linked
  BY <1>1, StopUpdates DEF SwtmrStop
<1> QED BY <1>2, UpdateInv DEF SwtmrStop

LEMMA CreateEffect ==
    ASSUME SwtmrInv, NEW m \in Mode, NEW n \in Interval, NEW b \in BOOLEAN,
           SwtmrCreate(m, n, b)
    PROVE  \E t \in Timer :
              /\ \E D : swtmr' \in [Timer -> Blocks(D)]
              /\ \A u \in Timer \ {t} : swtmr'[u] = swtmr[u]
              /\ swtmr'[t].life = swtmr[t].life
              /\ swtmr'[t].state = "CREATED" /\ ~swtmr'[t].linked /\ ~Expected(t)
              /\ freeTimers' \in Seq(Timer) /\ IsInjective(freeTimers') /\ ~Contains(freeTimers', t)
              /\ \A z \in Timer \ {t} : Contains(freeTimers', z) <=> Contains(freeTimers, z)
<1> DEFINE t == Head(freeTimers)
           q == Tail(freeTimers)
<1>1. PICK D : swtmr \in [Timer -> Blocks(D)]
  BY DEF SwtmrInv
<1>2. /\ t \in Timer /\ Contains(freeTimers, t)
      /\ q \in Seq(Timer) /\ IsInjective(q) /\ ~Contains(q, t)
      /\ \A z \in Timer \ {t} : Contains(q, z) <=> Contains(freeTimers, z)
  BY TakeFirst DEF SwtmrInv, QueueType, NoFreeTimerTicks, SwtmrCreate
<1>3. /\ swtmr' = [swtmr EXCEPT ![t].state = "CREATED", ![t].mode = m, ![t].interval = n,
                                ![t].insensitive = b, ![t].due = 0]
      /\ freeTimers' = q /\ UNCHANGED <<handlers, hand>>
  BY DEF SwtmrCreate
<1> HIDE DEF t, q
<1>4. swtmr' \in [Timer -> Blocks(D \cup {0})]
  <2> DEFINE c == [swtmr[t] EXCEPT !.state = "CREATED", !.mode = m, !.interval = n,
                                   !.insensitive = b, !.due = 0]
  <2>1. swtmr \in [Timer -> Blocks(D \cup {0})]
    BY <1>1, MoreDues
  <2>2. c \in Blocks(D \cup {0})
    BY <1>2, <2>1 DEF Blocks, State
  <2>3. swtmr' = [swtmr EXCEPT ![t] = c]
    BY <1>2, <1>3, <2>1
  <2> QED BY <2>1, <2>2, <2>3
<1>5. /\ \A u \in Timer \ {t} : swtmr'[u] = swtmr[u]
      /\ swtmr'[t].life = swtmr[t].life
      /\ swtmr'[t].state = "CREATED" /\ ~swtmr'[t].linked
  <2>1. ~swtmr[t].linked
    BY <1>1, <1>2 DEF SwtmrInv, NoFreeTimerTicks, Blocks
  <2> QED BY <1>1, <1>2, <1>3, <2>1 DEF Blocks
<1>6. ~Expected(t)
  BY <1>2 DEF SwtmrInv, OnceIsOff, NoFreeTimerTicks
<1> QED BY <1>2, <1>3, <1>4, <1>5, <1>6

LEMMA CreateInv ==
    ASSUME SwtmrInv, NEW m \in Mode, NEW n \in Interval, NEW b \in BOOLEAN,
           SwtmrCreate(m, n, b)
    PROVE  SwtmrInv'
<1>1. PICK t \in Timer :
         /\ \E D : swtmr' \in [Timer -> Blocks(D)]
         /\ \A u \in Timer \ {t} : swtmr'[u] = swtmr[u]
         /\ swtmr'[t].life = swtmr[t].life
         /\ swtmr'[t].state = "CREATED" /\ ~swtmr'[t].linked /\ ~Expected(t)
         /\ freeTimers' \in Seq(Timer) /\ IsInjective(freeTimers') /\ ~Contains(freeTimers', t)
         /\ \A z \in Timer \ {t} : Contains(freeTimers', z) <=> Contains(freeTimers, z)
  BY CreateEffect
<1>2. UNCHANGED <<handlers, hand>>
  BY DEF SwtmrCreate
<1>3. \A u \in Timer : Expected(u)' <=> Expected(u)
  BY <1>1, <1>2 DEF Expected, ItemOf
<1>4. QueueType'
  BY <1>1, <1>2 DEF SwtmrInv, QueueType
<1>5. NoFreeTimerTicks'
  BY <1>1 DEF SwtmrInv, NoFreeTimerTicks
<1>6. OnceIsOff'
  BY <1>1, <1>3 DEF SwtmrInv, OnceIsOff
<1> QED BY <1>1, <1>4, <1>5, <1>6 DEF SwtmrInv

LEMMA DeleteEffect ==
    ASSUME SwtmrInv, NEW t \in Timer, NEW s, Updates(swtmr, s, t), ~s[t].linked,
           OsSwtmrDelete(s, t)
    PROVE  /\ \E D : swtmr' \in [Timer -> Blocks(D)]
           /\ \A u \in Timer \ {t} : swtmr'[u] = swtmr[u]
           /\ swtmr'[t].state = "UNUSED" /\ ~swtmr'[t].linked /\ ~Expected(t)'
<1>1. PICK D : s \in [Timer -> Blocks(D)]
  BY DEF Updates
<1>2. /\ swtmr' = [s EXCEPT ![t].life = NextLife(t), ![t].state = "UNUSED",
                            ![t].mode = "ONCE", ![t].interval = 0, ![t].insensitive = FALSE,
                            ![t].canAlign = FALSE, ![t].isAligned = FALSE]
      /\ freeTimers' = <<t>> \o freeTimers /\ FreshId(t)
  BY DEF OsSwtmrDelete
<1>3. NextLife(t) \in 0 .. Lives - 1
  <2>1. swtmr[t].life \in 0 .. Lives - 1
    BY DEF SwtmrInv, Blocks
  <2> QED BY <2>1, SwtmrAssumption DEF NextLife
<1>4. swtmr' \in [Timer -> Blocks(D)]
  <2> DEFINE c == [s[t] EXCEPT !.life = NextLife(t), !.state = "UNUSED", !.mode = "ONCE",
                               !.interval = 0, !.insensitive = FALSE, !.canAlign = FALSE,
                               !.isAligned = FALSE]
  <2>1. c \in Blocks(D)
    BY <1>1, <1>3 DEF Blocks, State, Mode
  <2>2. swtmr' = [s EXCEPT ![t] = c]
    BY <1>1, <1>2
  <2> QED BY <1>1, <2>1, <2>2
<1>5. /\ \A u \in Timer \ {t} : swtmr'[u] = swtmr[u]
      /\ swtmr'[t].life = NextLife(t)
      /\ swtmr'[t].state = "UNUSED" /\ ~swtmr'[t].linked
  BY <1>1, <1>2 DEF Blocks, Updates
<1>6. ~Expected(t)'
  BY <1>2, <1>5 DEF FreshId, Expected, ItemOf
<1> QED BY <1>4, <1>5, <1>6

\* Deletion of a control block that is off the sort link, while items may leave the queue.
LEMMA DeleteBlockInv ==
    ASSUME SwtmrInv, NEW t \in Timer, NEW s, Updates(swtmr, s, t), ~s[t].linked,
           swtmr[t].state # "UNUSED", OsSwtmrDelete(s, t),
           ToSet(handlers') \cup ToSet(hand') \subseteq ToSet(handlers) \cup ToSet(hand),
           handlers' \in Seq(Item), hand' = <<>> \/ \E item \in Item : hand' = <<item>>
    PROVE  SwtmrInv'
<1>1. /\ \E D : swtmr' \in [Timer -> Blocks(D)]
      /\ \A u \in Timer \ {t} : swtmr'[u] = swtmr[u]
      /\ swtmr'[t].state = "UNUSED" /\ ~swtmr'[t].linked /\ ~Expected(t)'
  BY DeleteEffect
<1>2. freeTimers' = <<t>> \o freeTimers
  BY DEF OsSwtmrDelete
<1>3. \A u \in Timer \ {t} : Expected(u)' => Expected(u)
  BY <1>1 DEF Expected, ItemOf
<1>4. freeTimers \in Seq(Timer) /\ IsInjective(freeTimers) /\ ~Contains(freeTimers, t)
  BY DEF SwtmrInv, QueueType, NoFreeTimerTicks
<1>5. /\ freeTimers' \in Seq(Timer) /\ IsInjective(freeTimers') /\ Contains(freeTimers', t)
      /\ \A z \in Timer \ {t} : Contains(freeTimers', z) <=> Contains(freeTimers, z)
  BY <1>2, <1>4, PutFirst
<1>6. QueueType'
  BY <1>5 DEF QueueType
<1>7. NoFreeTimerTicks'
  BY <1>1, <1>5 DEF SwtmrInv, NoFreeTimerTicks
<1>8. OnceIsOff'
  BY <1>1, <1>3 DEF SwtmrInv, OnceIsOff
<1> QED BY <1>1, <1>6, <1>7, <1>8 DEF SwtmrInv

LEMMA StoppedEffect ==
    ASSUME SwtmrInv, NEW t \in Timer
    PROVE  LET s == IF swtmr[t].state = "TICKING" THEN OsSwtmrStop(swtmr, t) ELSE swtmr
           IN  Updates(swtmr, s, t) /\ ~s[t].linked
<1>1. PICK D : swtmr \in [Timer -> Blocks(D)]
  BY DEF SwtmrInv
<1>2. CASE swtmr[t].state = "TICKING"
  BY <1>1, <1>2, StopUpdates
<1>3. CASE swtmr[t].state # "TICKING"
  BY <1>1, <1>3 DEF SwtmrInv, NoFreeTimerTicks, Updates
<1> QED BY <1>2, <1>3

LEMMA DeleteInv ==
    ASSUME SwtmrInv, NEW t \in Timer, SwtmrDelete(t)
    PROVE  SwtmrInv'
<1> DEFINE s == IF swtmr[t].state = "TICKING" THEN OsSwtmrStop(swtmr, t) ELSE swtmr
<1>1. Updates(swtmr, s, t) /\ ~s[t].linked
  BY StoppedEffect
<1>2. OsSwtmrDelete(s, t) /\ swtmr[t].state # "UNUSED" /\ UNCHANGED <<handlers, hand>>
  BY DEF SwtmrDelete
<1> HIDE DEF s
<1> QED BY <1>1, <1>2, DeleteBlockInv DEF SwtmrInv, QueueType

-----------------------------------------------------------------------------
(* Time, the scan and the timer task. *)

LEMMA TimePassesEffect ==
    ASSUME SwtmrInv, TimePasses
    PROVE  /\ \E D : swtmr' \in [Timer -> Blocks(D)]
           /\ \A t \in Timer :
                 /\ swtmr'[t].state = swtmr[t].state /\ swtmr'[t].life = swtmr[t].life
                 /\ swtmr'[t].mode = swtmr[t].mode /\ swtmr'[t].linked = swtmr[t].linked
<1>1. PICK D : swtmr \in [Timer -> Blocks(D)]
  BY DEF SwtmrInv
<1> DEFINE E == D \cup {swtmr[t].due - 1 : t \in Timer}
<1>2. \A t \in Timer : swtmr'[t] \in Blocks(E)
  <2> SUFFICES ASSUME NEW t \in Timer PROVE swtmr'[t] \in Blocks(E)
    OBVIOUS
  <2>1. swtmr[t] \in Blocks(E)
    BY <1>1 DEF Blocks
  <2>2. swtmr[t].due - 1 \in E
    OBVIOUS
  <2>3. swtmr'[t] = swtmr[t] \/ swtmr'[t] = [swtmr[t] EXCEPT !.due = swtmr[t].due - 1]
    BY DEF TimePasses
  <2> HIDE DEF E
  <2> QED BY <2>1, <2>2, <2>3 DEF Blocks
<1>3. swtmr' \in [Timer -> Blocks(E)]
  BY <1>2 DEF TimePasses
<1>4. \A t \in Timer : /\ swtmr'[t].state = swtmr[t].state /\ swtmr'[t].life = swtmr[t].life
                       /\ swtmr'[t].mode = swtmr[t].mode
                       /\ swtmr'[t].linked = swtmr[t].linked
  BY <1>1 DEF TimePasses, Blocks
<1> QED BY <1>3, <1>4

LEMMA TimePassesInv ==
    ASSUME SwtmrInv, TimePasses
    PROVE  SwtmrInv'
<1>1. /\ \E D : swtmr' \in [Timer -> Blocks(D)]
      /\ \A t \in Timer :
            /\ swtmr'[t].state = swtmr[t].state /\ swtmr'[t].life = swtmr[t].life
            /\ swtmr'[t].mode = swtmr[t].mode /\ swtmr'[t].linked = swtmr[t].linked
  BY TimePassesEffect
<1>2. \A t \in Timer : Expected(t)' <=> Expected(t)
  BY <1>1 DEF TimePasses, Expected, ItemOf
<1>3. QueueType' /\ NoFreeTimerTicks'
  BY <1>1 DEF TimePasses, SwtmrInv, QueueType, NoFreeTimerTicks
<1>4. OnceIsOff'
  BY <1>1, <1>2 DEF SwtmrInv, OnceIsOff
<1> QED BY <1>1, <1>3, <1>4 DEF SwtmrInv

LEMMA TimeoutEffect ==
    ASSUME SwtmrInv, NEW t \in Timer, OsSwtmrTimeoutHandle(t)
    PROVE  /\ swtmr[t].state = "TICKING"
           /\ Updates(swtmr, swtmr', t) /\ swtmr'[t].state # "UNUSED"
           /\ swtmr'[t].linked => swtmr'[t].state = "TICKING" /\ swtmr'[t].mode # "ONCE"
           /\ swtmr'[t].state = "TICKING" /\ ~swtmr'[t].linked => swtmr'[t].mode = "ONCE"
<1> DEFINE s == [swtmr EXCEPT ![t].linked = FALSE, ![t].due = 0]
<1>1. PICK D : swtmr \in [Timer -> Blocks(D)]
  BY DEF SwtmrInv
<1>2. s \in [Timer -> Blocks(D \cup {0})]
  <2>1. swtmr \in [Timer -> Blocks(D \cup {0})]
    BY <1>1, MoreDues
  <2>2. [swtmr[t] EXCEPT !.linked = FALSE, !.due = 0] \in Blocks(D \cup {0})
    BY <2>1 DEF Blocks
  <2>3. s = [swtmr EXCEPT ![t] = [swtmr[t] EXCEPT !.linked = FALSE, !.due = 0]]
    BY <2>1
  <2> QED BY <2>1, <2>2, <2>3
<1>3. /\ \A u \in Timer \ {t} : s[u] = swtmr[u]
      /\ s[t].life = swtmr[t].life /\ s[t].mode = swtmr[t].mode
      /\ s[t].state = swtmr[t].state /\ ~s[t].linked
  BY <1>1 DEF Blocks
<1>4. Updates(swtmr, s, t)
  BY <1>2, <1>3 DEF Updates
<1>5. swtmr' = AfterTimeout(s, t) /\ UNCHANGED <<freeTimers, hand>>
  BY DEF OsSwtmrTimeoutHandle
<1>6. swtmr[t].state = "TICKING" /\ swtmr[t].mode \in Mode
  BY <1>1 DEF OsSwtmrTimeoutHandle, Due, SwtmrInv, NoFreeTimerTicks, Blocks
<1> HIDE DEF s
<1>7. /\ Updates(swtmr, swtmr', t) /\ swtmr'[t].state # "UNUSED"
      /\ swtmr'[t].linked => swtmr'[t].state = "TICKING" /\ swtmr'[t].mode # "ONCE"
      /\ swtmr'[t].state = "TICKING" /\ ~swtmr'[t].linked => swtmr'[t].mode = "ONCE"
  <2>1. CASE swtmr[t].mode = "PERIOD"
    <3>1. swtmr' = OsSwtmrStart(s, t, swtmr[t].due)
      BY <1>5, <2>1 DEF AfterTimeout
    <3>2. Updates(s, swtmr', t) /\ swtmr'[t].state = "TICKING" /\ swtmr'[t].linked
      BY <1>2, <3>1, StartUpdates
    <3>3. Updates(swtmr, swtmr', t)
      BY <1>4, <3>2, UpdatesTrans
    <3> QED BY <2>1, <3>2, <3>3 DEF Updates
  <2>2. CASE swtmr[t].mode = "NO_SELFDELETE"
    <3>1. swtmr' = [s EXCEPT ![t].state = "CREATED"]
      BY <1>5, <2>2 DEF AfterTimeout
    <3>2. swtmr' \in [Timer -> Blocks(D \cup {0})]
      <4>1. [s[t] EXCEPT !.state = "CREATED"] \in Blocks(D \cup {0})
        BY <1>2 DEF Blocks, State
      <4>2. swtmr' = [s EXCEPT ![t] = [s[t] EXCEPT !.state = "CREATED"]]
        BY <1>2, <3>1
      <4> QED BY <1>2, <4>1, <4>2
    <3>3. /\ \A u \in Timer \ {t} : swtmr'[u] = s[u]
          /\ swtmr'[t].life = s[t].life /\ swtmr'[t].mode = s[t].mode
          /\ swtmr'[t].state = "CREATED" /\ ~swtmr'[t].linked
      BY <1>2, <1>3, <3>1 DEF Blocks
    <3> QED BY <1>3, <3>2, <3>3 DEF Updates
  <2>3. CASE swtmr[t].mode = "ONCE"
    BY <1>3, <1>4, <1>5, <1>6, <2>3 DEF AfterTimeout
  <2> QED BY <1>6, <2>1, <2>2, <2>3 DEF Mode
<1> QED BY <1>6, <1>7

LEMMA TimeoutInv ==
    ASSUME SwtmrInv, NEW t \in Timer, OsSwtmrTimeoutHandle(t)
    PROVE  SwtmrInv'
<1>1. PICK D : swtmr \in [Timer -> Blocks(D)]
  BY DEF SwtmrInv
<1>2. /\ swtmr[t].state = "TICKING"
      /\ Updates(swtmr, swtmr', t) /\ swtmr'[t].state # "UNUSED"
      /\ swtmr'[t].linked => swtmr'[t].state = "TICKING" /\ swtmr'[t].mode # "ONCE"
  BY TimeoutEffect
<1>3. UNCHANGED <<freeTimers, hand>>
  BY DEF OsSwtmrTimeoutHandle
<1>4. /\ handlers' \in Seq(Item)
      /\ ToSet(handlers') \subseteq ToSet(handlers) \cup {ItemOf(t)}
  <2>1. ItemOf(t) \in Item
    BY <1>1 DEF ItemOf, Item, Blocks
  <2>2. handlers \in Seq(Item)
    BY DEF SwtmrInv, QueueType
  <2>3. handlers' = handlers \/ handlers' = Append(handlers, ItemOf(t))
    BY DEF OsSwtmrTimeoutHandle
  <2>4. \A i \in DOMAIN Append(handlers, ItemOf(t)) :
           \/ i \in DOMAIN handlers /\ Append(handlers, ItemOf(t))[i] = handlers[i]
           \/ Append(handlers, ItemOf(t))[i] = ItemOf(t)
    BY <2>1, <2>2
  <2>5. /\ Append(handlers, ItemOf(t)) \in Seq(Item)
        /\ ToSet(Append(handlers, ItemOf(t))) \subseteq ToSet(handlers) \cup {ItemOf(t)}
    BY <2>1, <2>2, <2>4 DEF ToSet
  <2> QED BY <2>2, <2>3, <2>5
<1>5. \A u \in Timer \ {t} : Expected(u)' => Expected(u)
  <2>1. \A u \in Timer \ {t} : ItemOf(u)' = ItemOf(u) /\ ItemOf(u) # ItemOf(t)
    BY <1>2 DEF Updates, ItemOf
  <2> QED BY <1>3, <1>4, <2>1 DEF Expected
<1>6. QueueType'
  BY <1>3, <1>4 DEF SwtmrInv, QueueType
<1>7. NoFreeTimerTicks'
  BY <1>3, <1>2 DEF SwtmrInv, NoFreeTimerTicks, Updates
<1>8. OnceIsOff'
  BY <1>2, <1>5 DEF SwtmrInv, OnceIsOff, Updates
<1> QED BY <1>2, <1>6, <1>7, <1>8 DEF SwtmrInv, Updates

LEMMA ReadsInv ==
    ASSUME SwtmrInv, TimerTaskReads
    PROVE  SwtmrInv'
<1>1. /\ handlers \in Seq(Item) /\ handlers # <<>> /\ hand = <<>>
      /\ hand' = <<Head(handlers)>> /\ handlers' = Tail(handlers)
      /\ UNCHANGED <<swtmr, freeTimers>>
  BY DEF TimerTaskReads, SwtmrInv, QueueType
<1>2. handlers' \in Seq(Item) /\ Head(handlers) \in Item
  BY <1>1
<1>3. ToSet(handlers') \subseteq ToSet(handlers)
  <2>1. \A i \in DOMAIN handlers' : i + 1 \in DOMAIN handlers /\ handlers'[i] = handlers[i + 1]
    BY <1>1
  <2> QED BY <2>1 DEF ToSet
<1>4. ToSet(hand') \subseteq ToSet(handlers)
  <2>1. 1 \in DOMAIN handlers /\ Head(handlers) = handlers[1]
    BY <1>1
  <2> QED BY <1>1, <2>1 DEF ToSet
<1>5. \A u \in Timer : Expected(u)' => Expected(u)
  BY <1>1, <1>3, <1>4 DEF Expected, ItemOf
<1>6. QueueType' /\ NoFreeTimerTicks'
  BY <1>1, <1>2 DEF SwtmrInv, QueueType, NoFreeTimerTicks
<1>7. OnceIsOff'
  BY <1>1, <1>5 DEF SwtmrInv, OnceIsOff
<1> QED BY <1>1, <1>6, <1>7 DEF SwtmrInv

LEMMA HandlesInv ==
    ASSUME SwtmrInv, TimerTaskHandles
    PROVE  SwtmrInv'
<1> DEFINE t == Head(hand).timer
<1>1. PICK item \in Item : hand = <<item>>
  BY DEF TimerTaskHandles, SwtmrInv, QueueType
<1>2. t \in Timer /\ Head(hand) = item /\ item \in ToSet(hand) /\ t = item.timer
  BY <1>1 DEF Item, ToSet
<1>3. hand' = <<>> /\ handlers' = handlers /\ ToSet(hand') = {}
  BY DEF TimerTaskHandles, ToSet
<1>4. CASE IsCurrent(item) /\ swtmr[t].mode = "ONCE"
  <2>1. OsSwtmrDelete(swtmr, t)
    BY <1>2, <1>4 DEF TimerTaskHandles
  <2>2. Expected(t)
    BY <1>2, <1>4 DEF IsCurrent, Expected
  <2>3. swtmr[t].state # "UNUSED" /\ ~swtmr[t].linked
    BY <1>2, <1>4, <2>2 DEF SwtmrInv, OnceIsOff
  <2>4. Updates(swtmr, swtmr, t)
    BY DEF SwtmrInv, Updates
  <2>5. handlers' \in Seq(Item)
    BY <1>3 DEF SwtmrInv, QueueType
  <2> HIDE DEF t
  <2> QED BY <1>2, <1>3, <2>1, <2>3, <2>4, <2>5, DeleteBlockInv
<1>5. CASE ~(IsCurrent(item) /\ swtmr[t].mode = "ONCE")
  <2>1. UNCHANGED <<swtmr, freeTimers>>
    BY <1>2, <1>5 DEF TimerTaskHandles
  <2>2. \A u \in Timer : Expected(u)' => Expected(u)
    BY <1>3, <2>1 DEF Expected, ItemOf
  <2>3. QueueType' /\ NoFreeTimerTicks'
    BY <1>3, <2>1 DEF SwtmrInv, QueueType, NoFreeTimerTicks
  <2>4. OnceIsOff'
    BY <2>1, <2>2 DEF SwtmrInv, OnceIsOff
  <2> QED BY <2>1, <2>3, <2>4 DEF SwtmrInv
<1> QED BY <1>4, <1>5

LEMMA SameInv ==
    ASSUME SwtmrInv, UNCHANGED <<swtmr, freeTimers, handlers, hand>>
    PROVE  SwtmrInv'
BY DEF SwtmrInv, QueueType, NoFreeTimerTicks, OnceIsOff, Expected, ItemOf

LEMMA SwtmrNextInv ==
    ASSUME ~RestartExpired, SwtmrInv, [SwtmrNext]_swtmrVars
    PROVE  SwtmrInv'
<1>1. ASSUME NEW m \in Mode, NEW n \in Interval, NEW b \in BOOLEAN, SwtmrCreate(m, n, b)
      PROVE  SwtmrInv'
  BY <1>1, CreateInv
<1>2. ASSUME NEW t \in Timer,
             SwtmrStart(t) \/ SwtmrStop(t) \/ SwtmrDelete(t) \/ OsSwtmrTimeoutHandle(t)
      PROVE  SwtmrInv'
  BY <1>2, StartInv, StopInv, DeleteInv, TimeoutInv
<1>3. CASE TimePasses
  BY <1>3, TimePassesInv
<1>4. CASE ScanStart \/ ScanEnd
  BY <1>4, SameInv DEF ScanStart, ScanEnd
<1>5. CASE TimerTaskReads
  BY <1>5, ReadsInv
<1>6. CASE TimerTaskHandles
  BY <1>6, HandlesInv
<1>7. CASE UNCHANGED swtmrVars
  BY <1>7, SameInv DEF swtmrVars
<1> QED BY <1>1, <1>2, <1>3, <1>4, <1>5, <1>6, <1>7 DEF SwtmrNext

\* The timer task deletes no timer that ticks: if nobody starts a one-off timer again
\* whose handler is due, no control block is ever on the free list and on the sort link
\* (los_swtmr.c:94-95, OsSwtmrDelete in the timer task).
THEOREM FreeTimersAreOff ==
    ASSUME ~RestartExpired
    PROVE  SwtmrSpec => []NoFreeTimerTicks
<1>1. SwtmrInv /\ [SwtmrNext]_swtmrVars => SwtmrInv'
  BY SwtmrNextInv
<1>2. SwtmrInv => NoFreeTimerTicks
  BY DEF SwtmrInv
<1> QED BY SwtmrInitInv, <1>1, <1>2, PTL DEF SwtmrSpec

-----------------------------------------------------------------------------
(* How often an item is in a queue. *)

Places(q, x) == {i \in DOMAIN q : q[i] = x}
Copies(q, x) == Cardinality(Places(q, x))

LEMMA CopiesType ==
    ASSUME NEW S, NEW q \in Seq(S), NEW x
    PROVE  IsFiniteSet(Places(q, x)) /\ Copies(q, x) \in Nat
<1>1. DOMAIN q = 1 .. Len(q) /\ 1 \in Int /\ Len(q) \in Int
  OBVIOUS
<1>2. IsFiniteSet(1 .. Len(q))
  BY <1>1, FS_Interval
<1>3. Places(q, x) \in SUBSET (1 .. Len(q))
  BY <1>1 DEF Places
<1>4. IsFiniteSet(Places(q, x))
  BY <1>2, <1>3, FS_Subset
<1> QED BY <1>4, FS_CardinalityType DEF Copies

LEMMA CopiesNone ==
    ASSUME NEW S, NEW q \in Seq(S), NEW x
    PROVE  Copies(q, x) = 0 <=> x \notin ToSet(q)
<1>1. Places(q, x) = {} <=> x \notin ToSet(q)
  BY DEF Places, ToSet
<1> QED BY <1>1, CopiesType, FS_EmptySet DEF Copies

LEMMA CopiesAppend ==
    ASSUME NEW S, NEW q \in Seq(S), NEW y \in S, NEW x
    PROVE  Copies(Append(q, y), x) = Copies(q, x) + (IF y = x THEN 1 ELSE 0)
<1> DEFINE r == Append(q, y)
           n == Len(q) + 1
<1>1. /\ DOMAIN r = DOMAIN q \cup {n} /\ n \notin DOMAIN q
      /\ \A i \in DOMAIN q : r[i] = q[i]
      /\ r[n] = y
  OBVIOUS
<1>2. IsFiniteSet(Places(q, x)) /\ Copies(q, x) \in Nat /\ n \notin Places(q, x)
  BY <1>1, CopiesType DEF Places
<1> HIDE DEF r, n
<1>3. CASE y = x
  <2>1. Places(r, x) = Places(q, x) \cup {n}
    BY <1>1, <1>3 DEF Places
  <2>2. Copies(r, x) = Copies(q, x) + 1
    BY <1>2, <2>1, FS_AddElement DEF Copies
  <2> QED BY <1>3, <2>2 DEF r
<1>4. CASE y # x
  <2>1. Places(r, x) = Places(q, x)
    BY <1>1, <1>4 DEF Places
  <2> QED BY <1>2, <1>4, <2>1 DEF Copies, r
<1> QED BY <1>3, <1>4

LEMMA CopiesOne ==
    ASSUME NEW y, NEW x
    PROVE  Copies(<<y>>, x) = IF y = x THEN 1 ELSE 0
<1>1. Places(<<y>>, x) = IF y = x THEN {1} ELSE {}
  BY DEF Places
<1> QED BY <1>1, FS_Singleton, FS_EmptySet DEF Copies

LEMMA CopiesFirst ==
    ASSUME NEW S, NEW q \in Seq(S), q # <<>>, NEW x
    PROVE  Copies(q, x) = Copies(Tail(q), x) + (IF Head(q) = x THEN 1 ELSE 0)
<1> DEFINE r == Tail(q)
           P == {i + 1 : i \in Places(r, x)}
           f == [i \in Places(r, x) |-> i + 1]
<1>1. /\ r \in Seq(S) /\ DOMAIN r = 1 .. Len(q) - 1
      /\ \A i \in DOMAIN r : i + 1 \in DOMAIN q /\ r[i] = q[i + 1]
      /\ \A j \in DOMAIN q : j # 1 => j - 1 \in DOMAIN r /\ (j - 1) + 1 = j
      /\ Head(q) = q[1] /\ 1 \in DOMAIN q
  OBVIOUS
<1>2. IsFiniteSet(Places(r, x)) /\ Copies(r, x) \in Nat
  BY <1>1, CopiesType
<1>3. IsFiniteSet(P) /\ Cardinality(P) = Copies(r, x)
  <2>1. \A i \in Places(r, x) : i \in Int
    BY <1>1 DEF Places
  <2>2. f \in Bijection(Places(r, x), P)
    BY <2>1 DEF Bijection, Injection, Surjection, IsInjective
  <2>3. ExistsBijection(Places(r, x), P)
    BY <2>2 DEF ExistsBijection
  <2> HIDE DEF P, f
  <2> QED BY <1>2, <2>3, FS_Bijection DEF Copies
<1>4. 1 \notin P
  BY <1>1 DEF Places
<1>5. Places(q, x) = P \cup (IF q[1] = x THEN {1} ELSE {})
  <2>1. \A j \in DOMAIN q : j # 1 => (q[j] = x <=> j \in P)
    <3> SUFFICES ASSUME NEW j \in DOMAIN q, j # 1 PROVE q[j] = x <=> j \in P
      OBVIOUS
    <3>1. j - 1 \in DOMAIN r /\ r[j - 1] = q[j] /\ j = (j - 1) + 1
      BY <1>1
    <3>2. q[j] = x => j \in P
      BY <3>1 DEF Places
    <3>3. j \in P => q[j] = x
      BY <1>1 DEF Places
    <3> QED BY <3>2, <3>3
  <2>2. \A j \in P : j \in DOMAIN q
    BY <1>1 DEF Places
  <2> HIDE DEF P
  <2> QED BY <1>1, <1>4, <2>1, <2>2 DEF Places
<1> HIDE DEF P, r
<1>6. CASE q[1] = x
  <2>1. Places(q, x) = P \cup {1}
    BY <1>5, <1>6
  <2>2. Copies(q, x) = Copies(r, x) + 1
    BY <1>3, <1>4, <2>1, FS_AddElement DEF Copies
  <2> QED BY <1>1, <1>6, <2>2 DEF r
<1>7. CASE q[1] # x
  <2>1. Places(q, x) = P
    BY <1>5, <1>7
  <2> QED BY <1>1, <1>2, <1>3, <1>7, <2>1 DEF Copies, r
<1> QED BY <1>6, <1>7

-----------------------------------------------------------------------------
(* What is on its way to the timer task. *)

Items(t) == Copies(handlers, ItemOf(t)) + Copies(hand, ItemOf(t))

\* What OnceExpiresOnce says of one timer.
Promised(t) ==
    /\ swtmr[t].state = "TICKING" /\ ~swtmr[t].linked =>
          swtmr[t].mode = "ONCE" /\ (Items(t) = 1 \/ t \in dropped)
    /\ swtmr[t].mode = "ONCE" /\ swtmr[t].linked => Items(t) = 0
    /\ swtmr[t].mode = "ONCE" => Items(t) <= 1

LEMMA OncePromised ==
    /\ OnceExpiresOnce <=> \A t \in Timer : Promised(t)
    /\ OnceExpiresOnce' <=> \A t \in Timer : Promised(t)'
BY DEF OnceExpiresOnce, Promised, Items, Copies, Places

LEMMA HandType ==
    ASSUME QueueType
    PROVE  hand \in Seq(Item)
<1>1. CASE hand = <<>>
  BY <1>1
<1>2. ASSUME NEW item \in Item, hand = <<item>> PROVE hand \in Seq(Item)
  BY <1>2
<1> QED BY <1>1, <1>2 DEF QueueType

LEMMA NoItems ==
    ASSUME QueueType, NEW t \in Timer
    PROVE  Items(t) \in Nat /\ (Items(t) = 0 <=> ~Expected(t))
<1>1. handlers \in Seq(Item) /\ hand \in Seq(Item)
  BY HandType DEF QueueType
<1>2. Copies(handlers, ItemOf(t)) \in Nat /\ Copies(hand, ItemOf(t)) \in Nat
  BY <1>1, CopiesType
<1>3. /\ Copies(handlers, ItemOf(t)) = 0 <=> ItemOf(t) \notin ToSet(handlers)
      /\ Copies(hand, ItemOf(t)) = 0 <=> ItemOf(t) \notin ToSet(hand)
  BY <1>1, CopiesNone
<1> QED BY <1>2, <1>3 DEF Items, Expected

LEMMA NoItemsNext ==
    ASSUME QueueType', NEW t \in Timer, ~Expected(t)'
    PROVE  Items(t)' = 0
<1>1. handlers' \in Seq(Item) /\ hand' \in Seq(Item)
  <2>1. ASSUME NEW item \in Item, hand' = <<item>> PROVE hand' \in Seq(Item)
    BY <2>1
  <2>2. hand' = <<>> => hand' \in Seq(Item)
    OBVIOUS
  <2> QED BY <2>1, <2>2 DEF QueueType
<1>2. ItemOf(t)' \notin ToSet(handlers') /\ ItemOf(t)' \notin ToSet(hand')
  BY DEF Expected
<1>3. Copies(handlers', ItemOf(t)') = 0 /\ Copies(hand', ItemOf(t)') = 0
  BY <1>1, <1>2, CopiesNone
<1> QED BY <1>3 DEF Items

\* A step that leaves a timer alone leaves what is promised of it.
LEMMA LeftAlone ==
    ASSUME NEW t \in Timer, Promised(t), swtmr'[t].state = swtmr[t].state,
           swtmr'[t].linked = swtmr[t].linked, swtmr'[t].mode = swtmr[t].mode,
           Items(t)' = Items(t), t \in dropped' <=> t \in dropped
    PROVE  Promised(t)'
BY DEF Promised

LEMMA SameItems ==
    ASSUME NEW t \in Timer, swtmr'[t].life = swtmr[t].life, UNCHANGED <<handlers, hand>>
    PROVE  Items(t)' = Items(t)
BY DEF Items, ItemOf

LEMMA StartOnce ==
    ASSUME SwtmrInv, ~RestartExpired, NEW t \in Timer, SwtmrStart(t), OnceExpiresOnce
    PROVE  OnceExpiresOnce'
<1>1. Updates(swtmr, swtmr', t) /\ swtmr'[t].state = "TICKING" /\ swtmr'[t].linked
  BY StartEffect
<1>2. UNCHANGED <<handlers, hand>> /\ dropped' = dropped \ {t}
  BY DEF SwtmrStart
<1>3. \A u \in Timer : Items(u)' = Items(u)
  BY <1>1, <1>2, SameItems DEF Updates
<1>4. swtmr[t].mode = "ONCE" => Items(t) = 0
  BY NoItems DEF SwtmrStart, SwtmrInv
<1>5. Promised(t)'
  BY <1>1, <1>3, <1>4 DEF Promised, Updates
<1>6. \A u \in Timer \ {t} : Promised(u)'
  BY <1>1, <1>2, <1>3, LeftAlone, OncePromised DEF Updates
<1>7. \A u \in Timer : Promised(u)'
  BY <1>5, <1>6
<1> QED BY <1>7, OncePromised

LEMMA StopOnce ==
    ASSUME SwtmrInv, NEW t \in Timer, SwtmrStop(t), OnceExpiresOnce
    PROVE  OnceExpiresOnce'
<1>1. Updates(swtmr, swtmr', t) /\ swtmr'[t].state = "CREATED" /\ ~swtmr'[t].linked
  BY StopUpdates DEF SwtmrInv, SwtmrStop
<1>2. UNCHANGED <<handlers, hand>> /\ dropped' = dropped \ {t}
  BY DEF SwtmrStop
<1>3. \A u \in Timer : Items(u)' = Items(u)
  BY <1>1, <1>2, SameItems DEF Updates
<1>4. Promised(t)'
  BY <1>1, <1>3, OncePromised DEF Promised, Updates
<1>5. \A u \in Timer \ {t} : Promised(u)'
  BY <1>1, <1>2, <1>3, LeftAlone, OncePromised DEF Updates
<1>6. \A u \in Timer : Promised(u)'
  BY <1>4, <1>5
<1> QED BY <1>6, OncePromised

LEMMA CreateOnce ==
    ASSUME SwtmrInv, NEW m \in Mode, NEW n \in Interval, NEW b \in BOOLEAN,
           SwtmrCreate(m, n, b), OnceExpiresOnce
    PROVE  OnceExpiresOnce'
<1>1. PICK t \in Timer :
         /\ \A u \in Timer \ {t} : swtmr'[u] = swtmr[u]
         /\ swtmr'[t].life = swtmr[t].life
         /\ swtmr'[t].state = "CREATED" /\ ~swtmr'[t].linked /\ ~Expected(t)
  BY CreateEffect
<1>2. UNCHANGED <<handlers, hand, dropped>>
  BY DEF SwtmrCreate
<1>3. \A u \in Timer : Items(u)' = Items(u)
  BY <1>1, <1>2, SameItems
<1>4. Items(t) = 0
  BY <1>1, NoItems DEF SwtmrInv
<1>5. Promised(t)'
  BY <1>1, <1>3, <1>4 DEF Promised
<1>6. \A u \in Timer \ {t} : Promised(u)'
  BY <1>1, <1>2, <1>3, LeftAlone, OncePromised
<1>7. \A u \in Timer : Promised(u)'
  BY <1>5, <1>6
<1> QED BY <1>7, OncePromised

\* Deletion of a control block; of the items only some of its own may leave the queue.
LEMMA DeleteBlockOnce ==
    ASSUME SwtmrInv, SwtmrInv', NEW t \in Timer, NEW s, Updates(swtmr, s, t), ~s[t].linked,
           OsSwtmrDelete(s, t), OnceExpiresOnce,
           \A u \in Timer \ {t} : swtmr'[u] = swtmr[u] => Items(u)' = Items(u)
    PROVE  OnceExpiresOnce'
<1>1. /\ \A u \in Timer \ {t} : swtmr'[u] = swtmr[u]
      /\ swtmr'[t].state = "UNUSED" /\ ~swtmr'[t].linked /\ ~Expected(t)'
  BY DeleteEffect
<1>2. dropped' = dropped \ {t}
  BY DEF OsSwtmrDelete
<1>3. Items(t)' = 0
  BY <1>1, NoItemsNext DEF SwtmrInv
<1>4. Promised(t)'
  BY <1>1, <1>3 DEF Promised
<1>5. \A u \in Timer \ {t} : Promised(u)'
  BY <1>1, <1>2, LeftAlone, OncePromised
<1>6. \A u \in Timer : Promised(u)'
  BY <1>4, <1>5
<1> QED BY <1>6, OncePromised

LEMMA DeleteOnce ==
    ASSUME SwtmrInv, SwtmrInv', NEW t \in Timer, SwtmrDelete(t), OnceExpiresOnce
    PROVE  OnceExpiresOnce'
<1> DEFINE s == IF swtmr[t].state = "TICKING" THEN OsSwtmrStop(swtmr, t) ELSE swtmr
<1>1. Updates(swtmr, s, t) /\ ~s[t].linked
  BY StoppedEffect
<1>2. OsSwtmrDelete(s, t) /\ UNCHANGED <<handlers, hand>>
  BY DEF SwtmrDelete
<1>3. \A u \in Timer \ {t} : swtmr'[u] = swtmr[u] => Items(u)' = Items(u)
  BY <1>2, SameItems
<1> HIDE DEF s
<1> QED BY <1>1, <1>2, <1>3, DeleteBlockOnce

LEMMA TimePassesOnce ==
    ASSUME SwtmrInv, TimePasses, OnceExpiresOnce
    PROVE  OnceExpiresOnce'
<1>1. \A t \in Timer : /\ swtmr'[t].state = swtmr[t].state /\ swtmr'[t].life = swtmr[t].life
                       /\ swtmr'[t].mode = swtmr[t].mode
                       /\ swtmr'[t].linked = swtmr[t].linked
  BY TimePassesEffect
<1>2. UNCHANGED <<handlers, hand, dropped>>
  BY DEF TimePasses
<1>3. \A t \in Timer : Promised(t)'
  BY <1>1, <1>2, SameItems, LeftAlone, OncePromised
<1> QED BY <1>3, OncePromised

LEMMA TimeoutOnce ==
    ASSUME SwtmrInv, NEW t \in Timer, OsSwtmrTimeoutHandle(t), OnceExpiresOnce
    PROVE  OnceExpiresOnce'
<1>1. /\ Updates(swtmr, swtmr', t)
      /\ swtmr'[t].state = "TICKING" /\ ~swtmr'[t].linked => swtmr'[t].mode = "ONCE"
      /\ swtmr'[t].mode = "ONCE" => ~swtmr'[t].linked
  BY TimeoutEffect
<1>2. /\ swtmr[t].linked /\ hand' = hand
      /\ \/ handlers' = Append(handlers, ItemOf(t)) /\ dropped' = dropped \ {t}
         \/ handlers' = handlers /\ dropped' = dropped \cup {t}
  BY DEF OsSwtmrTimeoutHandle, Due
<1>3. /\ handlers \in Seq(Item) /\ hand \in Seq(Item) /\ ItemOf(t) \in Item
      /\ \A u \in Timer : ItemOf(u)' = ItemOf(u) /\ (u # t => ItemOf(u) # ItemOf(t))
  <2>1. ItemOf(t) \in Item
    BY DEF SwtmrInv, ItemOf, Item, Blocks
  <2>2. \A u \in Timer : ItemOf(u)' = ItemOf(u) /\ (u # t => ItemOf(u) # ItemOf(t))
    BY <1>1 DEF Updates, ItemOf
  <2> QED BY <2>1, <2>2, HandType DEF SwtmrInv, QueueType
<1>4. \A u \in Timer \ {t} : Items(u)' = Items(u)
  <2> SUFFICES ASSUME NEW u \in Timer \ {t} PROVE Items(u)' = Items(u)
    OBVIOUS
  <2>1. Copies(handlers, ItemOf(u)) \in Nat
    BY <1>3, CopiesType
  <2>2. Copies(Append(handlers, ItemOf(t)), ItemOf(u)) = Copies(handlers, ItemOf(u))
    BY <1>3, <2>1, CopiesAppend
  <2> QED BY <1>2, <1>3, <2>2 DEF Items
<1>5. \A u \in Timer \ {t} : Promised(u)'
  BY <1>1, <1>2, <1>4, LeftAlone, OncePromised DEF Updates
<1>6. Promised(t)'
  <2>1. CASE swtmr'[t].mode # "ONCE"
    BY <1>1, <2>1 DEF Promised
  <2>2. CASE swtmr'[t].mode = "ONCE"
    <3>1. Items(t) = 0
      BY <1>1, <1>2, <2>2, OncePromised DEF Promised, Updates
    <3>2. /\ Copies(handlers, ItemOf(t)) \in Nat /\ Copies(hand, ItemOf(t)) \in Nat
          /\ Copies(Append(handlers, ItemOf(t)), ItemOf(t)) = Copies(handlers, ItemOf(t)) + 1
      BY <1>3, CopiesType, CopiesAppend
    <3>3. CASE handlers' = Append(handlers, ItemOf(t))
      <4>1. Items(t)' = 1
        BY <1>2, <1>3, <3>1, <3>2, <3>3 DEF Items
      <4> QED BY <1>1, <2>2, <4>1 DEF Promised
    <3>4. CASE handlers' = handlers /\ dropped' = dropped \cup {t}
      <4>1. Items(t)' = 0
        BY <1>2, <1>3, <3>1, <3>4 DEF Items
      <4> QED BY <1>1, <2>2, <3>4, <4>1 DEF Promised
    <3> QED BY <1>2, <3>3, <3>4
  <2> QED BY <2>1, <2>2
<1>7. \A u \in Timer : Promised(u)'
  BY <1>5, <1>6
<1> QED BY <1>7, OncePromised

LEMMA ReadsOnce ==
    ASSUME SwtmrInv, TimerTaskReads, OnceExpiresOnce
    PROVE  OnceExpiresOnce'
<1>1. /\ handlers \in Seq(Item) /\ handlers # <<>> /\ hand = <<>>
      /\ hand' = <<Head(handlers)>> /\ handlers' = Tail(handlers)
      /\ UNCHANGED <<swtmr, dropped>>
  BY DEF TimerTaskReads, SwtmrInv, QueueType
<1>2. \A x : Copies(handlers', x) + Copies(hand', x) = Copies(handlers, x) + Copies(hand, x)
  <2> SUFFICES ASSUME NEW x
               PROVE  Copies(handlers', x) + Copies(hand', x)
                        = Copies(handlers, x) + Copies(hand, x)
    OBVIOUS
  <2>1. <<>> \in Seq(Item) /\ x \notin ToSet(<<>>) /\ handlers' \in Seq(Item)
    BY <1>1 DEF ToSet
  <2>2. Copies(<<>>, x) = 0 /\ Copies(handlers', x) \in Nat
    BY <2>1, CopiesNone, CopiesType
  <2>3. Copies(hand', x) = IF Head(handlers) = x THEN 1 ELSE 0
    BY <1>1, CopiesOne
  <2>4. Copies(handlers, x) = Copies(handlers', x) + (IF Head(handlers) = x THEN 1 ELSE 0)
    BY <1>1, CopiesFirst
  <2> QED BY <1>1, <2>2, <2>3, <2>4
<1>3. \A t \in Timer : Items(t)' = Items(t)
  BY <1>1, <1>2 DEF Items, ItemOf
<1>4. \A t \in Timer : Promised(t)'
  BY <1>1, <1>3, LeftAlone, OncePromised
<1> QED BY <1>4, OncePromised

LEMMA HandlesOnce ==
    ASSUME SwtmrInv, SwtmrInv', TimerTaskHandles, OnceExpiresOnce
    PROVE  OnceExpiresOnce'
<1> DEFINE t == Head(hand).timer
<1>1. PICK item \in Item : hand = <<item>>
  BY DEF TimerTaskHandles, SwtmrInv, QueueType
<1>2. t \in Timer /\ Head(hand) = item /\ t = item.timer
  BY <1>1 DEF Item
<1>3. hand' = <<>> /\ handlers' = handlers
  BY DEF TimerTaskHandles
<1>4. \A x : x # item => Copies(hand', x) = Copies(hand, x)
  <2> SUFFICES ASSUME NEW x, x # item PROVE Copies(hand', x) = Copies(hand, x)
    OBVIOUS
  <2>1. /\ hand \in Seq(Item) /\ hand' \in Seq(Item)
        /\ x \notin ToSet(hand) /\ x \notin ToSet(hand')
    BY <1>1, <1>3 DEF ToSet
  <2>2. Copies(hand, x) = 0 /\ Copies(hand', x) = 0
    BY <2>1, CopiesNone
  <2> QED BY <2>2
<1>5. CASE IsCurrent(item) /\ swtmr[t].mode = "ONCE"
  <2>1. OsSwtmrDelete(swtmr, t)
    BY <1>2, <1>5 DEF TimerTaskHandles
  <2>2. Expected(t)
    BY <1>1, <1>2, <1>5 DEF IsCurrent, Expected, ToSet
  <2>3. ~swtmr[t].linked
    BY <1>2, <1>5, <2>2 DEF SwtmrInv, OnceIsOff
  <2>4. Updates(swtmr, swtmr, t)
    BY DEF SwtmrInv, Updates
  <2>5. \A u \in Timer \ {t} : swtmr'[u] = swtmr[u] => Items(u)' = Items(u)
    BY <1>2, <1>3, <1>4 DEF Items, ItemOf
  <2> HIDE DEF t
  <2> QED BY <1>2, <2>1, <2>3, <2>4, <2>5, DeleteBlockOnce
<1>6. CASE ~(IsCurrent(item) /\ swtmr[t].mode = "ONCE")
  <2>1. UNCHANGED <<swtmr, dropped>>
    BY <1>2, <1>6 DEF TimerTaskHandles
  <2>2. \A u \in Timer : ItemOf(u) = item => u = t /\ IsCurrent(item)
    BY <1>2 DEF ItemOf, IsCurrent
  <2>3. \A u \in Timer : ItemOf(u) # item => Promised(u)'
    BY <1>3, <1>4, <2>1, LeftAlone, OncePromised DEF Items, ItemOf
  <2>4. \A u \in Timer : ItemOf(u) = item => Promised(u)'
    <3> SUFFICES ASSUME NEW u \in Timer, ItemOf(u) = item PROVE Promised(u)'
      OBVIOUS
    <3>1. swtmr[u].mode # "ONCE"
      BY <1>6, <2>2
    <3> QED BY <2>1, <3>1, OncePromised DEF Promised
  <2>5. \A u \in Timer : Promised(u)'
    BY <2>3, <2>4
  <2> QED BY <2>5, OncePromised
<1> QED BY <1>5, <1>6

\* A one-off timer that is started expires once: whatever is stopped, deleted, created
\* and started meanwhile, it is on the sort link, or the timer task will run its handler
\* exactly once, or the queue was full when it ended (los_swtmr.c:157, :94).
THEOREM OneHandlerPerStart ==
    ASSUME ~RestartExpired
    PROVE  SwtmrSpec => []OnceExpiresOnce
<1> DEFINE Inv == SwtmrInv /\ OnceExpiresOnce
<1>1. SwtmrInit => Inv
  <2> SUFFICES ASSUME SwtmrInit PROVE OnceExpiresOnce
    BY SwtmrInitInv
  <2>1. \A t \in Timer : swtmr[t].state = "UNUSED" /\ ~swtmr[t].linked /\ ~Expected(t)
    BY DEF SwtmrInit, Expected, ToSet
  <2>2. \A t \in Timer : Items(t) = 0
    BY <2>1, SwtmrInitInv, NoItems DEF SwtmrInv
  <2>3. \A t \in Timer : Promised(t)
    BY <2>1, <2>2 DEF Promised
  <2> QED BY <2>3, OncePromised
<1>2. Inv /\ [SwtmrNext]_swtmrVars => Inv'
  <2> SUFFICES ASSUME SwtmrInv, OnceExpiresOnce, [SwtmrNext]_swtmrVars, SwtmrInv'
               PROVE  OnceExpiresOnce'
    BY SwtmrNextInv
  <2>1. ASSUME NEW m \in Mode, NEW n \in Interval, NEW b \in BOOLEAN, SwtmrCreate(m, n, b)
        PROVE  OnceExpiresOnce'
    BY <2>1, CreateOnce
  <2>2. ASSUME NEW t \in Timer,
               SwtmrStart(t) \/ SwtmrStop(t) \/ SwtmrDelete(t) \/ OsSwtmrTimeoutHandle(t)
        PROVE  OnceExpiresOnce'
    BY <2>2, StartOnce, StopOnce, DeleteOnce, TimeoutOnce
  <2>3. CASE TimePasses
    BY <2>3, TimePassesOnce
  <2>4. CASE UNCHANGED <<swtmr, handlers, hand, dropped>>
    BY <2>4 DEF OnceExpiresOnce, ItemOf
  <2>5. CASE TimerTaskReads
    BY <2>5, ReadsOnce
  <2>6. CASE TimerTaskHandles
    BY <2>6, HandlesOnce
  <2> QED BY <2>1, <2>2, <2>3, <2>4, <2>5, <2>6
          DEF SwtmrNext, ScanStart, ScanEnd, swtmrVars
<1>3. Inv => OnceExpiresOnce
  OBVIOUS
<1> QED BY <1>1, <1>2, <1>3, PTL DEF SwtmrSpec

-----------------------------------------------------------------------------
(***************************************************************************)
(* Timers that are aligned expire together, where of two intervals one     *)
(* divides the other (IntervalsNest).  Without that it is not so: a timer  *)
(* is aligned with one other, the nearest, and with two that started apart *)
(* it cannot fit both.                                                     *)
(*                                                                         *)
(* The invariant (TimesInv) says where the response times are: a timer     *)
(* that ticks is due within its interval, the marks canAlign and isAligned *)
(* are as they are set, and any two aligned timers are on one grid: of     *)
(* their intervals one divides the other, and it divides the distance of   *)
(* their response times.  A timer that starts joins one aligned timer; the *)
(* step that needs the assumption is that it is then with all of them.     *)
(***************************************************************************)

\* The intervals the aligning is made for: whole multiples of the common divisor
\* (LOS_COMMON_DIVISOR) and, of any two, one divides the other.
IntervalsNest ==
    /\ \A i, j \in Interval : i % j = 0 \/ j % i = 0
    /\ \A i \in Interval : i % Divisor = 0

-----------------------------------------------------------------------------
(* Divisibility. *)

Divides(n, x) == \E k \in Int : x = k * n

LEMMA DivMod ==
    ASSUME NEW n \in Nat \ {0}, NEW x \in Int
    PROVE  \E q \in Int, r \in 0 .. n - 1 : q = x \div n /\ r = x % n /\ x = q * n + r
<1>1. x \div n \in Int /\ x % n \in 0 .. n - 1
  OBVIOUS
<1>2. ASSUME NEW q \in Int, q = x \div n, NEW r \in Int, r = x % n
      PROVE  x = n * q + r
  BY <1>2
<1>3. ASSUME NEW q \in Int, q = x \div n, NEW r \in Int, r = x % n
      PROVE  x = q * n + r
  BY <1>2, <1>3
<1>4. PICK q \in Int, r \in 0 .. n - 1 : q = x \div n /\ r = x % n
  BY <1>1
<1> QED BY <1>3, <1>4

LEMMA ModDivides ==
    ASSUME NEW n \in Nat \ {0}, NEW x \in Int
    PROVE  x % n = 0 <=> Divides(n, x)
<1>1. PICK q \in Int, r \in 0 .. n - 1 : r = x % n /\ x = q * n + r
  BY DivMod
<1>0. x = q * n + r
  BY <1>1
<1>2. r = 0 => Divides(n, x)
  BY <1>1 DEF Divides
<1>3. ASSUME NEW k \in Int, x = k * n PROVE r = 0
  <2>1. r = (k - q) * n
    <3>1. (k - q) * n = k * n - q * n /\ k * n \in Int /\ q * n \in Int
      OBVIOUS
    <3> QED BY <1>0, <1>3, <3>1
  <2>2. CASE k - q = 0
    BY <2>1, <2>2
  <2>3. CASE k - q >= 1
    <3>1. (k - q) * n >= n
      BY <1>1, <2>3
    <3> QED BY <1>1, <2>1, <3>1
  <2>4. CASE k - q <= -1
    <3>1. (k - q) * n <= -n
      BY <1>1, <2>4
    <3> QED BY <1>1, <2>1, <3>1
  <2> QED BY <1>1, <2>2, <2>3, <2>4
<1> QED BY <1>1, <1>2, <1>3 DEF Divides

LEMMA DividesTrans ==
    ASSUME NEW a \in Int, NEW b \in Int, NEW c \in Int, Divides(a, b), Divides(b, c)
    PROVE  Divides(a, c)
<1>1. PICK k \in Int : b = k * a
  BY DEF Divides
<1>2. PICK l \in Int : c = l * b
  BY DEF Divides
<1>3. c = (l * k) * a /\ l * k \in Int
  BY <1>1, <1>2
<1> QED BY <1>3 DEF Divides

LEMMA DividesSum ==
    ASSUME NEW n \in Int, NEW x \in Int, NEW y \in Int, Divides(n, x), Divides(n, y)
    PROVE  Divides(n, x + y) /\ Divides(n, x - y)
<1>1. PICK k \in Int : x = k * n
  BY DEF Divides
<1>2. PICK l \in Int : y = l * n
  BY DEF Divides
<1>3. x + y = (k + l) * n /\ x - y = (k - l) * n
  BY <1>1, <1>2
<1>4. k + l \in Int /\ k - l \in Int
  OBVIOUS
<1> QED BY <1>3, <1>4 DEF Divides

LEMMA DividesSelf ==
    ASSUME NEW n \in Int
    PROVE  Divides(n, n) /\ Divides(n, 0)
<1>1. n = 1 * n /\ 0 = 0 * n
  OBVIOUS
<1> QED BY <1>1 DEF Divides

LEMMA DividesLess ==
    ASSUME NEW n \in Nat \ {0}, NEW x \in Nat \ {0}, Divides(n, x)
    PROVE  n <= x
<1>1. PICK k \in Int : x = k * n
  BY DEF Divides
<1>2. k >= 1
  <2>1. CASE k <= 0
    <3>1. k * n <= 0
      BY <2>1
    <3> QED BY <1>1, <3>1
  <2> QED BY <2>1
<1>3. k * n >= n
  BY <1>2
<1> QED BY <1>1, <1>3

-----------------------------------------------------------------------------
(* Where a timer is aligned to. *)

\* What is linked ends within its interval.
Timed(s) ==
    /\ s \in [Timer -> Blocks(Int)]
    /\ \A u \in Timer :
          /\ s[u].state # "UNUSED" => s[u].interval \in Interval
          /\ s[u].linked => s[u].state = "TICKING" /\ s[u].due \in -MaxLate .. s[u].interval

Far(s, x, t) ==
    IF s[x].interval > s[t].interval THEN s[x].interval - s[t].interval
    ELSE s[t].interval - s[x].interval

LEMMA NearestOfMany ==
    ASSUME NEW s, Timed(s), NEW t \in Timer, NEW U \in SUBSET Aligned(s), U # {}
    PROVE  /\ Nearest(s, U, t) \in U
           /\ \A v \in U : Far(s, Nearest(s, U, t), t) <= Far(s, v, t)
<1> DEFINE D == {Far(s, x, t) : x \in U}
<1>1. U \subseteq Timer /\ \A x \in U : s[x].due + MaxLate \in Nat
  BY SwtmrAssumption DEF Aligned, Timed
<1>2. \A x \in Timer : s[x].interval \in Nat /\ s[x].due \in Int
  <2>1. \A n \in {0} \cup Interval : n \in Nat
    BY SwtmrAssumption
  <2> QED BY <2>1 DEF Timed, Blocks
<1>3. \A x \in U : Far(s, x, t) \in Nat
  BY <1>1, <1>2 DEF Far
<1>4. PICK m \in D : \A n \in D : m <= n
  <2>1. D \in SUBSET Nat /\ D # {}
    BY <1>3
  <2> HIDE DEF D
  <2> QED BY <2>1, MinOfNats
<1> DEFINE V == {x \in U : Far(s, x, t) = m}
           E == {s[x].due + MaxLate : x \in V}
<1>5. PICK e \in E : \A n \in E : e <= n
  <2>1. E \in SUBSET Nat /\ E # {}
    BY <1>1, <1>4
  <2> HIDE DEF E
  <2> QED BY <2>1, MinOfNats
<1>6. PICK x \in V : e = s[x].due + MaxLate
  BY <1>5
<1>7. \A v \in U : \/ Far(s, x, t) < Far(s, v, t)
                   \/ Far(s, x, t) = Far(s, v, t) /\ s[x].due <= s[v].due
  <2> SUFFICES ASSUME NEW v \in U
               PROVE  \/ Far(s, x, t) < Far(s, v, t)
                      \/ Far(s, x, t) = Far(s, v, t) /\ s[x].due <= s[v].due
    OBVIOUS
  <2>1. Far(s, x, t) = m /\ m <= Far(s, v, t) /\ m \in Nat /\ Far(s, v, t) \in Nat
    BY <1>3, <1>4, <1>6
  <2>2. CASE Far(s, v, t) = m
    <3>1. s[v].due + MaxLate \in E
      BY <2>2
    <3>2. e <= s[v].due + MaxLate
      BY <1>5, <3>1
    <3> QED BY <1>1, <1>2, <1>6, <2>1, <2>2, <3>2, SwtmrAssumption
  <2> QED BY <2>1, <2>2
<1> HIDE DEF V, E, D
<1> DEFINE y == Nearest(s, U, t)
<1>8. /\ y \in U
      /\ \A v \in U : \/ Far(s, y, t) < Far(s, v, t)
                      \/ Far(s, y, t) = Far(s, v, t) /\ s[y].due <= s[v].due
  BY <1>6, <1>7 DEF Nearest, Far, V
<1> HIDE DEF y
<1>9. \A v \in U : Far(s, y, t) <= Far(s, v, t)
  BY <1>3, <1>8
<1> QED BY <1>8, <1>9 DEF y

\* The start of t on the grid of u.
LEMMA StartOnGrid ==
    ASSUME NEW s, NEW t, NEW u,
           s[t].interval \in Nat \ {0}, s[u].interval \in Nat \ {0},
           s[u].due \in -MaxLate .. s[u].interval
    PROVE  LET c == OsSwtmrCalcStartTime(s, t, u)
               i == s[t].interval
               j == s[u].interval
           IN  /\ c \in Int /\ c + i \in -MaxLate .. i
               /\ Divides(i, j) => Divides(i, (c + i) - s[u].due)
               /\ Divides(j, i) => Divides(j, (c + i) - s[u].due)
<1> DEFINE c == OsSwtmrCalcStartTime(s, t, u)
           i == s[t].interval
           j == s[u].interval
           d == s[u].due
<1> SUFFICES /\ c \in Int /\ c + i \in -MaxLate .. i
             /\ Divides(i, j) => Divides(i, (c + i) - d)
             /\ Divides(j, i) => Divides(j, (c + i) - d)
  OBVIOUS
<1>1. i \in Nat \ {0} /\ j \in Nat \ {0} /\ d \in -MaxLate .. j /\ MaxLate \in Nat
  BY SwtmrAssumption
<1>2. CASE d <= 0
  <2>1. c = d
    BY <1>2 DEF OsSwtmrCalcStartTime
  <2> HIDE DEF c, i, j, d
  <2>2. c \in Int /\ c + i \in -MaxLate .. i /\ (c + i) - d = i
    BY <1>1, <1>2, <2>1
  <2> QED BY <1>1, <2>2, DividesSelf
<1>3. CASE d > 0
  <2> DEFINE used == j - d
             q == used \div i
  <2>1. c = q * i - used
    BY <1>1, <1>3 DEF OsSwtmrCalcStartTime
  <2>2. used \in 0 .. j - 1
    BY <1>1, <1>3
  <2>3. q \in Int /\ used - q * i \in 0 .. i - 1
    <3> HIDE DEF i, used
    <3>1. used \in Int /\ i \in Nat \ {0}
      BY <1>1, <2>2
    <3>2. PICK p \in Int, r \in 0 .. i - 1 : p = q /\ r = used % i /\ used = p * i + r
      BY <3>1, DivMod, Zenon
    <3>3. used = p * i + r
      BY <3>2
    <3> HIDE DEF q
    <3>4. p * i \in Int /\ used - p * i \in 0 .. i - 1
      BY <3>1, <3>3
    <3> QED BY <3>2, <3>4
  <2> HIDE DEF c, i, j, d, q
  <2>4. q * i \in Int
    BY <1>1, <2>3
  <2>5. c \in Int /\ c + i \in -MaxLate .. i
    BY <1>1, <2>1, <2>2, <2>3, <2>4
  <2>6. (c + i) - d = (q * i + i) - j
    BY <1>1, <2>1, <2>4
  <2>7. Divides(i, j) => Divides(i, (c + i) - d)
    <3>1. Divides(i, q * i) /\ Divides(i, i)
      BY <1>1, <2>3, DividesSelf DEF Divides
    <3> QED BY <1>1, <2>4, <2>6, <3>1, DividesSum
  <2>8. ASSUME Divides(j, i) PROVE Divides(j, (c + i) - d)
    <3>1. j <= i
      BY <1>1, <2>8, DividesLess
    <3>2. q = 0
      <4>1. CASE q >= 1
        <5>1. q * i >= i
          BY <1>1, <2>3, <4>1
        <5> QED BY <1>1, <2>2, <2>3, <2>4, <3>1, <5>1
      <4>2. CASE q <= -1
        <5>1. q * i <= -i
          BY <1>1, <2>3, <4>2
        <5> QED BY <1>1, <2>2, <2>3, <2>4, <5>1
      <4> QED BY <2>3, <4>1, <4>2
    <3>3. (c + i) - d = i - j
      BY <1>1, <2>6, <3>2
    <3>4. Divides(j, j)
      BY <1>1, DividesSelf
    <3>5. Divides(j, i - j)
      BY <1>1, <2>8, <3>4, DividesSum
    <3> QED BY <3>3, <3>5
  <2> QED BY <2>5, <2>7, <2>8
<1> QED BY <1>1, <1>2, <1>3

-----------------------------------------------------------------------------
(* One interval divides the other: a grid. *)

\* Intervals i and j that end at d and e end at the same points of the grid of the
\* shorter one.
With(i, d, j, e) ==
    /\ Divides(i, j) => Divides(i, e - d)
    /\ Divides(j, i) => Divides(j, e - d)

Together(s, t, u) == With(s[t].interval, s[t].due, s[u].interval, s[u].due)

Grid(s) == \A t, u \in Aligned(s) : Together(s, t, u)

LEMMA WithSym ==
    ASSUME NEW i \in Int, NEW j \in Int, NEW d \in Int, NEW e \in Int, With(i, d, j, e)
    PROVE  With(j, e, i, d)
<1>1. \A n \in Int : Divides(n, e - d) => Divides(n, d - e)
  <2> SUFFICES ASSUME NEW n \in Int, Divides(n, e - d) PROVE Divides(n, d - e)
    OBVIOUS
  <2>1. Divides(n, 0)
    BY DividesSelf
  <2>2. Divides(n, 0 - (e - d)) /\ 0 - (e - d) = d - e
    BY <2>1, DividesSum
  <2> QED BY <2>2
<1> QED BY <1>1 DEF With

LEMMA WithTrans ==
    ASSUME NEW i \in Int, NEW d \in Int, NEW j \in Int, NEW e \in Int, NEW k \in Int,
           NEW f \in Int, With(i, d, j, e), With(j, e, k, f),
           Divides(j, k) \/ Divides(k, j),
           Divides(i, j) \/ (Divides(j, i) /\ Divides(k, j))
    PROVE  With(i, d, k, f)
<1>1. \A n \in Int : Divides(n, f - e) /\ Divides(n, e - d) => Divides(n, f - d)
  <2> SUFFICES ASSUME NEW n \in Int, Divides(n, f - e), Divides(n, e - d)
               PROVE  Divides(n, f - d)
    OBVIOUS
  <2>1. Divides(n, (f - e) + (e - d)) /\ (f - e) + (e - d) = f - d
    BY DividesSum
  <2> QED BY <2>1
<1>2. CASE Divides(i, j)
  <2>1. Divides(i, e - d)
    BY <1>2 DEF With
  <2>2. ASSUME Divides(i, k) PROVE Divides(i, f - d)
    <3>1. CASE Divides(j, k)
      <4>1. Divides(j, f - e)
        BY <3>1 DEF With
      <4> QED BY <1>1, <1>2, <2>1, <4>1, DividesTrans
    <3>2. CASE Divides(k, j)
      <4>1. Divides(k, f - e)
        BY <3>2 DEF With
      <4> QED BY <1>1, <2>1, <2>2, <4>1, DividesTrans
    <3> QED BY <3>1, <3>2
  <2>3. ASSUME Divides(k, i) PROVE Divides(k, f - d)
    <3>1. Divides(k, j) /\ Divides(k, e - d)
      BY <1>2, <2>1, <2>3, DividesTrans
    <3>2. Divides(k, f - e)
      BY <3>1 DEF With
    <3> QED BY <1>1, <3>1, <3>2
  <2> QED BY <2>2, <2>3 DEF With
<1>3. CASE Divides(j, i) /\ Divides(k, j)
  <2>1. Divides(j, e - d) /\ Divides(k, f - e)
    BY <1>3 DEF With
  <2>2. Divides(k, f - d)
    BY <1>1, <1>3, <2>1, DividesTrans
  <2>3. Divides(i, k) => Divides(i, f - d)
    BY <2>2, DividesTrans
  <2> QED BY <2>2, <2>3 DEF With
<1> QED BY <1>2, <1>3

LEMMA IntervalInt == \A n \in Interval : n \in Nat \ {0} /\ n \in Int
BY SwtmrAssumption

LEMMA Chain ==
    ASSUME IntervalsNest, NEW i \in Interval, NEW j \in Interval
    PROVE  Divides(i, j) \/ Divides(j, i)
<1>1. i \in Nat \ {0} /\ j \in Nat \ {0} /\ i \in Int /\ j \in Int
  BY SwtmrAssumption
<1>2. i % j = 0 \/ j % i = 0
  BY DEF IntervalsNest
<1> QED BY <1>1, <1>2, ModDivides

\* In multiples of the common divisor.
LEMMA TimesOf ==
    ASSUME IntervalsNest, NEW s, NEW t, s[t].interval \in Interval
    PROVE  Times(s, t) \in Nat \ {0} /\ s[t].interval = Times(s, t) * Divisor
<1> DEFINE n == s[t].interval
<1>0. n \in Interval /\ n % Divisor = 0
  BY DEF IntervalsNest
<1>1. n \in Nat \ {0} /\ n \in Int /\ Divisor \in Nat \ {0} /\ n % Divisor = 0
  <2> HIDE DEF n
  <2> QED BY <1>0, SwtmrAssumption
<1> HIDE DEF n
<1>2. PICK q \in Int, r \in 0 .. Divisor - 1 :
         q = n \div Divisor /\ r = n % Divisor /\ n = q * Divisor + r
  BY <1>1, DivMod, Zenon
<1>3. r = 0 /\ Times(s, t) = q
  BY <1>1, <1>2 DEF Times, n
<1>4. n = q * Divisor
  <2>1. n = q * Divisor + r
    BY <1>2
  <2>2. q * Divisor \in Int
    BY <1>1
  <2> QED BY <1>3, <2>1, <2>2
<1>5. q \in Nat \ {0}
  <2>1. q <= 0 => q * Divisor <= 0
    BY <1>1
  <2> QED BY <1>1, <1>4, <2>1
<1> QED BY <1>3, <1>4, <1>5 DEF n

LEMMA TimesDivide ==
    ASSUME NEW a \in Nat \ {0}, NEW b \in Nat \ {0}
    PROVE  /\ b % a = 0 <=> Divides(a * Divisor, b * Divisor)
           /\ a <= b <=> a * Divisor <= b * Divisor
<1>1. Divisor \in Nat \ {0} /\ a * Divisor \in Int /\ b * Divisor \in Int
  BY SwtmrAssumption
<1>2. b % a = 0 <=> Divides(a, b)
  BY ModDivides
<1>3. ASSUME NEW k \in Int PROVE b = k * a <=> b * Divisor = k * (a * Divisor)
  <2>1. k * (a * Divisor) = (k * a) * Divisor /\ k * a \in Int
    BY <1>1
  <2>2. \A c \in Int : b * Divisor = c * Divisor => b = c
    <3> SUFFICES ASSUME NEW c \in Int, b * Divisor = c * Divisor PROVE b = c
      OBVIOUS
    <3>1. (b - c) * Divisor = 0
      BY <1>1
    <3> QED BY <1>1, <3>1
  <2> QED BY <2>1, <2>2
<1>4. Divides(a, b) <=> Divides(a * Divisor, b * Divisor)
  BY <1>3 DEF Divides
<1>5. a <= b => a * Divisor <= b * Divisor
  BY <1>1
<1>6. a > b => a * Divisor > b * Divisor
  <2> SUFFICES ASSUME a > b PROVE a * Divisor > b * Divisor
    OBVIOUS
  <2>1. (a - b) * Divisor >= Divisor /\ (a - b) * Divisor = a * Divisor - b * Divisor
    BY <1>1
  <2> QED BY <1>1, <2>1
<1> QED BY <1>1, <1>2, <1>4, <1>5, <1>6

LEMMA FindAlign ==
    ASSUME NEW s, Timed(s), NEW t \in Timer
    PROVE  LET c == OsSwtmrFindAlignPos(s, t)
               large == Larger(s, t) \ {u \in Timer : Times(s, u) = 0}
           IN  \/ c = 0 /\ Same(s, t) = {}
                  /\ (Times(s, t) # 0 => large = {} /\ Smaller(s, t) = {})
               \/ \E u \in Same(s, t) : c = OsSwtmrCalcStartTime(s, t, u)
               \/ Times(s, t) # 0 /\ \E u \in Larger(s, t) : c = OsSwtmrCalcStartTime(s, t, u)
               \/ /\ Times(s, t) # 0 /\ Same(s, t) = {} /\ large = {}
                  /\ \E u \in Smaller(s, t) :
                        /\ c = OsSwtmrCalcStartTime(s, t, u)
                        /\ \A v \in Smaller(s, t) : Far(s, u, t) <= Far(s, v, t)
<1> DEFINE large == Larger(s, t) \ {u \in Timer : Times(s, u) = 0}
<1>1. Same(s, t) # {} => Nearest(s, Same(s, t), t) \in Same(s, t)
  BY NearestOfMany DEF Same
<1>2. large # {} => Nearest(s, Larger(s, t), t) \in Larger(s, t)
  BY NearestOfMany DEF Larger
<1>3. Smaller(s, t) # {} =>
         /\ Nearest(s, Smaller(s, t), t) \in Smaller(s, t)
         /\ \A v \in Smaller(s, t) :
               Far(s, Nearest(s, Smaller(s, t), t), t) <= Far(s, v, t)
  BY NearestOfMany DEF Smaller
<1> QED BY <1>1, <1>2, <1>3 DEF OsSwtmrFindAlignPos

\* Whatever t is aligned to, it ends within its interval.
LEMMA AlignedStart ==
    ASSUME NEW s, Timed(s), NEW t \in Timer, s[t].interval \in Interval
    PROVE  LET c == OsSwtmrFindAlignPos(s, t)
           IN  c \in Int /\ c + s[t].interval \in -MaxLate .. s[t].interval
<1> DEFINE c == OsSwtmrFindAlignPos(s, t)
           i == s[t].interval
<1> SUFFICES c \in Int /\ c + i \in -MaxLate .. i
  OBVIOUS
<1>1. i \in Nat \ {0} /\ MaxLate \in Nat
  BY SwtmrAssumption
<1>2. ASSUME NEW u \in Aligned(s), c = OsSwtmrCalcStartTime(s, t, u)
      PROVE  c \in Int /\ c + i \in -MaxLate .. i
  <2>1. s[u].due \in -MaxLate .. s[u].interval /\ s[u].interval \in Nat \ {0}
    BY SwtmrAssumption DEF Timed, Aligned
  <2> QED BY <1>1, <1>2, <2>1, StartOnGrid
<1>3. \/ c = 0
      \/ \E u \in Same(s, t) \cup Larger(s, t) \cup Smaller(s, t) :
            c = OsSwtmrCalcStartTime(s, t, u)
  BY FindAlign
<1> HIDE DEF c
<1>4. CASE c = 0
  BY <1>1, <1>4
<1> QED BY <1>2, <1>3, <1>4 DEF Same, Larger, Smaller, c

LEMMA IntervalOf ==
    ASSUME NEW s, Timed(s), NEW u \in Timer, s[u].state # "UNUSED"
    PROVE  s[u].interval \in Interval /\ s[u].interval \in Nat \ {0} /\ s[u].due \in Int
BY SwtmrAssumption DEF Timed, Blocks

LEMMA AlignedOne ==
    ASSUME NEW s, Timed(s), NEW u \in Aligned(s)
    PROVE  /\ u \in Timer /\ s[u].state = "TICKING"
           /\ s[u].interval \in Interval /\ s[u].interval \in Nat \ {0}
           /\ s[u].due \in Int /\ s[u].due \in -MaxLate .. s[u].interval
<1>1. u \in Timer /\ s[u].state = "TICKING" /\ s[u].due \in -MaxLate .. s[u].interval
  BY DEF Timed, Aligned
<1> QED BY <1>1, IntervalOf

\* Which of the aligned timers fit.
LEMMA WhoFits ==
    ASSUME IntervalsNest, NEW s, Timed(s), NEW t \in Timer, s[t].interval \in Interval,
           NEW u \in Aligned(s)
    PROVE  /\ Times(s, t) \in Nat \ {0} /\ Times(s, u) \in Nat \ {0}
           /\ u \in Larger(s, t) <=> Divides(s[t].interval, s[u].interval)
           /\ u \in Smaller(s, t) <=>
                 Divides(s[u].interval, s[t].interval) /\ s[u].interval < s[t].interval
<1> DEFINE a == Times(s, t)
           b == Times(s, u)
<1>1. /\ a \in Nat \ {0} /\ s[t].interval = a * Divisor
      /\ b \in Nat \ {0} /\ s[u].interval = b * Divisor
  BY TimesOf, AlignedOne
<1>2. s[t].interval \in Nat \ {0} /\ s[u].interval \in Nat \ {0}
  BY AlignedOne, SwtmrAssumption
<1> HIDE DEF a, b
<1>3. /\ b % a = 0 <=> Divides(s[t].interval, s[u].interval)
      /\ a % b = 0 <=> Divides(s[u].interval, s[t].interval)
      /\ a <= b <=> s[t].interval <= s[u].interval
  <2>1. /\ b % a = 0 <=> Divides(a * Divisor, b * Divisor)
        /\ a <= b <=> a * Divisor <= b * Divisor
    BY <1>1, TimesDivide
  <2>2. a % b = 0 <=> Divides(b * Divisor, a * Divisor)
    BY <1>1, TimesDivide
  <2> QED BY <1>1, <2>1, <2>2, Zenon
<1>4. Divides(s[t].interval, s[u].interval) => s[t].interval <= s[u].interval
  BY <1>2, DividesLess
<1>5. u \in Larger(s, t) <=> b >= a /\ b % a = 0
  BY DEF Larger, a, b
<1>6. u \in Smaller(s, t) <=> b \in 1 .. a - 1 /\ a % b = 0
  BY DEF Smaller, a, b
<1>7. u \in Larger(s, t) <=> Divides(s[t].interval, s[u].interval)
  BY <1>1, <1>2, <1>3, <1>4, <1>5
<1>8. b \in 1 .. a - 1 <=> s[u].interval < s[t].interval
  BY <1>1, <1>2, <1>3
<1>9. u \in Smaller(s, t) <=>
         Divides(s[u].interval, s[t].interval) /\ s[u].interval < s[t].interval
  BY <1>3, <1>6, <1>8
<1> QED BY <1>1, <1>7, <1>9 DEF a, b

\* The timer that t is put on the grid of: no other one that fits has a finer grid
\* than both.
LEMMA AlignsToOne ==
    ASSUME IntervalsNest, NEW s, Timed(s), NEW t \in Timer, s[t].interval \in Interval,
           Aligned(s) # {}
    PROVE  \E u \in Aligned(s) :
              /\ OsSwtmrFindAlignPos(s, t) = OsSwtmrCalcStartTime(s, t, u)
              /\ \/ Divides(s[t].interval, s[u].interval)
                 \/ /\ Divides(s[u].interval, s[t].interval)
                    /\ \A v \in Aligned(s) : Divides(s[v].interval, s[u].interval)
<1> DEFINE c == OsSwtmrFindAlignPos(s, t)
           i == s[t].interval
           large == Larger(s, t) \ {u \in Timer : Times(s, u) = 0}
<1>1. PICK w \in Aligned(s) : TRUE
  OBVIOUS
<1>2. /\ Times(s, t) # 0 /\ large = Larger(s, t)
      /\ \A u \in Aligned(s) :
            /\ u \in Larger(s, t) <=> Divides(i, s[u].interval)
            /\ u \in Smaller(s, t) <=> Divides(s[u].interval, i) /\ s[u].interval < i
  <2>1. \A u \in Aligned(s) : Times(s, t) # 0 /\ Times(s, u) # 0
    BY WhoFits
  <2>2. Larger(s, t) \subseteq Aligned(s)
    BY DEF Larger
  <2>3. large = Larger(s, t)
    BY <2>1, <2>2
  <2> QED BY <1>1, <2>1, <2>3, WhoFits
<1>3. \A u \in Aligned(s) :
         /\ Divides(i, s[u].interval) \/ Divides(s[u].interval, i)
         /\ s[u].interval \in Interval /\ s[u].interval \in Nat \ {0}
  BY AlignedOne, Chain
<1>4. i \in Nat \ {0}
  BY SwtmrAssumption
<1> HIDE DEF c, i, large
<1>5. CASE \E u \in Same(s, t) : c = OsSwtmrCalcStartTime(s, t, u)
  <2>1. PICK u \in Same(s, t) : c = OsSwtmrCalcStartTime(s, t, u)
    BY <1>5
  <2>2. u \in Aligned(s) /\ s[u].interval = i
    BY DEF Same, i
  <2>3. Divides(i, s[u].interval)
    BY <1>4, <2>2, DividesSelf
  <2> QED BY <2>1, <2>2, <2>3 DEF c, i
<1>6. CASE \E u \in Larger(s, t) : c = OsSwtmrCalcStartTime(s, t, u)
  <2>1. PICK u \in Larger(s, t) : c = OsSwtmrCalcStartTime(s, t, u)
    BY <1>6
  <2>2. u \in Aligned(s)
    BY DEF Larger
  <2> QED BY <1>2, <2>1, <2>2 DEF c, i
<1>7. CASE /\ Same(s, t) = {} /\ large = {}
           /\ \E u \in Smaller(s, t) :
                 /\ c = OsSwtmrCalcStartTime(s, t, u)
                 /\ \A v \in Smaller(s, t) : Far(s, u, t) <= Far(s, v, t)
  <2>1. PICK u \in Smaller(s, t) :
           /\ c = OsSwtmrCalcStartTime(s, t, u)
           /\ \A v \in Smaller(s, t) : Far(s, u, t) <= Far(s, v, t)
    BY <1>7
  <2>2. u \in Aligned(s) /\ Divides(s[u].interval, i)
    BY <1>2 DEF Smaller
  <2>3. ASSUME NEW v \in Aligned(s) PROVE Divides(s[v].interval, s[u].interval)
    <3>1. ~Divides(i, s[v].interval) /\ Divides(s[v].interval, i)
      BY <1>2, <1>3, <1>7
    <3>2. s[v].interval <= i /\ s[v].interval # i
      <4>1. s[v].interval <= i
        BY <1>3, <1>4, <3>1, DividesLess
      <4>2. Divides(i, i)
        BY <1>4, DividesSelf
      <4> QED BY <3>1, <4>1, <4>2
    <3>3. v \in Smaller(s, t) /\ s[u].interval < i
      BY <1>2, <1>3, <1>4, <2>1, <2>2, <3>1, <3>2
    <3>4. Far(s, u, t) <= Far(s, v, t)
      BY <2>1, <3>3
    <3>5. s[v].interval <= s[u].interval
      BY <1>3, <1>4, <2>2, <3>2, <3>3, <3>4 DEF Far, i
    <3>6. CASE Divides(s[u].interval, s[v].interval)
      <4>1. s[u].interval <= s[v].interval
        BY <1>3, <2>2, <3>6, DividesLess
      <4>2. s[u].interval = s[v].interval
        BY <1>3, <2>2, <3>5, <4>1
      <4> QED BY <3>6, <4>2
    <3> QED BY <1>3, <2>2, <3>6, Chain
  <2> QED BY <2>1, <2>2, <2>3 DEF c, i
<1>8. CASE Same(s, t) = {} /\ large = {} /\ Smaller(s, t) = {}
  <2>1. ~Divides(i, s[w].interval) /\ Divides(s[w].interval, i)
    BY <1>2, <1>3, <1>8
  <2>2. s[w].interval <= i
    BY <1>3, <1>4, <2>1, DividesLess
  <2>3. s[w].interval # i
    BY <1>4, <2>1, DividesSelf
  <2> QED BY <1>2, <1>3, <1>4, <1>8, <2>1, <2>2, <2>3
<1> QED BY <1>2, <1>5, <1>6, <1>7, <1>8, FindAlign DEF c, large

\* A timer that is put on the grid of one ends together with all.
LEMMA AlignedWithAll ==
    ASSUME IntervalsNest, NEW s, Timed(s), Grid(s), NEW t \in Timer,
           s[t].interval \in Interval, NEW v \in Aligned(s)
    PROVE  With(s[t].interval, OsSwtmrFindAlignPos(s, t) + s[t].interval,
                s[v].interval, s[v].due)
<1> DEFINE c == OsSwtmrFindAlignPos(s, t)
           i == s[t].interval
<1>1. PICK u \in Aligned(s) :
         /\ c = OsSwtmrCalcStartTime(s, t, u)
         /\ \/ Divides(i, s[u].interval)
            \/ Divides(s[u].interval, i) /\ Divides(s[v].interval, s[u].interval)
  BY AlignsToOne
<1>2. /\ i \in Nat \ {0} /\ i \in Int
      /\ s[u].interval \in Nat \ {0} /\ s[u].interval \in Int /\ s[u].interval \in Interval
      /\ s[v].interval \in Int /\ s[v].interval \in Interval
      /\ s[u].due \in -MaxLate .. s[u].interval /\ s[u].due \in Int /\ s[v].due \in Int
  <2>1. i \in Nat \ {0} /\ i \in Int
    BY IntervalInt
  <2> HIDE DEF i
  <2>2. \A n \in Nat \ {0} : n \in Int
    OBVIOUS
  <2> QED BY <2>1, <2>2, AlignedOne
<1>3. /\ c \in Int
      /\ Divides(i, s[u].interval) => Divides(i, (c + i) - s[u].due)
      /\ Divides(s[u].interval, i) => Divides(s[u].interval, (c + i) - s[u].due)
  BY <1>1, <1>2, StartOnGrid
<1>4. With(s[u].interval, s[u].due, s[v].interval, s[v].due)
  BY DEF Grid, Together
<1>5. Divides(s[u].interval, s[v].interval) \/ Divides(s[v].interval, s[u].interval)
  BY <1>2, Chain
<1> HIDE DEF c, i
<1>6. With(i, c + i, s[u].interval, s[u].due)
  <2>1. With(s[u].interval, s[u].due, i, c + i)
    BY <1>3 DEF With
  <2> QED BY <1>2, <1>3, <2>1, WithSym
<1>7. c + i \in Int
  BY <1>2, <1>3
<1>8. With(i, c + i, s[v].interval, s[v].due)
  BY <1>1, <1>2, <1>4, <1>5, <1>6, <1>7, WithTrans
<1> QED BY <1>8 DEF c, i

-----------------------------------------------------------------------------
(* The invariant of the times. *)

\* Which timers are marked.
MarksRight(s) ==
    \A u \in Timer :
        /\ s[u].state = "UNUSED" => ~s[u].canAlign
        /\ s[u].canAlign => s[u].mode = "PERIOD"
        /\ s[u].isAligned => s[u].canAlign /\ s[u].linked

\* The same while t is off the sort link.
MarksBut(s, t) ==
    \A u \in Timer :
        /\ s[u].state = "UNUSED" => ~s[u].canAlign
        /\ s[u].canAlign => s[u].mode = "PERIOD"
        /\ s[u].isAligned => s[u].canAlign /\ (u = t \/ s[u].linked)

\* r is s with another block for t.
OnlyBlock(s, r, t) ==
    r \in [Timer -> Blocks(Int)] /\ \A u \in Timer \ {t} : r[u] = s[u]

LEMMA BlockTimed ==
    ASSUME NEW s, Timed(s), NEW t \in Timer, NEW r, OnlyBlock(s, r, t),
           r[t].state # "UNUSED" => r[t].interval \in Interval,
           r[t].linked => r[t].state = "TICKING" /\ r[t].due \in -MaxLate .. r[t].interval
    PROVE  Timed(r)
BY DEF Timed, OnlyBlock

\* A block that is not aligned disturbs no grid.
LEMMA BlockGrid ==
    ASSUME NEW s, Grid(s), NEW t \in Timer, NEW r, OnlyBlock(s, r, t), t \notin Aligned(r)
    PROVE  Grid(r)
<1>1. \A u \in Aligned(r) : u \in Aligned(s) /\ r[u] = s[u]
  BY DEF OnlyBlock, Aligned
<1> QED BY <1>1 DEF Grid, Together

LEMMA StartTimed ==
    ASSUME NEW s, Timed(s), NEW t \in Timer, MarksBut(s, t), s[t].interval \in Interval,
           NEW from \in Int, from + s[t].interval \in -MaxLate .. s[t].interval
    PROVE  LET r == OsSwtmrStart(s, t, from)
           IN  OnlyBlock(s, r, t) /\ Timed(r) /\ MarksRight(r)
<1> DEFINE c == IF s[t].canAlign /\ ~s[t].isAligned THEN OsSwtmrFindAlignPos(s, t) ELSE from
           d == c + s[t].interval
           r == OsSwtmrStart(s, t, from)
           b == [s[t] EXCEPT !.state = "TICKING", !.isAligned = @ \/ s[t].canAlign,
                             !.linked = TRUE, !.due = d]
<1>1. d \in Int /\ d \in -MaxLate .. s[t].interval
  <2>1. c \in Int /\ c + s[t].interval \in -MaxLate .. s[t].interval
    BY AlignedStart
  <2> HIDE DEF c
  <2> QED BY <2>1, SwtmrAssumption
<1>2. s \in [Timer -> Blocks(Int)] /\ r = [s EXCEPT ![t] = b]
  BY DEF OsSwtmrStart, Timed
<1> HIDE DEF r, d
<1>3. b \in Blocks(Int)
  BY <1>1, <1>2 DEF Blocks, State
<1>4. /\ OnlyBlock(s, r, t)
      /\ r[t].state = "TICKING" /\ r[t].linked /\ r[t].due = d
      /\ r[t].interval = s[t].interval /\ r[t].mode = s[t].mode
      /\ r[t].canAlign = s[t].canAlign /\ r[t].isAligned = (s[t].isAligned \/ s[t].canAlign)
  BY <1>2, <1>3 DEF OnlyBlock, Blocks
<1> HIDE DEF b
<1>5. Timed(r)
  BY <1>1, <1>4, BlockTimed
<1>6. MarksRight(r)
  BY <1>4 DEF MarksRight, MarksBut, OnlyBlock
<1> QED BY <1>4, <1>5, <1>6 DEF r

LEMMA StartGrid ==
    ASSUME IntervalsNest, NEW s, Timed(s), Grid(s), NEW t \in Timer, MarksBut(s, t),
           s[t].interval \in Interval, ~s[t].linked,
           NEW from \in Int, from + s[t].interval \in -MaxLate .. s[t].interval,
           s[t].isAligned => \A v \in Aligned(s) :
               With(s[t].interval, from + s[t].interval, s[v].interval, s[v].due)
    PROVE  Grid(OsSwtmrStart(s, t, from))
<1> DEFINE c == IF s[t].canAlign /\ ~s[t].isAligned THEN OsSwtmrFindAlignPos(s, t) ELSE from
           r == OsSwtmrStart(s, t, from)
<1>1. OnlyBlock(s, r, t) /\ Timed(r)
  BY StartTimed
<1>2. /\ r[t].due = c + s[t].interval /\ r[t].interval = s[t].interval
      /\ r[t].canAlign = s[t].canAlign
  BY DEF OsSwtmrStart, Timed, Blocks
<1>3. \A v \in Aligned(s) :
         s[t].canAlign => With(s[t].interval, c + s[t].interval, s[v].interval, s[v].due)
  BY AlignedWithAll
<1>4. \A v \in Aligned(r) : v # t => v \in Aligned(s) /\ r[v] = s[v]
  BY <1>1 DEF Aligned, OnlyBlock
<1> HIDE DEF c, r
<1>5. \A v \in Aligned(r) : t \in Aligned(r) /\ v # t => Together(r, t, v)
  BY <1>2, <1>3, <1>4 DEF Together, Aligned
<1>6. \A v \in Aligned(r) : t \in Aligned(r) /\ v # t => Together(r, v, t)
  <2> SUFFICES ASSUME NEW v \in Aligned(r), t \in Aligned(r), v # t PROVE Together(r, v, t)
    OBVIOUS
  <2>1. /\ r[v].interval \in Int /\ r[v].due \in Int
        /\ r[t].interval \in Int /\ r[t].due \in Int
    BY <1>1, AlignedOne
  <2> QED BY <1>5, <2>1, WithSym DEF Together
<1>7. t \in Aligned(r) => Together(r, t, t)
  <2> SUFFICES ASSUME t \in Aligned(r) PROVE Together(r, t, t)
    OBVIOUS
  <2>1. r[t].interval \in Int /\ r[t].due \in Int /\ r[t].due - r[t].due = 0
    BY <1>1, AlignedOne
  <2> QED BY <2>1, DividesSelf DEF Together, With
<1>8. \A u, v \in Aligned(r) : u # t /\ v # t => Together(r, u, v)
  BY <1>4 DEF Grid, Together
<1> QED BY <1>5, <1>6, <1>7, <1>8 DEF Grid, r

TimesInv == Timed(swtmr) /\ MarksRight(swtmr) /\ (IntervalsNest => Grid(swtmr))

\* A step that leaves t off the sort link.
LEMMA OffTimes ==
    ASSUME TimesInv, NEW t \in Timer, NEW r, OnlyBlock(swtmr, r, t), ~r[t].linked,
           r[t].state # "UNUSED" => r[t].interval \in Interval,
           r[t].state = "UNUSED" => ~r[t].canAlign,
           r[t].canAlign => r[t].mode = "PERIOD", r[t].isAligned => r[t].canAlign
    PROVE  /\ Timed(r) /\ MarksBut(r, t) /\ (IntervalsNest => Grid(r))
           /\ ~r[t].isAligned => MarksRight(r)
<1>1. Timed(r)
  BY BlockTimed DEF TimesInv
<1>2. t \notin Aligned(r)
  BY DEF Aligned
<1>3. IntervalsNest => Grid(r)
  BY <1>2, BlockGrid DEF TimesInv
<1>4. MarksBut(r, t)
  BY DEF TimesInv, MarksRight, MarksBut, OnlyBlock
<1>5. ~r[t].isAligned => MarksRight(r)
  BY DEF TimesInv, MarksRight, OnlyBlock
<1> QED BY <1>1, <1>3, <1>4, <1>5

LEMMA StartTimes ==
    ASSUME TimesInv, SwtmrInv, NEW t \in Timer, SwtmrStart(t)
    PROVE  TimesInv'
<1> DEFINE m == [swtmr EXCEPT ![t].canAlign =
                    @ \/ (swtmr[t].insensitive /\ swtmr[t].mode = "PERIOD")]
           s == IF swtmr[t].state = "TICKING" THEN OsSwtmrStop(m, t) ELSE m
           i == swtmr[t].interval
<1>1. swtmr \in [Timer -> Blocks(Int)] /\ i \in Interval /\ i \in Int /\ i \in Nat \ {0}
  BY IntervalInt DEF TimesInv, Timed, SwtmrStart
<1>2. /\ OnlyBlock(swtmr, s, t) /\ ~s[t].linked /\ ~s[t].isAligned /\ s[t].interval = i
      /\ s[t].state # "UNUSED"
      /\ s[t].canAlign => s[t].mode = "PERIOD"
  <2> DEFINE b == [swtmr[t] EXCEPT !.canAlign =
                      @ \/ (swtmr[t].insensitive /\ swtmr[t].mode = "PERIOD")]
             c == [b EXCEPT !.linked = FALSE, !.due = 0, !.state = "CREATED",
                            !.isAligned = FALSE]
  <2>1. m = [swtmr EXCEPT ![t] = b] /\ b \in Blocks(Int)
    BY <1>1 DEF Blocks
  <2>2. s = [swtmr EXCEPT ![t] = IF swtmr[t].state = "TICKING" THEN c ELSE b]
    BY <1>1, <2>1 DEF OsSwtmrStop, Blocks
  <2>3. c \in Blocks(Int)
    <3> HIDE DEF b
    <3>1. "CREATED" \in State /\ 0 \in Int
      BY DEF State
    <3> QED BY <2>1, <3>1 DEF Blocks
  <2>4. OnlyBlock(swtmr, s, t) /\ s[t] = IF swtmr[t].state = "TICKING" THEN c ELSE b
    BY <1>1, <2>1, <2>2, <2>3 DEF OnlyBlock
  <2>5. /\ b.linked = swtmr[t].linked /\ b.isAligned = swtmr[t].isAligned
        /\ b.interval = i /\ b.mode = swtmr[t].mode /\ b.state = swtmr[t].state
        /\ b.canAlign => swtmr[t].canAlign \/ swtmr[t].mode = "PERIOD"
    BY <1>1 DEF Blocks
  <2>6. /\ ~c.linked /\ ~c.isAligned /\ c.interval = b.interval /\ c.mode = b.mode
        /\ c.canAlign = b.canAlign /\ c.state = "CREATED"
    BY <2>1 DEF Blocks
  <2>7. swtmr[t].state # "TICKING" => ~swtmr[t].linked /\ ~swtmr[t].isAligned
    BY DEF TimesInv, Timed, MarksRight
  <2>8. swtmr[t].canAlign => swtmr[t].mode = "PERIOD"
    BY DEF TimesInv, MarksRight
  <2>9. swtmr[t].state # "UNUSED"
    BY DEF SwtmrStart
  <2> HIDE DEF b, c, s, m
  <2> QED BY <2>4, <2>5, <2>6, <2>7, <2>8, <2>9
<1>3. swtmr' = OsSwtmrStart(s, t, 0)
  BY DEF SwtmrStart
<1> HIDE DEF m, s, i
<1>4. Timed(s) /\ MarksBut(s, t) /\ (IntervalsNest => Grid(s))
  BY <1>1, <1>2, OffTimes
<1>5. 0 + s[t].interval \in -MaxLate .. s[t].interval
  BY <1>1, <1>2, SwtmrAssumption
<1>6. Timed(swtmr') /\ MarksRight(swtmr')
  BY <1>1, <1>2, <1>3, <1>4, <1>5, StartTimed
<1>7. IntervalsNest => Grid(swtmr')
  BY <1>1, <1>2, <1>3, <1>4, <1>5, StartGrid
<1> QED BY <1>6, <1>7 DEF TimesInv

\* A step that takes t off the sort link and its mark away, or leaves it off.
LEMMA OffTimesNext ==
    ASSUME TimesInv, NEW t \in Timer, OnlyBlock(swtmr, swtmr', t), ~swtmr'[t].linked,
           ~swtmr'[t].isAligned,
           swtmr'[t].state # "UNUSED" => swtmr'[t].interval \in Interval,
           swtmr'[t].state = "UNUSED" => ~swtmr'[t].canAlign,
           swtmr'[t].canAlign => swtmr'[t].mode = "PERIOD"
    PROVE  TimesInv'
<1>1. Timed(swtmr') /\ MarksRight(swtmr') /\ (IntervalsNest => Grid(swtmr'))
  BY OffTimes
<1> QED BY <1>1 DEF TimesInv

LEMMA StopBlock ==
    ASSUME TimesInv, NEW t \in Timer
    PROVE  LET r == OsSwtmrStop(swtmr, t)
           IN  /\ OnlyBlock(swtmr, r, t) /\ ~r[t].linked /\ ~r[t].isAligned
               /\ r[t].state = "CREATED" /\ r[t].interval = swtmr[t].interval
               /\ r[t].canAlign = swtmr[t].canAlign /\ r[t].mode = swtmr[t].mode
<1> DEFINE b == [swtmr[t] EXCEPT !.linked = FALSE, !.due = 0, !.state = "CREATED",
                                 !.isAligned = FALSE]
           r == OsSwtmrStop(swtmr, t)
<1>1. swtmr \in [Timer -> Blocks(Int)]
  BY DEF TimesInv, Timed
<1>2. b \in Blocks(Int)
  <2>1. swtmr[t] \in Blocks(Int) /\ "CREATED" \in State /\ 0 \in Int
    BY <1>1 DEF State
  <2> QED BY <2>1 DEF Blocks
<1>3. r = [swtmr EXCEPT ![t] = b]
  BY <1>1 DEF OsSwtmrStop
<1> HIDE DEF r
<1> QED BY <1>1, <1>2, <1>3 DEF OnlyBlock, Blocks, r

LEMMA StopTimes ==
    ASSUME TimesInv, NEW t \in Timer, SwtmrStop(t)
    PROVE  TimesInv'
<1>1. swtmr' = OsSwtmrStop(swtmr, t) /\ swtmr[t].state # "UNUSED"
  BY DEF SwtmrStop
<1>2. /\ swtmr[t].interval \in Interval
      /\ swtmr[t].canAlign => swtmr[t].mode = "PERIOD"
  BY <1>1 DEF TimesInv, Timed, MarksRight
<1> QED BY <1>1, <1>2, StopBlock, OffTimesNext

LEMMA DeleteBlockTimes ==
    ASSUME TimesInv, SwtmrInv, NEW t \in Timer, NEW s, OnlyBlock(swtmr, s, t), ~s[t].linked,
           OsSwtmrDelete(s, t)
    PROVE  TimesInv'
<1> DEFINE c == [s[t] EXCEPT !.life = NextLife(t), !.state = "UNUSED", !.mode = "ONCE",
                             !.interval = 0, !.insensitive = FALSE,
                             !.canAlign = FALSE, !.isAligned = FALSE]
<1>1. s \in [Timer -> Blocks(Int)]
  BY DEF OnlyBlock
<1>2. NextLife(t) \in 0 .. Lives - 1
  <2>1. swtmr[t].life \in 0 .. Lives - 1
    BY DEF SwtmrInv, Blocks
  <2> QED BY <2>1, SwtmrAssumption DEF NextLife
<1>3. c \in Blocks(Int) /\ swtmr' = [s EXCEPT ![t] = c]
  BY <1>1, <1>2 DEF Blocks, State, Mode, OsSwtmrDelete
<1>4. c.state = "UNUSED" /\ ~c.linked /\ ~c.canAlign /\ ~c.isAligned
  BY <1>1 DEF Blocks
<1> HIDE DEF c
<1>5. OnlyBlock(swtmr, swtmr', t) /\ swtmr'[t] = c
  BY <1>1, <1>3 DEF OnlyBlock
<1> QED BY <1>4, <1>5, OffTimesNext

LEMMA DeleteTimes ==
    ASSUME TimesInv, SwtmrInv, NEW t \in Timer, SwtmrDelete(t)
    PROVE  TimesInv'
<1> DEFINE s == IF swtmr[t].state = "TICKING" THEN OsSwtmrStop(swtmr, t) ELSE swtmr
<1>1. OnlyBlock(swtmr, s, t) /\ ~s[t].linked
  <2>1. CASE swtmr[t].state = "TICKING"
    BY <2>1, StopBlock
  <2>2. CASE swtmr[t].state # "TICKING"
    BY <2>2 DEF TimesInv, Timed, OnlyBlock
  <2> QED BY <2>1, <2>2
<1>2. OsSwtmrDelete(s, t)
  BY DEF SwtmrDelete
<1> HIDE DEF s
<1> QED BY <1>1, <1>2, DeleteBlockTimes

LEMMA CreateTimes ==
    ASSUME TimesInv, SwtmrInv, NEW m \in Mode, NEW n \in Interval, NEW b \in BOOLEAN,
           SwtmrCreate(m, n, b)
    PROVE  TimesInv'
<1> DEFINE t == Head(freeTimers)
           c == [swtmr[t] EXCEPT !.state = "CREATED", !.mode = m, !.interval = n,
                                 !.insensitive = b, !.due = 0]
<1>1. swtmr \in [Timer -> Blocks(Int)]
  BY DEF TimesInv, Timed
<1>2. t \in Timer /\ swtmr[t].state = "UNUSED"
  BY TakeFirst DEF SwtmrInv, QueueType, NoFreeTimerTicks, SwtmrCreate
<1>3. swtmr' = [swtmr EXCEPT ![t] = c]
  BY <1>1, <1>2 DEF SwtmrCreate
<1>4. ~swtmr[t].linked /\ ~swtmr[t].canAlign /\ ~swtmr[t].isAligned
  BY <1>2 DEF TimesInv, Timed, MarksRight
<1> HIDE DEF t
<1>5. c \in Blocks(Int)
  <2>1. swtmr[t] \in Blocks(Int) /\ n \in {0} \cup Interval /\ "CREATED" \in State /\ 0 \in Int
    BY <1>1, <1>2 DEF State
  <2> QED BY <2>1 DEF Blocks
<1>6. ~c.linked /\ ~c.canAlign /\ ~c.isAligned /\ c.interval = n /\ c.state = "CREATED"
  BY <1>1, <1>2, <1>4 DEF Blocks
<1> HIDE DEF c
<1>7. OnlyBlock(swtmr, swtmr', t) /\ swtmr'[t] = c
  BY <1>1, <1>2, <1>3, <1>5 DEF OnlyBlock
<1> QED BY <1>2, <1>6, <1>7, OffTimesNext

LEMMA TimePassesTimes ==
    ASSUME TimesInv, TimePasses
    PROVE  TimesInv'
<1>1. swtmr \in [Timer -> Blocks(Int)]
  BY DEF TimesInv, Timed
<1>2. \A t \in Timer : swtmr'[t] \in Blocks(Int)
  <2> SUFFICES ASSUME NEW t \in Timer PROVE swtmr'[t] \in Blocks(Int)
    OBVIOUS
  <2>1. swtmr[t] \in Blocks(Int) /\ swtmr[t].due - 1 \in Int
    BY <1>1 DEF Blocks
  <2>2. swtmr'[t] = swtmr[t] \/ swtmr'[t] = [swtmr[t] EXCEPT !.due = swtmr[t].due - 1]
    BY DEF TimePasses
  <2> QED BY <2>1, <2>2 DEF Blocks
<1>3. swtmr' \in [Timer -> Blocks(Int)]
  BY <1>2 DEF TimePasses
<1>4. \A t \in Timer :
         /\ swtmr'[t].state = swtmr[t].state /\ swtmr'[t].mode = swtmr[t].mode
         /\ swtmr'[t].linked = swtmr[t].linked /\ swtmr'[t].canAlign = swtmr[t].canAlign
         /\ swtmr'[t].isAligned = swtmr[t].isAligned
         /\ swtmr'[t].interval = swtmr[t].interval
         /\ swtmr[t].linked => swtmr'[t].due = swtmr[t].due - 1
  BY <1>1 DEF TimePasses, Blocks
<1>5. Timed(swtmr')
  <2>1. ASSUME NEW t \in Timer, swtmr[t].linked
        PROVE  swtmr[t].due - 1 \in -MaxLate .. swtmr[t].interval
    <3>1. /\ swtmr[t].due \in -MaxLate .. swtmr[t].interval /\ swtmr[t].due > -MaxLate
          /\ swtmr[t].state = "TICKING"
      BY <2>1 DEF TimesInv, Timed, TimePasses
    <3>2. swtmr[t].interval \in Int
      BY <3>1, IntervalOf DEF TimesInv
    <3> QED BY <3>1, <3>2, SwtmrAssumption
  <2> QED BY <1>3, <1>4, <2>1 DEF TimesInv, Timed
<1>6. MarksRight(swtmr')
  BY <1>4 DEF TimesInv, MarksRight
<1>7. ASSUME IntervalsNest PROVE Grid(swtmr')
  <2> SUFFICES ASSUME NEW t \in Aligned(swtmr'), NEW u \in Aligned(swtmr')
               PROVE  Together(swtmr', t, u)
    BY DEF Grid
  <2>1. t \in Aligned(swtmr) /\ u \in Aligned(swtmr)
    BY <1>4 DEF Aligned
  <2>2. swtmr'[u].due - swtmr'[t].due = swtmr[u].due - swtmr[t].due
    BY <1>1, <1>4, <2>1 DEF Aligned, Blocks
  <2>3. Together(swtmr, t, u)
    BY <1>7, <2>1 DEF TimesInv, Grid
  <2> QED BY <1>4, <2>1, <2>2, <2>3 DEF Together, With, Aligned
<1> QED BY <1>5, <1>6, <1>7 DEF TimesInv

LEMMA TimeoutTimes ==
    ASSUME TimesInv, SwtmrInv, NEW t \in Timer, OsSwtmrTimeoutHandle(t)
    PROVE  TimesInv'
<1> DEFINE b == [swtmr[t] EXCEPT !.linked = FALSE, !.due = 0]
           s == [swtmr EXCEPT ![t].linked = FALSE, ![t].due = 0]
           i == swtmr[t].interval
           from == swtmr[t].due
<1>1. swtmr \in [Timer -> Blocks(Int)] /\ swtmr[t].mode \in Mode
  BY DEF TimesInv, Timed, Blocks
<1>2. /\ swtmr[t].linked /\ swtmr[t].state = "TICKING"
      /\ from \in -MaxLate .. i /\ from <= 0 /\ from \in Int
      /\ i \in Interval /\ i \in Nat \ {0} /\ i \in Int
  <2>1. swtmr[t].linked /\ from <= 0
    BY DEF OsSwtmrTimeoutHandle, Due
  <2>2. swtmr[t].state = "TICKING" /\ from \in -MaxLate .. i
    BY <2>1 DEF TimesInv, Timed
  <2>3. i \in Interval /\ from \in Int
    BY <2>2, IntervalOf DEF TimesInv
  <2>4. i \in Nat \ {0} /\ i \in Int
    BY <2>3, IntervalInt
  <2> QED BY <2>1, <2>2, <2>3, <2>4
<1>3. s = [swtmr EXCEPT ![t] = b] /\ b \in Blocks(Int)
  <2>1. swtmr[t] \in Blocks(Int) /\ 0 \in Int
    BY <1>1
  <2>2. b \in Blocks(Int)
    BY <2>1 DEF Blocks
  <2>3. s = [swtmr EXCEPT ![t] = b]
    BY <1>1
  <2> QED BY <2>2, <2>3
<1>4. /\ ~b.linked /\ b.interval = i /\ b.state = "TICKING" /\ b.mode = swtmr[t].mode
      /\ b.canAlign = swtmr[t].canAlign /\ b.isAligned = swtmr[t].isAligned
  BY <1>1, <1>2 DEF Blocks
<1> HIDE DEF b
<1>5. OnlyBlock(swtmr, s, t) /\ s[t] = b
  BY <1>1, <1>3 DEF OnlyBlock
<1>6. /\ b.canAlign => b.mode = "PERIOD"
      /\ b.isAligned => b.canAlign
  BY <1>4 DEF TimesInv, MarksRight
<1>7. swtmr' = AfterTimeout(s, t)
  BY DEF OsSwtmrTimeoutHandle
<1> HIDE DEF s, i, from
<1>8. Timed(s) /\ MarksBut(s, t) /\ (IntervalsNest => Grid(s))
  BY <1>2, <1>4, <1>5, <1>6, OffTimes
<1>9. CASE swtmr[t].mode = "PERIOD"
  <2>1. swtmr' = OsSwtmrStart(s, t, from)
    BY <1>7, <1>9 DEF AfterTimeout, from
  <2>2. from + s[t].interval \in -MaxLate .. s[t].interval
    BY <1>2, <1>4, <1>5, SwtmrAssumption
  <2>3. Timed(swtmr') /\ MarksRight(swtmr')
    BY <1>2, <1>4, <1>5, <1>8, <2>1, <2>2, StartTimed
  <2>4. ASSUME IntervalsNest, s[t].isAligned, NEW v \in Aligned(s)
        PROVE  With(s[t].interval, from + s[t].interval, s[v].interval, s[v].due)
    <3>1. v # t /\ s[v] = swtmr[v] /\ v \in Aligned(swtmr) /\ t \in Aligned(swtmr)
      BY <1>2, <1>4, <1>5, <1>6, <2>4 DEF Aligned, OnlyBlock
    <3>2. With(i, from, s[v].interval, s[v].due)
      BY <2>4, <3>1 DEF TimesInv, Grid, Together, i, from
    <3>3. s[v].interval \in Int /\ s[v].due \in Int
      BY <1>8, AlignedOne
    <3>4. s[v].due - (from + i) = (s[v].due - from) - i /\ s[v].due - from \in Int
      BY <1>2, <3>3
    <3>5. Divides(i, s[v].interval) => Divides(i, s[v].due - (from + i))
      <4>1. Divides(i, i)
        BY <1>2, DividesSelf
      <4> QED BY <1>2, <3>2, <3>4, <4>1, DividesSum DEF With
    <3>6. Divides(s[v].interval, i) => Divides(s[v].interval, s[v].due - (from + i))
      BY <1>2, <3>2, <3>3, <3>4, DividesSum DEF With
    <3> QED BY <1>4, <1>5, <3>5, <3>6 DEF With
  <2>5. IntervalsNest => Grid(swtmr')
    BY <1>2, <1>4, <1>5, <1>8, <2>1, <2>2, <2>4, StartGrid
  <2> QED BY <2>3, <2>5 DEF TimesInv
<1>10. CASE swtmr[t].mode # "PERIOD"
  <2> DEFINE c == [b EXCEPT !.state = "CREATED"]
  <2>1. ~b.canAlign /\ ~b.isAligned
    BY <1>4, <1>6, <1>10
  <2>2. CASE swtmr[t].mode = "NO_SELFDELETE"
    <3>1. swtmr' = [s EXCEPT ![t] = c] /\ c \in Blocks(Int)
      <4>1. "CREATED" \in State
        BY DEF State
      <4>2. swtmr' = [s EXCEPT ![t].state = "CREATED"]
        BY <1>7, <2>2 DEF AfterTimeout
      <4> QED BY <1>3, <1>5, <4>1, <4>2 DEF Blocks, OnlyBlock
    <3>2. /\ ~c.linked /\ c.interval = i /\ c.state = "CREATED"
          /\ ~c.canAlign /\ ~c.isAligned
      BY <1>3, <1>4, <2>1 DEF Blocks
    <3> HIDE DEF c
    <3>3. OnlyBlock(swtmr, swtmr', t) /\ swtmr'[t] = c
      BY <1>5, <3>1 DEF OnlyBlock
    <3> QED BY <1>2, <3>2, <3>3, OffTimesNext
  <2>3. CASE swtmr[t].mode = "ONCE"
    <3>1. swtmr' = s
      BY <1>7, <2>3 DEF AfterTimeout
    <3> QED BY <1>2, <1>4, <1>5, <2>1, <3>1, OffTimesNext
  <2> QED BY <1>1, <1>10, <2>2, <2>3 DEF Mode
<1> QED BY <1>9, <1>10

LEMMA HandlesTimes ==
    ASSUME TimesInv, SwtmrInv, TimerTaskHandles
    PROVE  TimesInv'
<1> DEFINE t == Head(hand).timer
<1>1. PICK item \in Item : hand = <<item>>
  BY DEF TimerTaskHandles, SwtmrInv, QueueType
<1>2. t \in Timer /\ Head(hand) = item /\ t = item.timer
  BY <1>1 DEF Item
<1>3. CASE IsCurrent(item) /\ swtmr[t].mode = "ONCE"
  <2>1. OsSwtmrDelete(swtmr, t)
    BY <1>2, <1>3 DEF TimerTaskHandles
  <2>2. Expected(t)
    BY <1>1, <1>2, <1>3 DEF IsCurrent, Expected, ToSet
  <2>3. ~swtmr[t].linked
    BY <1>2, <1>3, <2>2 DEF SwtmrInv, OnceIsOff
  <2>4. OnlyBlock(swtmr, swtmr, t)
    BY DEF TimesInv, Timed, OnlyBlock
  <2> HIDE DEF t
  <2> QED BY <1>2, <2>1, <2>3, <2>4, DeleteBlockTimes
<1>4. CASE ~(IsCurrent(item) /\ swtmr[t].mode = "ONCE")
  <2>1. UNCHANGED swtmr
    BY <1>2, <1>4 DEF TimerTaskHandles
  <2> QED BY <2>1 DEF TimesInv
<1> QED BY <1>3, <1>4

LEMMA TimesInitInv == SwtmrInit => TimesInv
<1> SUFFICES ASSUME SwtmrInit PROVE TimesInv
  OBVIOUS
<1>1. swtmr \in [Timer -> Blocks(Int)]
  <2>1. 0 \in 0 .. Lives - 1
    BY SwtmrAssumption
  <2> QED BY <2>1 DEF SwtmrInit, Blocks, State, Mode
<1>2. \A t \in Timer : /\ swtmr[t].state = "UNUSED" /\ ~swtmr[t].linked
                       /\ ~swtmr[t].canAlign /\ ~swtmr[t].isAligned
  BY DEF SwtmrInit
<1>3. Aligned(swtmr) = {}
  BY <1>2 DEF Aligned
<1> QED BY <1>1, <1>2, <1>3 DEF TimesInv, Timed, MarksRight, Grid

LEMMA TimesNextInv ==
    ASSUME TimesInv, SwtmrInv, [SwtmrNext]_swtmrVars
    PROVE  TimesInv'
<1>1. ASSUME NEW m \in Mode, NEW n \in Interval, NEW b \in BOOLEAN, SwtmrCreate(m, n, b)
      PROVE  TimesInv'
  BY <1>1, CreateTimes
<1>2. ASSUME NEW t \in Timer,
             SwtmrStart(t) \/ SwtmrStop(t) \/ SwtmrDelete(t) \/ OsSwtmrTimeoutHandle(t)
      PROVE  TimesInv'
  BY <1>2, StartTimes, StopTimes, DeleteTimes, TimeoutTimes
<1>3. CASE TimePasses
  BY <1>3, TimePassesTimes
<1>4. CASE UNCHANGED swtmr
  BY <1>4 DEF TimesInv
<1>5. CASE TimerTaskHandles
  BY <1>5, HandlesTimes
<1> QED BY <1>1, <1>2, <1>3, <1>4, <1>5
        DEF SwtmrNext, ScanStart, ScanEnd, TimerTaskReads, swtmrVars

\* Timers that are aligned expire together wherever the interval of one is a multiple of
\* the other's, if the intervals nest (los_swtmr.c:304, OsSwtmrFindAlignPos).
THEOREM AlignedTogether ==
    ASSUME ~RestartExpired, IntervalsNest
    PROVE  SwtmrSpec => []AlignedExpireTogether
<1>1. TimesInv => AlignedExpireTogether
  <2> SUFFICES ASSUME TimesInv, NEW t \in Aligned(swtmr), NEW u \in Aligned(swtmr),
                      swtmr[u].interval % swtmr[t].interval = 0
               PROVE  (swtmr[u].due - swtmr[t].due) % swtmr[t].interval = 0
    BY DEF AlignedExpireTogether
  <2>1. /\ swtmr[t].interval \in Nat \ {0} /\ swtmr[u].interval \in Int
        /\ swtmr[u].due - swtmr[t].due \in Int
    BY AlignedOne DEF TimesInv
  <2>2. Together(swtmr, t, u)
    BY DEF TimesInv, Grid
  <2> QED BY <2>1, <2>2, ModDivides DEF Together, With
<1> DEFINE Inv == SwtmrInv /\ TimesInv
<1>2. SwtmrInit => Inv
  BY SwtmrInitInv, TimesInitInv
<1>3. Inv /\ [SwtmrNext]_swtmrVars => Inv'
  BY SwtmrNextInv, TimesNextInv
<1>4. Inv => AlignedExpireTogether
  BY <1>1
<1> QED BY <1>2, <1>3, <1>4, PTL DEF SwtmrSpec

-----------------------------------------------------------------------------
(* The types. *)

SwtmrTypeInv ==
    /\ SwtmrInv /\ TimesInv
    /\ scanning \in BOOLEAN /\ dropped \subseteq Timer

LEMMA SwtmrTypesInitInv == SwtmrInit => SwtmrTypeInv
BY SwtmrInitInv, TimesInitInv DEF SwtmrTypeInv, SwtmrInit

LEMMA SwtmrTypesNextInv ==
    ASSUME ~RestartExpired, SwtmrTypeInv, [SwtmrNext]_swtmrVars
    PROVE  SwtmrTypeInv'
<1>1. SwtmrInv' /\ TimesInv'
  BY SwtmrNextInv, TimesNextInv DEF SwtmrTypeInv
<1>2. scanning' \in BOOLEAN /\ dropped' \subseteq Timer
  <2>1. ASSUME NEW m \in Mode, NEW n \in Interval, NEW b \in BOOLEAN, SwtmrCreate(m, n, b)
        PROVE  scanning' = scanning /\ dropped' = dropped
    BY <2>1 DEF SwtmrCreate
  <2>2. ASSUME NEW t \in Timer, SwtmrStart(t) \/ SwtmrStop(t) \/ SwtmrDelete(t)
        PROVE  scanning' = scanning /\ dropped' \subseteq Timer
    BY <2>2 DEF SwtmrStart, SwtmrStop, SwtmrDelete, OsSwtmrDelete, SwtmrTypeInv
  <2>3. ASSUME NEW t \in Timer, OsSwtmrTimeoutHandle(t)
        PROVE  scanning' = scanning /\ dropped' \subseteq Timer
    BY <2>3 DEF OsSwtmrTimeoutHandle, SwtmrTypeInv
  <2>4. CASE TimePasses \/ TimerTaskReads \/ UNCHANGED swtmrVars
    BY <2>4 DEF TimePasses, TimerTaskReads, swtmrVars, SwtmrTypeInv
  <2>5. CASE ScanStart \/ ScanEnd
    BY <2>5 DEF ScanStart, ScanEnd, SwtmrTypeInv
  <2>6. CASE TimerTaskHandles
    BY <2>6 DEF TimerTaskHandles, OsSwtmrDelete, SwtmrTypeInv
  <2> QED BY <2>1, <2>2, <2>3, <2>4, <2>5, <2>6 DEF SwtmrTypeInv, SwtmrNext
<1> QED BY <1>1, <1>2 DEF SwtmrTypeInv

LEMMA SwtmrTypesHold == SwtmrTypeInv => SwtmrTypeOK
<1> SUFFICES ASSUME SwtmrTypeInv PROVE SwtmrTypeOK
  OBVIOUS
<1>1. Blocks(Int) = ControlBlock
  BY DEF Blocks, ControlBlock
<1> QED BY <1>1 DEF SwtmrTypeInv, TimesInv, Timed, SwtmrInv, QueueType, SwtmrTypeOK

-----------------------------------------------------------------------------
(***************************************************************************)
(* The clock, for any periods: it never goes back, and as long as the      *)
(* counter is not set anew under a pending tick and no interrupt reads the *)
(* clock inside the tick handler, it loses no period and counts none       *)
(* twice.  Neither is inductive alone.  For the first, what was read last  *)
(* is at most one period ahead of the base (Ahead): then adding one period *)
(* is enough when the counter has wrapped.  For the second, the clock is   *)
(* one period short as long as a wrap is not added (Uncounted) and exact   *)
(* otherwise (Exact), and the mark that a reader leaves is there only      *)
(* while the tick it stands for is not handled (Marked).                   *)
(*                                                                         *)
(* The timer, for any tasks, deadlines, slices and limits: the scheduler   *)
(* uses the clock as LosTick allows, so what is proved of the clock holds  *)
(* while the timer is set on demand.                                       *)
(***************************************************************************)

Ahead == old <= base + load

ClockInv == TickTypeOK /\ Ahead /\ ClockNeverGoesBack

LEMMA Counter ==
    ASSUME TickTypeOK
    PROVE  /\ SysTickCycleGet \in 0 .. load - 1 /\ load \in Nat \ {0}
           /\ BaseNow \in {base, base + load} /\ BaseNow \in Nat /\ Now \in Nat
BY TickAssumption DEF TickTypeOK, SysTickCycleGet, BaseNow, Now

\* A read of the clock is never behind the last one.
LEMMA ReadForward ==
    ASSUME TickTypeOK, Ahead
    PROVE  Now >= old
BY Counter DEF TickTypeOK, Ahead, Now, BaseNow, Wrapped

LEMMA RememberInv ==
    ASSUME ClockInv, Remember
    PROVE  /\ old' = Now /\ Now \in Nat /\ updated' \in BOOLEAN
           /\ failed' = FALSE
<1>1. Now >= old /\ Now \in Nat /\ old \in Nat
  BY ReadForward, Counter DEF ClockInv, TickTypeOK
<1>2. ~(Now < old)
  BY <1>1
<1> QED BY <1>1, <1>2 DEF ClockInv, ClockNeverGoesBack, Remember, TickTypeOK, Wrapped

LEMMA CycleGetInv ==
    ASSUME ClockInv, LOS_SysCycleGet
    PROVE  /\ load' \in {n - 1 : n \in Period} /\ pos' \in 0 .. load'
           /\ base' \in Nat /\ old' \in Nat /\ updated' \in BOOLEAN
           /\ failed' = FALSE /\ Ahead'
<1>1. Now <= base' + load /\ Now \in Nat /\ base' \in Nat
  BY Counter DEF ClockInv, LOS_SysCycleGet, Now, TickTypeOK
<1> QED BY <1>1, RememberInv DEF ClockInv, LOS_SysCycleGet, TickTypeOK, Ahead

LEMMA ReloadInv ==
    ASSUME ClockInv, NEW n \in Period, OsTickTimerReload(n)
    PROVE  /\ load' \in {z - 1 : z \in Period} /\ pos' \in 0 .. load'
           /\ base' \in Nat /\ old' \in Nat /\ updated' \in BOOLEAN
           /\ failed' = FALSE /\ Ahead'
<1>1. load' = n - 1 /\ load' \in Nat /\ pos' = 0 /\ base' = Now /\ Now \in Nat
  BY Counter, TickAssumption DEF ClockInv, OsTickTimerReload
<1> QED BY <1>1, RememberInv DEF ClockInv, OsTickTimerReload, Ahead

LEMMA ClockInitInv == TickInit => ClockInv
<1> SUFFICES ASSUME TickInit PROVE ClockInv
  OBVIOUS
<1>1. load \in {n - 1 : n \in Period} /\ load \in Nat
  BY TickAssumption DEF TickInit
<1>2. pos = 0 /\ base = 0 /\ old = 0 /\ real = 0 /\ handler = "none"
      /\ ~pending /\ ~updated /\ ~failed
  BY DEF TickInit
<1>3. /\ pos \in 0 .. load /\ base \in Nat /\ old \in Nat /\ real \in Nat
      /\ load \in {n - 1 : n \in Period}
  BY <1>1, <1>2
<1>4. /\ pending \in BOOLEAN /\ updated \in BOOLEAN /\ failed \in BOOLEAN
      /\ handler \in {"none", "add", "clear", "sched"}
  BY DEF TickInit
<1>5. TickTypeOK
  BY <1>3, <1>4 DEF TickTypeOK
<1> QED BY <1>1, <1>2, <1>5 DEF ClockInv, Ahead, ClockNeverGoesBack

LEMMA ClockNextInv ==
    ASSUME ClockInv, [TickNext]_tickVars
    PROVE  ClockInv'
<1> USE DEF ClockInv, ClockNeverGoesBack
<1>1. CASE Cycle
  BY <1>1, TickAssumption DEF Cycle, TickTypeOK, Ahead
<1>2. CASE TickHandlerChecks
  BY <1>2 DEF TickHandlerChecks, TickTypeOK, Ahead
<1>3. CASE TickHandlerAdds
  BY <1>3, Counter DEF TickHandlerAdds, TickTypeOK, Ahead
<1>4. CASE TickHandlerClears
  BY <1>4 DEF TickHandlerClears, TickTypeOK, Ahead
<1>5. CASE TickHandlerSchedules
  BY <1>5, CycleGetInv, ReloadInv DEF TickHandlerSchedules, TickTypeOK
<1>6. CASE Read
  BY <1>6, CycleGetInv DEF Read, TickTypeOK
<1>7. ASSUME NEW n \in Period, Reload(n) PROVE ClockInv'
  BY <1>7, ReloadInv DEF Reload, TickTypeOK
<1>8. CASE UNCHANGED tickVars
  BY <1>8 DEF tickVars, TickTypeOK, Ahead
<1> QED BY <1>1, <1>2, <1>3, <1>4, <1>5, <1>6, <1>7, <1>8 DEF TickNext

\* The state of the clock keeps its type, and a read of it never returns less than the
\* one before: the assertion of LOS_SysCycleGet (los_tick.c:106) holds whoever moves
\* the base on and whenever the counter is set anew, pending ticks included.
THEOREM ClockForward == TickSpec => [](TickTypeOK /\ ClockNeverGoesBack)
<1>1. ClockInv => TickTypeOK /\ ClockNeverGoesBack
  BY DEF ClockInv
<1> QED BY ClockInitInv, ClockNextInv, <1>1, PTL DEF TickSpec

-----------------------------------------------------------------------------

Uncounted == (pending /\ ~updated) \/ handler = "add"

Exact == real = base + SysTickCycleGet + (IF Uncounted THEN load ELSE 0)

Marked ==
    /\ updated => pending \/ handler = "clear"
    /\ pending => handler = "none"
    /\ old <= real

ExactInv == ClockInv /\ Marked /\ Exact

Undisturbed == ~ReloadPending /\ ~ReadNested

\* A wrap is seen only if there is one to be counted.
LEMMA WrapIsUncounted ==
    ASSUME ExactInv, Wrapped
    PROVE  Uncounted
BY Counter DEF ExactInv, ClockInv, TickTypeOK, Marked, Exact, Wrapped, Uncounted

LEMMA ReadExact ==
    ASSUME ExactInv
    PROVE  /\ Now <= real
           /\ ~Uncounted => Now = real /\ BaseNow = base /\ ~Wrapped
           /\ Wrapped => Now = real /\ Uncounted
BY Counter, WrapIsUncounted
   DEF ExactInv, ClockInv, TickTypeOK, Exact, Now, BaseNow, Wrapped

LEMMA ExactInitInv == TickInit => ExactInv
BY ClockInitInv, TickAssumption
   DEF TickInit, ExactInv, Marked, Exact, Uncounted, SysTickCycleGet

LEMMA CycleExact ==
    ASSUME ExactInv, Cycle
    PROVE  Marked' /\ Exact'
<1> USE DEF ExactInv, ClockInv, TickTypeOK, Cycle
<1>1. Marked'
  BY DEF Marked
<1>2. load \in Nat \ {0} /\ base \in Nat
  BY Counter
<1>3. CASE pos # load
  <2>1. (Uncounted' <=> Uncounted) /\ load' = load
    BY <1>3 DEF Uncounted
  <2>2. CASE pos = 0
    <3>1. SysTickCycleGet = 0 /\ SysTickCycleGet' = 0 /\ real' = real /\ base' = base
      BY <1>2, <1>3, <2>2 DEF SysTickCycleGet
    <3> QED BY <1>1, <2>1, <3>1 DEF Exact
  <2>3. CASE pos # 0
    <3>1. /\ SysTickCycleGet = pos - 1 /\ SysTickCycleGet' = pos
          /\ real' = real + 1 /\ base' = base
      BY <1>2, <1>3, <2>3 DEF SysTickCycleGet
    <3> QED BY <1>1, <1>2, <2>1, <3>1 DEF Exact
  <2> QED BY <2>2, <2>3
<1>4. CASE pos = load
  <2>1. ~Uncounted /\ ~updated
    BY <1>4 DEF Marked, Uncounted
  <2>2. Uncounted' /\ load' = load
    BY <1>4, <2>1 DEF Uncounted
  <2>3. real' = real + 1 /\ SysTickCycleGet = load - 1 /\ SysTickCycleGet' = 0
    BY <1>2, <1>4 DEF SysTickCycleGet
  <2>4. real = base + load - 1
    BY <1>2, <2>1, <2>3 DEF Exact
  <2> QED BY <1>1, <1>2, <2>2, <2>3, <2>4 DEF Exact
<1> QED BY <1>1, <1>3, <1>4

\* Without a nested reader no read comes between the check and the addition.
LEMMA CycleGetExact ==
    ASSUME ExactInv, LOS_SysCycleGet, UNCHANGED <<pending, real>>,
           handler \in {"none", "sched"}, handler' = "none" \/ handler' = handler
    PROVE  Marked' /\ Exact'
<1> USE DEF ExactInv, ClockInv, TickTypeOK, LOS_SysCycleGet, Remember
<1>1. SysTickCycleGet' = SysTickCycleGet
  BY DEF SysTickCycleGet
<1>2. Marked'
  BY ReadExact DEF Marked, Uncounted
<1>3. handler # "add" /\ handler' # "add"
  OBVIOUS
<1>4. CASE Wrapped
  <2>1. Uncounted /\ Now = real /\ BaseNow = base + load
    BY <1>4, ReadExact DEF BaseNow
  <2>2. ~Uncounted' /\ base' = base + load
    BY <1>3, <1>4, <2>1 DEF Uncounted
  <2> QED BY <1>1, <1>2, <2>1, <2>2, Counter DEF Exact
<1>5. CASE ~Wrapped
  <2>1. base' = base /\ updated' = updated
    BY <1>5 DEF BaseNow
  <2>2. Uncounted' <=> Uncounted
    BY <1>3, <2>1 DEF Uncounted
  <2> QED BY <1>1, <1>2, <2>1, <2>2, Counter DEF Exact
<1> QED BY <1>4, <1>5

LEMMA ReloadExact ==
    ASSUME ExactInv, NEW n \in Period, OsTickTimerReload(n), UNCHANGED real,
           ~pending, ~pending', handler \in {"none", "sched"},
           handler' = "none" \/ handler' = handler
    PROVE  Marked' /\ Exact'
<1>1. ~Uncounted /\ ~updated
  BY DEF ExactInv, Marked, Uncounted
<1>2. Now = real /\ ~Wrapped /\ real \in Nat
  BY <1>1, ReadExact DEF ExactInv, ClockInv, TickTypeOK
<1>3. base' = real' /\ old' = real' /\ ~updated' /\ pos' = 0
  BY <1>1, <1>2 DEF OsTickTimerReload, Remember
<1>4. SysTickCycleGet' = 0
  BY <1>3 DEF SysTickCycleGet
<1>5. ~Uncounted'
  BY <1>3 DEF Uncounted
<1> QED BY <1>2, <1>3, <1>4, <1>5 DEF Marked, Exact

LEMMA ExactNextInv ==
    ASSUME Undisturbed, ExactInv, [TickNext]_tickVars
    PROVE  ExactInv'
<1>1. ClockInv'
  BY ClockNextInv DEF ExactInv
<1> SUFFICES Marked' /\ Exact'
  BY <1>1 DEF ExactInv
<1> USE DEF ExactInv, ClockInv, TickTypeOK
<1>2. CASE Cycle
  BY <1>2, CycleExact
<1>3. CASE TickHandlerChecks
  BY <1>3 DEF TickHandlerChecks, MustAdd, Marked, Exact, Uncounted, SysTickCycleGet
<1>4. CASE TickHandlerAdds
  BY <1>4, Counter DEF TickHandlerAdds, Marked, Exact, Uncounted, SysTickCycleGet
<1>5. CASE TickHandlerClears
  BY <1>5 DEF TickHandlerClears, Marked, Exact, Uncounted, SysTickCycleGet
<1>6. CASE TickHandlerSchedules
  BY <1>6, CycleGetExact, ReloadExact DEF TickHandlerSchedules, Marked
<1>7. CASE Read
  BY <1>7, CycleGetExact DEF Read, MayRead, Undisturbed
<1>8. ASSUME NEW n \in Period, Reload(n) PROVE Marked' /\ Exact'
  BY <1>8, ReloadExact DEF Reload, MayRead, Undisturbed
<1>9. CASE UNCHANGED tickVars
  BY <1>9 DEF tickVars, Marked, Exact, Uncounted, SysTickCycleGet
<1> QED BY <1>2, <1>3, <1>4, <1>5, <1>6, <1>7, <1>8, <1>9 DEF TickNext

LEMMA ExactKeepsUp == ExactInv => ClockKeepsUp
BY Counter DEF ExactInv, ClockInv, TickTypeOK, Exact, Uncounted, ClockKeepsUp

\* Whenever no tick is due the clock shows the true time, whoever of the tick handler
\* and the readers has moved the base on (los_tick.c:58 and :99-104).
THEOREM ClockIsExact ==
    ASSUME Undisturbed
    PROVE  TickSpec => []ClockKeepsUp
BY ExactInitInv, ExactNextInv, ExactKeepsUp, PTL DEF TickSpec

-----------------------------------------------------------------------------
(* The timer. *)

LEMMA Limits ==
    /\ Wait \subseteq Nat /\ TimeSlice \in Nat /\ SliceMin \in Nat /\ Left \subseteq Nat
    /\ Precision \in Nat \ {0} /\ PeriodMax \in Nat /\ MaxTime \in Nat
    /\ MaxTime - Precision \in Nat
BY ExpireAssumption, TickAssumption

\* Whatever the timer is set for, the period is one that the counter can have.
LEMMA PeriodInRange ==
    ASSUME TickTypeOK, NEW t \in Int
    PROVE  PeriodFor(t) \in Period /\ PeriodFor(t) \in Nat
BY Counter, ExpireAssumption DEF PeriodFor

LEMMA NextDeadlineType ==
    ASSUME TickTypeOK, NEW ds \in SUBSET Nat
    PROVE  NextDeadline(ds) \in Nat
<1>1. CASE ds = {}
  BY <1>1, Limits DEF NextDeadline
<1>2. CASE ds # {}
  <2>1. Min(ds) \in Nat
    BY <1>2, MinOfNats DEF Min
  <2> QED BY <1>2, <2>1, Counter, Limits DEF NextDeadline
<1> QED BY <1>1, <1>2

\* Setting the timer reads the clock, or sets the counter to a legal period.
LEMMA SetIsReadOrReload ==
    ASSUME TickTypeOK, NEW r \in Nat, NEW ds \in SUBSET Nat, NEW id, NEW taskEnd \in Int,
           OsSchedSetNextExpireTime(r, ds, id, taskEnd)
    PROVE  /\ LOS_SysCycleGet \/ \E n \in Period : OsTickTimerReload(n)
           /\ resp' \in Nat /\ respID' \in {respID, id, NoTask}
<1> DEFINE t == NextExpireTime(ds, taskEnd)
<1>1. t \in Int
  BY NextDeadlineType DEF NextExpireTime
<1>2. PeriodFor(t) \in Period /\ PeriodFor(t) \in Nat
  BY <1>1, PeriodInRange
<1>3. CASE AlreadySet(r, t)
  BY <1>3 DEF OsSchedSetNextExpireTime
<1>4. CASE ~AlreadySet(r, t)
  BY <1>2, <1>4, Counter DEF OsSchedSetNextExpireTime
<1> QED BY <1>3, <1>4

LEMMA UpdateIsReadOrReload ==
    ASSUME ExpireTypeOK, NEW r \in Nat, NEW ds \in SUBSET Nat, NEW left \in Int,
           NEW from \in Nat, UpdateExpireTime(r, ds, left, from)
    PROVE  /\ LOS_SysCycleGet \/ \E n \in Period : OsTickTimerReload(n)
           /\ resp' \in Nat /\ respID' \in {respID, run, NoTask}
<1>1. (IF run = IdleTask THEN MaxTime - Precision
       ELSE from + (IF left <= SliceMin THEN TimeSlice ELSE left)) \in Int
  BY ExpireAssumption
<1> QED BY <1>1, SetIsReadOrReload DEF UpdateExpireTime, ExpireTypeOK

LEMMA ResetType ==
    ASSUME ExpireTypeOK, NEW t
    PROVE  Reset(t) \in Nat
BY ExpireAssumption DEF Reset, ExpireTypeOK

\* The types of the scheduler's part.
SchedType ==
    /\ deadlines \subseteq Nat /\ run \in Worker \cup {IdleTask}
    /\ slice \in Int /\ start \in Nat
    /\ resp \in Nat /\ respID \in Worker \cup {IdleTask, NoTask} /\ asked \in BOOLEAN
    /\ lost \in Nat

LEMMA SwitchStep ==
    ASSUME ExpireTypeOK, SwitchPending => ReloadPending, NEW new \in Worker \cup {IdleTask},
           NEW left \in Nat, NEW wait \in SUBSET Wait, Switch(new, left, wait)
    PROVE  TickNext /\ SchedType'
<1> DEFINE r == IF respID = run THEN MaxTime ELSE resp
           taskEnd == IF new = IdleTask THEN MaxTime - Precision ELSE Now + left
<1>1. TickTypeOK /\ Now \in Nat
  BY Counter DEF ExpireTypeOK
<1>2. deadlines' \subseteq Nat
  <2>1. deadlines' = deadlines \cup {Now + w : w \in wait} /\ deadlines \subseteq Nat
    BY DEF Switch, ExpireTypeOK
  <2>2. \A w \in wait : w \in Nat
    BY Limits
  <2>3. \A w \in wait : Now + w \in Nat
    BY <1>1, <2>2
  <2> QED BY <2>1, <2>3
<1>3. r \in Nat /\ taskEnd \in Int
  BY <1>1, Limits DEF ExpireTypeOK
<1>4. OsSchedSetNextExpireTime(r, deadlines', new, taskEnd)
  BY DEF Switch
<1>5. /\ LOS_SysCycleGet \/ \E n \in Period : OsTickTimerReload(n)
      /\ resp' \in Nat /\ respID' \in {respID, new, NoTask}
  <2> HIDE DEF r, taskEnd
  <2> QED BY <1>1, <1>2, <1>3, <1>4, SetIsReadOrReload
<1>6. TickNext
  BY <1>5 DEF Switch, TickNext, Read, Reload, MayRead
<1>7. /\ run' \in Worker \cup {IdleTask} /\ slice' \in Int /\ start' \in Nat /\ lost' \in Nat
      /\ asked' = FALSE /\ respID' \in Worker \cup {IdleTask, NoTask}
  BY <1>1, <1>5 DEF Switch, ExpireTypeOK
<1> QED BY <1>2, <1>5, <1>6, <1>7 DEF SchedType

LEMMA TimerStep ==
    ASSUME ExpireTypeOK, SwitchPending => ReloadPending, MaySetTimer,
           NEW r \in Nat, deadlines' \subseteq Nat, lost' \in Nat,
           UpdateExpireTime(r, deadlines', slice, start),
           UNCHANGED <<run, slice, start, asked, pending, handler, real>>
    PROVE  TickNext /\ SchedType'
<1>1. slice \in Int /\ start \in Nat
  BY DEF ExpireTypeOK
<1>2. /\ LOS_SysCycleGet \/ \E n \in Period : OsTickTimerReload(n)
      /\ resp' \in Nat /\ respID' \in {respID, run, NoTask}
  BY <1>1, UpdateIsReadOrReload
<1>3. TickNext
  BY <1>2 DEF MaySetTimer, Running, TickNext, Read, Reload, MayRead
<1> QED BY <1>2, <1>3 DEF SchedType, ExpireTypeOK

\* A periodic timer goes on after the present.
LEMMA AgainAfter ==
    ASSUME TickTypeOK
    PROVE  \A n \in Again : n \in Nat /\ n > Now
<1> SUFFICES ASSUME NEW n \in Again PROVE n \in Nat /\ n > Now
  OBVIOUS
<1>1. PICK w \in Wait : n \in Now + 1 .. Now + w
  BY DEF Again
<1>2. w \in Nat /\ Now \in Nat
  BY Limits, Counter
<1> QED BY <1>1, <1>2

\* A software timer expires after the present, or after another that is overdue.
LEMMA ExpiryIs ==
    ASSUME TickTypeOK, deadlines \subseteq Nat, NEW w \in Wait, NEW d \in Expiry(w)
    PROVE  d \in Nat /\ (d >= Now \/ \E e \in deadlines : e <= d)
<1>1. w \in Nat /\ Now \in Nat
  BY Limits, Counter
<1>2. CASE d \in Now + 1 .. Now + w
  BY <1>1, <1>2
<1>3. CASE \E e \in deadlines : d = e + w
  <2>1. PICK e \in deadlines : d = e + w
    BY <1>3
  <2> QED BY <1>1, <2>1
<1> QED BY <1>2, <1>3 DEF Expiry

LEMMA HandlerStep ==
    ASSUME ExpireTypeOK, NEW locked \in BOOLEAN, NEW again \in SUBSET Again,
           SchedTickHandler(locked, again)
    PROVE  TickNext /\ SchedType'
<1>1. TickTypeOK /\ Now \in Nat
  BY Counter DEF ExpireTypeOK
<1>2. /\ deadlines' \subseteq Nat /\ slice' \in Int /\ start' \in Nat /\ run' = run
      /\ asked' \in BOOLEAN /\ lost' \in Nat
  <2>1. deadlines' \subseteq Nat
    <3>1. again \subseteq Nat
      BY AgainAfter, <1>1
    <3> QED BY <3>1 DEF SchedTickHandler, ExpireTypeOK
  <2>2. slice' \in Int /\ start' \in Nat /\ lost' \in Nat
    BY <1>1 DEF SchedTickHandler, ExpireTypeOK
  <2>3. run' = run /\ asked' \in BOOLEAN
    BY DEF SchedTickHandler
  <2> QED BY <2>1, <2>2, <2>3
<1>3. /\ LOS_SysCycleGet \/ \E n \in Period : OsTickTimerReload(n)
      /\ resp' \in Nat /\ respID' \in {respID, run, NoTask}
  <2>1. TickIsOver \in Nat
    BY ExpireAssumption DEF TickIsOver
  <2>2. CASE locked
    <3>1. UpdateExpireTime(TickIsOver, deadlines', slice', Now)
      BY <2>2 DEF SchedTickHandler
    <3> QED BY <1>1, <1>2, <2>1, <3>1, UpdateIsReadOrReload
  <2>3. CASE ~locked
    BY <2>1, <2>3 DEF SchedTickHandler
  <2> QED BY <2>2, <2>3
<1>4. TickNext
  BY <1>3 DEF SchedTickHandler, TickNext, TickHandlerSchedules
<1> QED BY <1>2, <1>3, <1>4 DEF SchedType, ExpireTypeOK

LEMMA CancelType ==
    ASSUME ExpireTypeOK, NEW d, Cancel(d)
    PROVE  deadlines' \subseteq deadlines /\ lost' \in {lost, lost + Precision} /\ lost' \in Nat
BY ExpireAssumption DEF Cancel, ExpireTypeOK

LEMMA ExpireStep ==
    ASSUME ExpireTypeOK, SwitchPending => ReloadPending, ExpireNext
    PROVE  [TickNext]_tickVars /\ SchedType'
<1>1. CASE Time
  BY <1>1 DEF Time, TickNext, expireVars, SchedType, ExpireTypeOK
<1>2. CASE (TickHandlerChecks \/ TickHandlerAdds \/ TickHandlerClears \/ Read)
           /\ ~asked /\ UNCHANGED expireVars
  BY <1>2 DEF TickNext, expireVars, SchedType, ExpireTypeOK
<1>3. ASSUME NEW locked \in BOOLEAN, NEW again \in SUBSET Again,
             SchedTickHandler(locked, again)
      PROVE  TickNext /\ SchedType'
  BY <1>3, HandlerStep
<1>4. ASSUME NEW new \in Worker \cup {IdleTask}, NEW left \in Left \cup {0},
             NEW wait \in SUBSET Wait, Switch(new, left, wait)
      PROVE  TickNext /\ SchedType'
  <2>1. left \in Nat
    BY ExpireAssumption
  <2> QED BY <1>4, <2>1, SwitchStep
<1>5. ASSUME NEW w \in Wait, NEW d \in Expiry(w), TimerStart(d) PROVE TickNext /\ SchedType'
  <2>1. resp \in Nat /\ deadlines' \subseteq Nat
    <3>1. d \in Nat
      BY ExpiryIs DEF ExpireTypeOK
    <3> QED BY <1>5, <3>1 DEF TimerStart, ExpireTypeOK
  <2>2. lost' \in Nat
    BY <1>5 DEF TimerStart, ExpireTypeOK
  <2> QED BY <1>5, <2>1, <2>2, TimerStep DEF TimerStart
<1>6. ASSUME NEW d \in deadlines, TimerStop(d) PROVE TickNext /\ SchedType'
  <2>1. Reset(d) \in Nat /\ deadlines' \subseteq Nat /\ lost' \in Nat
    BY <1>6, ResetType, CancelType DEF TimerStop, ExpireTypeOK
  <2> QED BY <1>6, <2>1, TimerStep DEF TimerStop
<1>7. ASSUME NEW d \in deadlines, Wake(d) PROVE UNCHANGED tickVars /\ SchedType'
  BY <1>7, ResetType, CancelType DEF Wake, SchedType, ExpireTypeOK
<1> QED BY <1>1, <1>2, <1>3, <1>4, <1>5, <1>6, <1>7 DEF ExpireNext

LEMMA ExpireInitInv == ExpireInit => ExpireTypeOK /\ ClockInv /\ ExactInv
<1> SUFFICES ASSUME ExpireInit PROVE ExpireTypeOK /\ ClockInv /\ ExactInv
  OBVIOUS
<1>1. ClockInv /\ ExactInv
  BY ClockInitInv, ExactInitInv DEF ExpireInit
<1>2. TickTypeOK
  BY <1>1 DEF ClockInv
<1>3. resp \in Nat /\ slice \in Int
  BY <1>2, Counter, ExpireAssumption DEF ExpireInit
<1> QED BY <1>1, <1>2, <1>3 DEF ExpireInit, ExpireTypeOK

ExpireInv == ExpireTypeOK /\ ClockInv

LEMMA ExpireNextInv ==
    ASSUME SwitchPending => ReloadPending, ExpireInv, [ExpireNext]_<<tickVars, expireVars>>
    PROVE  [TickNext]_tickVars /\ ExpireInv'
<1>1. CASE ExpireNext
  <2>1. [TickNext]_tickVars /\ SchedType'
    BY <1>1, ExpireStep DEF ExpireInv
  <2>2. ClockInv'
    BY <2>1, ClockNextInv DEF ExpireInv
  <2> QED BY <2>1, <2>2 DEF ExpireInv, ExpireTypeOK, SchedType, ClockInv
<1>2. CASE UNCHANGED <<tickVars, expireVars>>
  <2>1. ClockInv'
    BY <1>2, ClockNextInv DEF ExpireInv
  <2> QED BY <1>2, <2>1 DEF ExpireInv, ExpireTypeOK, expireVars, ClockInv
<1> QED BY <1>1, <1>2

\* Whatever the scheduler sets the timer for, it handles the clock as LosTick says:
\* every period is one the counter can have (los_sched.c:112-116, the clipping in
\* SysTickReload), and it is set anew where LosTick allows it.
THEOREM ExpireIsTick ==
    ASSUME SwitchPending => ReloadPending
    PROVE  ExpireSpec => TickSpec
<1>1. ExpireInit => TickInit /\ ExpireInv
  BY ExpireInitInv DEF ExpireInit, ExpireInv
<1>2. ExpireInv /\ [ExpireNext]_<<tickVars, expireVars>> => [TickNext]_tickVars /\ ExpireInv'
  BY ExpireNextInv
<1> QED BY <1>1, <1>2, PTL DEF ExpireSpec, TickSpec

\* Without a switch under a pending tick and without nested readers, the clock of a kernel
\* that sets its timer on demand shows the true time whenever no tick is due.
THEOREM ExpireClockIsExact ==
    ASSUME Undisturbed, ~SwitchPending
    PROVE  ExpireSpec => []ClockKeepsUp
BY ClockIsExact, ExpireIsTick, PTL

\* The types hold, and the clock of a kernel that sets its timer on demand never goes back.
THEOREM ExpireTypes ==
    ASSUME SwitchPending => ReloadPending
    PROVE  ExpireSpec => [](ExpireTypeOK /\ ClockNeverGoesBack)
<1>1. ExpireInit => ExpireInv
  BY ExpireInitInv DEF ExpireInv
<1>2. ExpireInv /\ [ExpireNext]_<<tickVars, expireVars>> => ExpireInv'
  BY ExpireNextInv
<1>3. ExpireInv => ExpireTypeOK /\ ClockNeverGoesBack
  BY DEF ExpireInv, ClockInv
<1> QED BY <1>1, <1>2, <1>3, PTL DEF ExpireSpec

-----------------------------------------------------------------------------
\* The software timers, and the clock with the timer interrupt, keep their types, as they
\* are checked together.
THEOREM TimersTypes ==
    ASSUME ~RestartExpired, SwitchPending => ReloadPending
    PROVE  TimersSpec => []TimersTypeOK
<1> DEFINE Inv == SwtmrTypeInv /\ ExpireInv
<1>1. TimersInit => Inv
  BY SwtmrTypesInitInv, ExpireInitInv DEF TimersInit, ExpireInv
<1>2. Inv /\ [TimersNext]_timersVars => Inv'
  <2> SUFFICES ASSUME SwtmrTypeInv, ExpireInv, [TimersNext]_timersVars
               PROVE  SwtmrTypeInv' /\ ExpireInv'
    OBVIOUS
  <2>1. [SwtmrNext]_swtmrVars /\ [ExpireNext]_<<tickVars, expireVars>>
    BY DEF TimersNext, timersVars
  <2> QED BY <2>1, SwtmrTypesNextInv, ExpireNextInv
<1>3. Inv => TimersTypeOK
  BY SwtmrTypesHold DEF ExpireInv, TimersTypeOK
<1> QED BY <1>1, <1>2, <1>3, PTL DEF TimersSpec

-----------------------------------------------------------------------------
(* The deadlines.  A setting of the timer is in time for all of them, or   *)
(* it is urgent: then nothing sets it anew before it fires, unless a late  *)
(* cancel cuts it off.                                                     *)

Fire == base + load
Idling == ~pending /\ handler = "none"

Soon == \A d \in deadlines : Fire + 1 < d + 2 * Precision

Urgent ==
    /\ respID = NoTask /\ resp = Fire + 1 /\ resp <= real + Precision
    /\ \A d \in deadlines : Fire + 1 < d + 3 * Precision + Latency + lost

\* The urgent setting is forgotten; the next one may be as urgent, a Precision later.
Cut ==
    /\ respID = NoTask /\ resp = MaxTime /\ Fire + 1 <= real + Precision
    /\ \A d \in deadlines : Fire + 1 < d + 2 * Precision + Latency + lost

SetInv == Idling /\ ~asked => resp \in {Fire + 1, MaxTime} /\ (Soon \/ Urgent \/ Cut)

\* The tick of a slice has come, and the deadlines are not looked at.
FiredInv ==
    ~Idling =>
        /\ pos <= Latency /\ ~asked
        /\ respID # NoTask => \A d \in deadlines : real + 1 < d + 2 * Precision + pos

Waitable(ds, l) == \A d \in ds : real + 1 < d + 2 * Precision + Latency + l

AskedInv == asked => resp = MaxTime /\ Waitable(deadlines, lost)

DeadlineInv ==
    /\ ExpireTypeOK /\ ExactInv /\ real <= MaxReal
    /\ SetInv /\ FiredInv /\ AskedInv

LEMMA DeadlineLimits ==
    /\ Precision \in Nat /\ Precision > 1 /\ PeriodMax \in Nat /\ Precision <= PeriodMax
    /\ MaxReal \in Nat /\ TimeSlice \in Nat /\ MaxTime \in Nat /\ Latency \in Nat
    /\ MaxTime > MaxReal + TimeSlice + PeriodMax + Precision
    /\ MinPeriod \in Nat /\ Precision <= MinPeriod /\ SliceMin \in Nat /\ SliceMin < TimeSlice
    /\ \A w \in Wait : w \in Nat
    /\ \A left \in Left : left \in Nat
    /\ \A n \in Period : n \in Nat /\ n <= PeriodMax
<1>1. \A w \in Wait : w \in Nat
  BY ExpireAssumption
<1>2. \A left \in Left : left \in Nat
  BY ExpireAssumption
<1> QED BY <1>1, <1>2, ExpireAssumption, TickAssumption

\* While no tick is due the clock is right, and the timer fires later.
LEMMA QuietClock ==
    ASSUME ExpireTypeOK, ExactInv, ~pending, handler \in {"none", "sched"}
    PROVE  /\ Now = real /\ BaseNow = base /\ real = base + SysTickCycleGet
           /\ Now < Fire /\ Fire \in Nat /\ real \in Nat /\ Fire <= real + PeriodMax
<1>1. ~Uncounted
  BY DEF Uncounted
<1>3. /\ SysTickCycleGet \in 0 .. load - 1 /\ load \in Nat \ {0} /\ base \in Nat /\ real \in Nat
  BY Counter DEF ExpireTypeOK, TickTypeOK
<1>2. Now = real /\ BaseNow = base /\ real = base + SysTickCycleGet
  <2>1. Now = real /\ BaseNow = base
    BY <1>1, ReadExact
  <2>2. real = base + SysTickCycleGet + (IF Uncounted THEN load ELSE 0)
    BY DEF ExactInv, Exact
  <2> QED BY <1>1, <1>3, <2>1, <2>2
<1>4. load <= PeriodMax
  <2>1. PICK n \in Period : load = n - 1
    BY DEF ExpireTypeOK, TickTypeOK
  <2> QED BY <2>1, DeadlineLimits
<1> QED BY <1>2, <1>3, <1>4, DeadlineLimits DEF Fire

LEMMA NextDeadlineIs ==
    ASSUME TickTypeOK, NEW ds \in SUBSET Nat, Now <= MaxReal
    PROVE  /\ NextDeadline(ds) \in Nat /\ Now \in Nat
           /\ \/ NextDeadline(ds) = Now + Precision
              \/ /\ NextDeadline(ds) > Now + Precision
                 /\ \A d \in ds : NextDeadline(ds) <= d
<1>1. Now \in Nat
  BY Counter
<1>2. CASE ds = {}
  BY <1>1, <1>2, DeadlineLimits DEF NextDeadline
<1>3. CASE ds # {}
  <2>1. Min(ds) \in Nat /\ Min(ds) \in ds /\ \A d \in ds : Min(ds) <= d
    BY <1>3, MinOfNats DEF Min
  <2> QED BY <1>1, <1>3, <2>1, DeadlineLimits DEF NextDeadline
<1> QED BY <1>2, <1>3

\* A slice for which the timer is set ends before all deadlines.
LEMMA SliceBeforeDeadlines ==
    ASSUME TickTypeOK, NEW ds \in SUBSET Nat, Now <= MaxReal, NEW taskEnd \in Int,
           taskEnd >= Now, IsTimeSlice(ds, taskEnd)
    PROVE  \A d \in ds : d > taskEnd + Precision /\ d > Now + Precision
<1>1. NextDeadline(ds) \in Nat /\ Now \in Nat
  BY NextDeadlineIs
<1>2. NextDeadline(ds) > taskEnd + Precision
  BY <1>1, DeadlineLimits DEF IsTimeSlice
<1>3. \A d \in ds : NextDeadline(ds) <= d
  BY <1>1, <1>2, NextDeadlineIs, DeadlineLimits
<1> QED BY <1>1, <1>2, <1>3, DeadlineLimits

\* However the timer is set, and from whatever setting, the deadlines are met; r is what
\* it is taken to be set for.
LEMMA SettingMeets ==
    ASSUME ExpireTypeOK, ExactInv, ~pending, handler \in {"none", "sched"}, real <= MaxReal,
           NEW r \in Nat, NEW l \in Nat, lost' = l, NEW id, NEW taskEnd \in Int, taskEnd >= Now,
           NEW ds \in SUBSET Nat, deadlines' = ds, real' = real,
           OsSchedSetNextExpireTime(r, ds, id, taskEnd),
           \/ r = MaxTime /\ Waitable(ds, l)
           \/ r = Fire + 1 /\ \A d \in ds : Fire + 1 < d + 2 * Precision \/ d >= Now
           \/ /\ r = Fire + 1 /\ respID = NoTask /\ r <= Now + Precision
              /\ \A d \in ds : Fire + 1 < d + 3 * Precision + Latency + l
    PROVE  resp' \in {Fire' + 1, MaxTime} /\ (Soon' \/ Urgent')
<1> DEFINE t == NextExpireTime(ds, taskEnd)
           next == NextDeadline(ds)
<1>1. /\ Now = real /\ BaseNow = base /\ Now < Fire /\ Fire \in Nat /\ Now \in Nat /\ base \in Nat
      /\ Fire <= Now + PeriodMax
  <2>1. base \in Nat
    BY DEF ExpireTypeOK, TickTypeOK
  <2> QED BY <2>1, QuietClock
<1>2. TickTypeOK /\ Now <= MaxReal
  BY <1>1 DEF ExpireTypeOK
<1>3. /\ next \in Nat
      /\ \/ next = Now + Precision
         \/ next > Now + Precision /\ \A d \in ds : next <= d
  BY <1>2, NextDeadlineIs
<1>4. CASE IsTimeSlice(ds, taskEnd)
  <2>1. t = taskEnd
    BY <1>4 DEF NextExpireTime
  <2>2. \A d \in ds : d > taskEnd + Precision /\ d > Now + Precision
    BY <1>2, <1>4, SliceBeforeDeadlines
  <2> SUFFICES resp' \in {Fire' + 1, MaxTime} /\ \A d \in ds : Fire' + 1 < d + 2 * Precision
    BY DEF Soon
  <2> HIDE DEF t, next
  <2>3. CASE AlreadySet(r, t)
    <3>1. Fire' = Fire /\ resp' = r
      BY <1>1, <2>3 DEF OsSchedSetNextExpireTime, t, LOS_SysCycleGet, Fire
    <3>2. r \in {Fire + 1, MaxTime}
      OBVIOUS
    <3>3. \A d \in ds : Fire + 1 < d + 2 * Precision
      <4> SUFFICES ASSUME NEW d \in ds PROVE Fire + 1 < d + 2 * Precision
        OBVIOUS
      <4>1. d \in Nat /\ d > taskEnd + Precision /\ r < taskEnd + Precision
        BY <2>1, <2>2, <2>3, DeadlineLimits DEF AlreadySet
      <4> QED BY <1>1, <1>2, <3>2, <4>1, DeadlineLimits
    <3> QED BY <3>1, <3>2, <3>3
  <2>4. CASE ~AlreadySet(r, t)
    <3>1. /\ OsTickTimerReload(PeriodFor(t)) /\ resp' = Now + PeriodFor(t)
      BY <2>4 DEF OsSchedSetNextExpireTime, t
    <3>2. PeriodFor(t) \in Nat /\ (PeriodFor(t) = Precision \/ PeriodFor(t) <= taskEnd - Now)
      BY <1>1, <2>1, DeadlineLimits DEF PeriodFor
    <3>3. Fire' + 1 = Now + PeriodFor(t)
      <4> HIDE DEF t
      <4>1. base' = Now /\ load' = PeriodFor(t) - 1
        BY <3>1 DEF OsTickTimerReload
      <4> QED BY <1>1, <3>2, <4>1 DEF Fire
    <3>4. ASSUME NEW d \in ds PROVE Fire' + 1 < d + 2 * Precision
      <4>1. d \in Nat /\ d > taskEnd + Precision /\ d > Now + Precision
        BY <2>2
      <4> QED BY <1>1, <3>2, <3>3, <4>1, DeadlineLimits
    <3> QED BY <3>1, <3>3, <3>4
  <2> QED BY <2>3, <2>4
<1>5. CASE ~IsTimeSlice(ds, taskEnd)
  <2>1. t = next
    BY <1>5 DEF NextExpireTime
  <2> HIDE DEF t, next
  <2>2. CASE AlreadySet(r, t)
    <3>1. Fire' = Fire /\ resp' = r /\ respID' = respID
      BY <1>1, <2>2 DEF OsSchedSetNextExpireTime, t, LOS_SysCycleGet, Fire
    <3>2. r < next + Precision
      BY <1>3, <2>1, <2>2, DeadlineLimits DEF AlreadySet
    <3>3. CASE r = MaxTime
      <4>1. \A d \in ds : d \in Nat /\ MaxTime < d + Precision
        <5>1. next > Now + Precision
          BY <1>1, <1>2, <1>3, <3>2, <3>3, DeadlineLimits
        <5> QED BY <1>3, <3>2, <3>3, <5>1, DeadlineLimits
      <4>2. \A d \in ds : Fire + 1 < d + 2 * Precision
        BY <1>1, <1>2, <4>1, DeadlineLimits
      <4> QED BY <3>1, <3>3, <4>2 DEF Soon
    <3>4. CASE r = Fire + 1 /\ \A d \in ds : Fire + 1 < d + 2 * Precision \/ d >= Now
      <4>1. ASSUME NEW d \in ds PROVE Fire + 1 < d + 2 * Precision
        <5>1. CASE d >= Now
          <6>1. d \in Nat /\ next <= d + Precision
            BY <1>1, <1>3, <5>1, DeadlineLimits
          <6> QED BY <1>1, <1>3, <3>2, <3>4, <6>1, DeadlineLimits
        <5> QED BY <3>4, <5>1
      <4> QED BY <3>1, <3>4, <4>1 DEF Soon
    <3>5. CASE /\ r = Fire + 1 /\ respID = NoTask /\ r <= Now + Precision
               /\ \A d \in ds : Fire + 1 < d + 3 * Precision + Latency + l
      BY <1>1, <3>1, <3>5 DEF Urgent
    <3> QED BY <3>3, <3>4, <3>5
  <2>3. CASE ~AlreadySet(r, t)
    <3>1. /\ OsTickTimerReload(PeriodFor(t)) /\ resp' = Now + PeriodFor(t) /\ respID' = NoTask
      BY <1>5, <2>3 DEF OsSchedSetNextExpireTime, t
    <3>2. /\ PeriodFor(t) \in Nat /\ PeriodFor(t) <= next - Now
          /\ next = Now + Precision => PeriodFor(t) = Precision
      BY <1>1, <1>3, <2>1, DeadlineLimits DEF PeriodFor
    <3>3. Fire' + 1 = Now + PeriodFor(t)
      <4>1. base' = Now /\ load' = PeriodFor(t) - 1
        BY <3>1 DEF OsTickTimerReload
      <4> QED BY <1>1, <3>2, <4>1 DEF Fire
    <3>4. CASE next > Now + Precision /\ \A d \in ds : next <= d
      <4>1. ASSUME NEW d \in ds PROVE Fire' + 1 < d + 2 * Precision
        <5>1. d \in Nat /\ next <= d
          BY <3>4
        <5> QED BY <1>1, <1>3, <3>2, <3>3, <5>1, DeadlineLimits
      <4> QED BY <3>1, <3>3, <4>1 DEF Soon
    <3>5. CASE next = Now + Precision
      <4>1. Fire' + 1 = Now + Precision
        BY <3>2, <3>3, <3>5
      <4>2. ASSUME NEW d \in ds PROVE Fire' + 1 < d + 3 * Precision + Latency + l
        <5>1. d \in Nat
          OBVIOUS
        <5>2. r > Now + Precision /\ r - (Now + Precision) >= Precision
          BY <1>1, <2>1, <2>3, <3>5, DeadlineLimits DEF AlreadySet
        <5>3. CASE r = MaxTime /\ Waitable(ds, l)
          <6>1. real + 1 < d + 2 * Precision + Latency + l
            BY <5>3 DEF Waitable
          <6> QED BY <1>1, <4>1, <5>1, <6>1, DeadlineLimits
        <5>4. CASE r = Fire + 1 /\ (Fire + 1 < d + 2 * Precision \/ d >= Now)
          BY <1>1, <4>1, <5>1, <5>2, <5>4, DeadlineLimits
        <5>5. CASE r <= Now + Precision
          BY <1>1, <5>2, <5>5, DeadlineLimits
        <5> QED BY <5>3, <5>4, <5>5
      <4> QED BY <1>1, <3>1, <3>2, <3>3, <3>5, <4>2 DEF Urgent
    <3> QED BY <1>3, <3>4, <3>5
  <2> QED BY <2>2, <2>3
<1> QED BY <1>4, <1>5

\* New deadlines are not over, or not before one that there is: an aligned timer's.
NotBefore(added) == \A d \in added : d >= Now \/ \E e \in deadlines : e <= d

\* What a setting starts from, while nothing is asked for; added are new deadlines.
LEMMA SettingFrom ==
    ASSUME DeadlineInv, Idling, ~asked, NEW added \in SUBSET Nat, NotBefore(added),
           NEW ds \in SUBSET (deadlines \cup added), NEW r \in Nat,
           NEW l \in Nat, lost <= l,
           r = resp \/ (r = MaxTime /\ (Urgent => l = lost + Precision))
    PROVE  \/ r = MaxTime /\ Waitable(ds, l)
           \/ r = Fire + 1 /\ \A d \in ds : Fire + 1 < d + 2 * Precision \/ d >= Now
           \/ /\ r = Fire + 1 /\ respID = NoTask /\ r <= Now + Precision
              /\ \A d \in ds : Fire + 1 < d + 3 * Precision + Latency + l
<1>1. /\ Now = real /\ Now < Fire /\ Fire \in Nat /\ Now \in Nat /\ Fire <= Now + PeriodMax
      /\ real <= MaxReal
  BY QuietClock DEF DeadlineInv, Idling
<1>2. \A d \in ds : d \in Nat
  BY DEF DeadlineInv, ExpireTypeOK
<1>3. resp \in {Fire + 1, MaxTime} /\ (Soon \/ Urgent \/ Cut) /\ lost \in Nat
  BY DEF DeadlineInv, SetInv, ExpireTypeOK
<1>4. CASE Urgent /\ r = resp
  <2>1. /\ r = Fire + 1 /\ respID = NoTask /\ r <= Now + Precision
    BY <1>1, <1>4 DEF Urgent
  <2>2. ASSUME NEW d \in ds PROVE Fire + 1 < d + 3 * Precision + Latency + l
    <3>1. d >= Now \/ \E e \in deadlines : e <= d
      BY <1>2 DEF NotBefore
    <3>2. CASE d >= Now
      BY <1>1, <1>2, <2>1, <3>2, DeadlineLimits
    <3>3. ASSUME NEW e \in deadlines, e <= d PROVE Fire + 1 < d + 3 * Precision + Latency + l
      <4>1. Fire + 1 < e + 3 * Precision + Latency + lost /\ e \in Nat
        BY <1>4 DEF Urgent, DeadlineInv, ExpireTypeOK
      <4> QED BY <1>1, <1>2, <1>3, <3>3, <4>1, DeadlineLimits
    <3> QED BY <3>1, <3>2, <3>3
  <2> QED BY <2>1, <2>2
<1>6. CASE (Urgent /\ r # resp) \/ (Cut /\ ~Urgent)
  <2>1. r = MaxTime
    BY <1>6 DEF Cut
  <2>2. ASSUME NEW d \in deadlines PROVE Fire + 1 < d + 2 * Precision + Latency + l
    <3>1. d \in Nat
      BY DEF DeadlineInv, ExpireTypeOK
    <3>2. CASE Urgent
      <4>1. l = lost + Precision /\ Fire + 1 < d + 3 * Precision + Latency + lost
        BY <1>6, <3>2 DEF Urgent
      <4> QED BY <1>1, <1>3, <3>1, <4>1, DeadlineLimits
    <3>3. CASE Cut
      <4>1. Fire + 1 < d + 2 * Precision + Latency + lost
        BY <3>3 DEF Cut
      <4> QED BY <1>1, <1>3, <3>1, <4>1, DeadlineLimits
    <3> QED BY <1>6, <3>2, <3>3
  <2>3. ASSUME NEW d \in ds PROVE real + 1 < d + 2 * Precision + Latency + l
    <3>1. d >= Now \/ \E e \in deadlines : e <= d
      BY <1>2 DEF NotBefore
    <3>2. CASE d >= Now
      BY <1>1, <1>2, <3>2, DeadlineLimits
    <3>3. ASSUME NEW e \in deadlines, e <= d
          PROVE  real + 1 < d + 2 * Precision + Latency + l
      <4>1. Fire + 1 < e + 2 * Precision + Latency + l /\ e \in Nat
        BY <2>2 DEF DeadlineInv, ExpireTypeOK
      <4> QED BY <1>1, <1>2, <3>3, <4>1, DeadlineLimits
    <3> QED BY <3>1, <3>2, <3>3
  <2> QED BY <2>1, <2>3 DEF Waitable
<1>5. CASE Soon /\ ~Urgent
  <2>1. ASSUME NEW d \in ds PROVE Fire + 1 < d + 2 * Precision \/ d >= Now
    <3>1. d >= Now \/ \E e \in deadlines : e <= d
      BY <1>2 DEF NotBefore
    <3>2. ASSUME NEW e \in deadlines, e <= d PROVE Fire + 1 < d + 2 * Precision
      <4>1. Fire + 1 < e + 2 * Precision /\ e \in Nat
        BY <1>5 DEF Soon, DeadlineInv, ExpireTypeOK
      <4> QED BY <1>1, <1>2, <3>2, <4>1, DeadlineLimits
    <3> QED BY <3>1, <3>2
  <2>2. CASE r = MaxTime
    <3>1. ASSUME NEW d \in ds PROVE real + 1 < d + 2 * Precision + Latency + l
      <4>1. d \in Nat /\ (Fire + 1 < d + 2 * Precision \/ d >= Now)
        BY <1>2, <2>1
      <4> QED BY <1>1, <4>1, DeadlineLimits
    <3> QED BY <2>2, <3>1 DEF Waitable
  <2>3. CASE r # MaxTime
    BY <1>3, <1>5, <2>1, <2>3
  <2> QED BY <2>2, <2>3
<1> QED BY <1>3, <1>4, <1>5, <1>6

LEMMA DeadlineInit == ExpireInit => SetInv /\ FiredInv /\ AskedInv /\ real <= MaxReal
<1> SUFFICES ASSUME ExpireInit PROVE SetInv /\ FiredInv /\ AskedInv /\ real <= MaxReal
  OBVIOUS
<1>1. load \in Nat /\ base = 0 /\ resp = load + 1 /\ real = 0
  <2>1. TickTypeOK
    BY ExpireInitInv DEF ExpireTypeOK
  <2> QED BY <2>1, Counter DEF ExpireInit, TickInit
<1>2. ~pending /\ handler = "none" /\ ~asked /\ deadlines = {}
  BY DEF ExpireInit, TickInit
<1> QED BY <1>1, <1>2, DeadlineLimits DEF SetInv, FiredInv, AskedInv, Fire, Soon, Idling

\* What the time does.
LEMMA TimeMeets ==
    ASSUME DeadlineInv, Time
    PROVE  SetInv' /\ FiredInv' /\ AskedInv' /\ real' <= MaxReal
<1>1. /\ ~asked /\ ~asked' /\ handler = "none" /\ handler' = "none" /\ deadlines' = deadlines
      /\ resp' = resp /\ respID' = respID /\ load' = load /\ base' = base /\ lost' = lost
  BY DEF Time, Cycle, expireVars
<1>2. /\ load \in Nat \ {0} /\ pos \in 0 .. load /\ real \in Nat /\ base \in Nat /\ MaxReal \in Nat
  BY Counter, DeadlineLimits DEF DeadlineInv, ExpireTypeOK, TickTypeOK
<1>3. /\ real' = IF pos = 0 THEN real ELSE real + 1
      /\ pos' = IF pos = load THEN 0 ELSE pos + 1
      /\ real < MaxReal /\ (pending => pos < Latency /\ pos # load)
  BY <1>1 DEF Time, Cycle
<1>9. /\ pending \/ pos = load => pending'
      /\ ~pending /\ pos # load => ~pending'
  BY DEF Time, Cycle
<1>4. real' <= MaxReal
  BY <1>2, <1>3
<1>5. AskedInv'
  BY <1>1 DEF AskedInv
<1>6. \A d \in deadlines : d \in Nat
  BY DEF DeadlineInv, ExpireTypeOK
<1>7. CASE pending
  <2>1. /\ pos <= Latency
        /\ respID # NoTask => \A d \in deadlines : real + 1 < d + 2 * Precision + pos
    BY <1>7 DEF DeadlineInv, FiredInv, Idling
  <2>5. pending' /\ pos' = pos + 1 /\ pos < Latency
    BY <1>3, <1>7, <1>9
  <2>2. pending' /\ pos' = pos + 1 /\ pos' <= Latency
    BY <1>2, <2>5, DeadlineLimits
  <2>3. respID # NoTask => \A d \in deadlines : real' + 1 < d + 2 * Precision + pos'
    <3> SUFFICES ASSUME respID # NoTask, NEW d \in deadlines
                 PROVE  real' + 1 < d + 2 * Precision + pos'
      OBVIOUS
    <3>1. real + 1 < d + 2 * Precision + pos /\ d \in Nat
      BY <1>6, <2>1
    <3>2. real' \in Nat /\ (real' = real \/ real' = real + 1)
      BY <1>2, <1>3
    <3>3. pos \in Nat /\ pos' = pos + 1
      BY <1>2, <2>2
    <3>4. Precision \in Nat /\ real \in Nat
      BY <1>2, DeadlineLimits
    <3>5. PICK x \in Nat, y \in Nat, p \in Nat, z \in Nat :
              x = real /\ y = pos /\ p = Precision /\ z = real'
      BY <3>2, <3>3, <3>4
    <3>6. x + 1 < d + 2 * p + y /\ z <= x + 1 /\ d \in Nat /\ pos' = y + 1
      BY <3>1, <3>2, <3>3, <3>5
    <3>7. z + 1 < d + 2 * p + (y + 1)
      BY <3>6
    <3> QED BY <3>5, <3>6, <3>7
  <2> QED BY <1>1, <1>4, <1>5, <2>2, <2>3 DEF SetInv, FiredInv, Idling
<1>8. CASE ~pending
  <2>1. resp \in {Fire + 1, MaxTime} /\ (Soon \/ Urgent \/ Cut)
    BY <1>1, <1>8 DEF DeadlineInv, SetInv, Idling
  <2>2. real = base + SysTickCycleGet
    BY <1>1, <1>8, QuietClock DEF DeadlineInv
  <2>3. Fire' = Fire
    BY <1>1 DEF Fire
  <2>4. CASE pos # load
    <3>1. ~pending'
      BY <1>8, <1>9, <2>4
    <3>2. Soon => Soon'
      BY <1>1, <2>3 DEF Soon
    <3>3. Urgent => Urgent'
      <4>1. Urgent => resp' <= real' + Precision
        <5>1. resp \in Nat
          BY DEF DeadlineInv, ExpireTypeOK
        <5> QED BY <1>1, <1>2, <1>3, <5>1, DeadlineLimits DEF Urgent
      <4> QED BY <1>1, <2>3, <4>1 DEF Urgent
    <3>4. Cut => Cut'
      <4>1. Fire \in Nat /\ (Fire + 1 <= real + Precision => Fire + 1 <= real' + Precision)
        BY <1>2, <1>3, DeadlineLimits DEF Fire
      <4> QED BY <1>1, <2>3, <4>1 DEF Cut
    <3> QED BY <1>1, <1>4, <1>5, <2>1, <2>3, <3>1, <3>2, <3>3, <3>4 DEF SetInv, FiredInv, Idling
  <2>5. CASE pos = load
    <3>3. pending' /\ pos' = 0 /\ pos # 0
      BY <1>2, <1>3, <1>9, <2>5
    <3>4. SysTickCycleGet = load - 1 /\ real' = real + 1
      BY <1>3, <2>5, <3>3 DEF SysTickCycleGet
    <3>1. pending' /\ pos' = 0 /\ real' = Fire
      BY <1>2, <2>2, <3>3, <3>4 DEF Fire
    <3>2. respID # NoTask => \A d \in deadlines : real' + 1 < d + 2 * Precision + pos'
      BY <1>6, <2>1, <3>1, DeadlineLimits DEF Soon, Urgent, Cut
    <3> QED BY <1>1, <1>4, <1>5, <3>1, <3>2, DeadlineLimits DEF SetInv, FiredInv, Idling
  <2> QED BY <2>4, <2>5
<1> QED BY <1>7, <1>8

LEMMA ClockStepsMeet ==
    ASSUME DeadlineInv, TickHandlerChecks \/ TickHandlerAdds \/ TickHandlerClears \/ Read,
           ~asked, UNCHANGED expireVars
    PROVE  SetInv' /\ FiredInv' /\ AskedInv' /\ real' <= MaxReal
<1>1. /\ deadlines' = deadlines /\ resp' = resp /\ respID' = respID /\ asked' = asked
      /\ lost' = lost
  BY DEF expireVars
<1>2. /\ real' = real /\ pos' = pos /\ load' = load /\ real <= MaxReal
  BY DEF TickHandlerChecks, TickHandlerAdds, TickHandlerClears, Read, LOS_SysCycleGet, DeadlineInv
<1>3. AskedInv'
  BY <1>1 DEF AskedInv
<1>4. CASE ~Idling
  <2>1. ~Idling'
    BY <1>4 DEF Idling, TickHandlerChecks, TickHandlerAdds, TickHandlerClears, Read
  <2> QED BY <1>1, <1>2, <1>3, <1>4, <2>1 DEF DeadlineInv, SetInv, FiredInv
<1>5. CASE Idling
  <2>1. Read
    BY <1>5 DEF Idling, TickHandlerChecks, TickHandlerAdds, TickHandlerClears
  <2>2. Idling' /\ base' = base
    <3>1. BaseNow = base
      BY <1>5, QuietClock DEF DeadlineInv, Idling
    <3> QED BY <1>5, <2>1, <3>1 DEF Idling, Read, LOS_SysCycleGet
  <2>3. Fire' = Fire /\ (Soon => Soon') /\ (Urgent => Urgent') /\ (Cut => Cut')
    BY <1>1, <1>2, <2>2 DEF Fire, Soon, Urgent, Cut
  <2> QED BY <1>1, <1>2, <1>3, <1>5, <2>2, <2>3 DEF DeadlineInv, SetInv, FiredInv
<1> QED BY <1>4, <1>5

LEMMA TakenEndsLater ==
    ASSUME ExpireTypeOK, Now \in Nat, Now <= MaxReal
    PROVE  MaxTime - Precision \in Nat /\ MaxTime - Precision >= Now
BY DeadlineLimits

LEMMA SwitchMeets ==
    ASSUME DeadlineInv, ~SwitchPending, NEW new \in Worker \cup {IdleTask},
           NEW left \in Nat, NEW wait \in SUBSET Wait, Switch(new, left, wait)
    PROVE  SetInv' /\ FiredInv' /\ AskedInv' /\ real' <= MaxReal
<1> DEFINE r == IF respID = run THEN MaxTime ELSE resp
           taskEnd == IF new = IdleTask THEN MaxTime - Precision ELSE Now + left
           added == {Now + w : w \in wait}
<1>1. Idling /\ Idling' /\ ~asked' /\ real' = real /\ real <= MaxReal
      /\ deadlines' = deadlines \cup added /\ lost' = lost
  BY DEF Switch, Idling, DeadlineInv
<1>2. /\ Now = real /\ Now \in Nat /\ ExpireTypeOK /\ ExactInv /\ lost \in Nat
  BY <1>1, QuietClock DEF DeadlineInv, Idling, ExpireTypeOK
<1>3. added \in SUBSET Nat /\ \A d \in added : d >= Now
  <2>1. \A w \in wait : Now + w \in Nat /\ Now + w >= Now
    BY <1>2, DeadlineLimits
  <2> QED BY <2>1
<1>4. deadlines' \in SUBSET (deadlines \cup added) /\ deadlines' \in SUBSET Nat
  BY <1>1, <1>2, <1>3 DEF ExpireTypeOK
<1>5. r \in Nat /\ run # NoTask
  BY <1>2, DeadlineLimits, ExpireAssumption DEF ExpireTypeOK
<1>6. taskEnd \in Int /\ taskEnd >= Now
  BY <1>1, <1>2, TakenEndsLater
<1> HIDE DEF taskEnd, added
<1>7. \/ r = MaxTime /\ Waitable(deadlines', lost)
      \/ r = Fire + 1 /\ \A d \in deadlines' : Fire + 1 < d + 2 * Precision \/ d >= Now
      \/ /\ r = Fire + 1 /\ respID = NoTask /\ r <= Now + Precision
         /\ \A d \in deadlines' : Fire + 1 < d + 3 * Precision + Latency + lost
  <2>1. CASE asked
    <3>1. resp = MaxTime /\ Waitable(deadlines, lost)
      BY <2>1 DEF DeadlineInv, AskedInv
    <3>2. ASSUME NEW d \in deadlines' PROVE real + 1 < d + 2 * Precision + Latency + lost
      <4>1. CASE d \in deadlines
        BY <3>1, <4>1 DEF Waitable
      <4>2. CASE d \in added
        <5>1. d \in Nat /\ d >= Now
          BY <1>3, <4>2
        <5> QED BY <1>2, <5>1, DeadlineLimits
      <4> QED BY <1>1, <4>1, <4>2
    <3> QED BY <3>1, <3>2 DEF Waitable
  <2>2. CASE ~asked
    <3>1. r = resp \/ (r = MaxTime /\ ~Urgent)
      BY <1>5 DEF Urgent
    <3> HIDE DEF r
    <3>2. NotBefore(added)
      BY <1>3 DEF NotBefore
    <3>3. lost <= lost
      BY <1>2
    <3> QED BY <1>1, <1>2, <1>3, <1>4, <1>5, <2>2, <3>1, <3>2, <3>3, SettingFrom
  <2> QED BY <2>1, <2>2
<1>8. OsSchedSetNextExpireTime(r, deadlines', new, taskEnd)
  BY DEF Switch, taskEnd
<1>9. resp' \in {Fire' + 1, MaxTime} /\ (Soon' \/ Urgent')
  <2> HIDE DEF r
  <2>1. PICK ds \in SUBSET Nat : ds = deadlines'
    BY <1>4
  <2>2. /\ OsSchedSetNextExpireTime(r, ds, new, taskEnd)
        /\ \/ r = MaxTime /\ Waitable(ds, lost)
           \/ r = Fire + 1 /\ \A d \in ds : Fire + 1 < d + 2 * Precision \/ d >= Now
           \/ /\ r = Fire + 1 /\ respID = NoTask /\ r <= Now + Precision
              /\ \A d \in ds : Fire + 1 < d + 3 * Precision + Latency + lost
    BY <1>7, <1>8, <2>1
  <2> QED BY <1>1, <1>2, <1>5, <1>6, <2>1, <2>2, SettingMeets DEF Idling
<1> QED BY <1>1, <1>9 DEF SetInv, FiredInv, AskedInv

\* A call of the running task sets the timer; it is not past the end of its slice.
LEMMA UpdateMeets ==
    ASSUME DeadlineInv, ~SwitchPending, ~SliceOver, MaySetTimer,
           NEW added \in SUBSET Nat, NotBefore(added),
           deadlines' \in SUBSET (deadlines \cup added), NEW r \in Nat,
           NEW l \in Nat, lost' = l, lost <= l,
           r = resp \/ (r = MaxTime /\ (Urgent => l = lost + Precision)),
           UpdateExpireTime(r, deadlines', slice, start),
           UNCHANGED <<run, slice, start, asked, pending, handler, real>>
    PROVE  SetInv' /\ FiredInv' /\ AskedInv' /\ real' <= MaxReal
<1> DEFINE taskEnd == IF run = IdleTask THEN MaxTime - Precision
                      ELSE start + (IF slice <= SliceMin THEN TimeSlice ELSE slice)
<1>1. Idling /\ Idling' /\ ~asked /\ ~asked' /\ real' = real /\ real <= MaxReal
  BY DEF MaySetTimer, Running, Idling, DeadlineInv
<1>2. /\ Now = real /\ Now \in Nat /\ ExpireTypeOK /\ ExactInv
  BY <1>1, QuietClock DEF DeadlineInv, Idling
<1>3. taskEnd \in Int /\ taskEnd >= Now
  <2>1. slice \in Int /\ start \in Nat
    BY <1>2 DEF ExpireTypeOK
  <2>2. CASE run = IdleTask
    BY <1>1, <1>2, <2>2, TakenEndsLater
  <2>3. CASE run # IdleTask
    <3>1. ~(Now > start + slice)
      BY <2>3 DEF MaySetTimer
    <3> QED BY <1>2, <2>1, <2>3, <3>1, DeadlineLimits
  <2> QED BY <2>2, <2>3
<1>4. OsSchedSetNextExpireTime(r, deadlines', run, taskEnd)
  BY DEF UpdateExpireTime
<1> HIDE DEF taskEnd
<1>5. PICK ds \in SUBSET (deadlines \cup added) : ds = deadlines' /\ ds \in SUBSET Nat
  BY <1>2 DEF ExpireTypeOK
<1>6. \/ r = MaxTime /\ Waitable(ds, l)
      \/ r = Fire + 1 /\ \A d \in ds : Fire + 1 < d + 2 * Precision \/ d >= Now
      \/ /\ r = Fire + 1 /\ respID = NoTask /\ r <= Now + Precision
         /\ \A d \in ds : Fire + 1 < d + 3 * Precision + Latency + l
  BY <1>1, SettingFrom
<1>7. OsSchedSetNextExpireTime(r, ds, run, taskEnd)
  BY <1>4, <1>5
<1>8. resp' \in {Fire' + 1, MaxTime} /\ (Soon' \/ Urgent')
  BY <1>1, <1>2, <1>3, <1>5, <1>6, <1>7, SettingMeets DEF Idling
<1> QED BY <1>1, <1>8 DEF SetInv, FiredInv, AskedInv

\* An urgent setting is forgotten by a late cancel only.
LEMMA ResetMeets ==
    ASSUME DeadlineInv, Running, ~pending, NEW d \in deadlines, Cancel(d)
    PROVE  /\ Reset(d) \in Nat /\ lost' \in Nat /\ lost <= lost'
           /\ \/ Reset(d) = resp
              \/ Reset(d) = MaxTime /\ (Urgent => lost' = lost + Precision)
<1>1. Now = real
  BY QuietClock DEF DeadlineInv, Running
<1>2. Reset(d) # resp /\ Urgent => lost' = lost + Precision
  BY <1>1 DEF Urgent, Cancel, Reset, Late
<1>3. Reset(d) \in Nat
  BY ResetType DEF DeadlineInv
<1>4. lost' \in {lost, lost + Precision} /\ lost' \in Nat /\ lost \in Nat
  BY CancelType DEF DeadlineInv, ExpireTypeOK
<1>5. lost <= lost'
  BY <1>4, DeadlineLimits
<1> QED BY <1>2, <1>3, <1>4, <1>5 DEF Reset

LEMMA WakeMeets ==
    ASSUME DeadlineInv, NEW d \in deadlines, Wake(d)
    PROVE  SetInv' /\ FiredInv' /\ AskedInv' /\ real' <= MaxReal
<1>1. /\ deadlines' \subseteq deadlines /\ resp' = Reset(d) /\ respID' = respID
      /\ asked' = asked /\ ~asked /\ Running /\ Cancel(d)
      /\ load' = load /\ base' = base /\ pos' = pos /\ pending' = pending /\ handler' = handler
      /\ real' = real /\ real <= MaxReal
  BY DEF Wake, Running, Cancel, tickVars, DeadlineInv
<1>2. Fire' = Fire /\ (Idling <=> Idling')
  BY <1>1 DEF Fire, Idling
<1>3. CASE ~Idling
  BY <1>1, <1>2, <1>3 DEF SetInv, FiredInv, AskedInv, DeadlineInv
<1>4. CASE Idling
  <2>1. resp \in {Fire + 1, MaxTime} /\ (Soon \/ Urgent \/ Cut)
    BY <1>1, <1>4 DEF DeadlineInv, SetInv
  <2>2. /\ lost' \in Nat /\ lost \in Nat /\ lost <= lost'
        /\ resp' = resp \/ (resp' = MaxTime /\ (Urgent => lost' = lost + Precision))
    BY <1>1, <1>4, ResetMeets DEF Idling, DeadlineInv, ExpireTypeOK
  <2>3. Soon => Soon'
    BY <1>1, <1>2 DEF Soon
  <2>6. Fire \in Nat /\ Fire' = Fire /\ \A x \in deadlines' : x \in deadlines /\ x \in Nat
    BY <1>1, <1>2, <1>4, QuietClock DEF DeadlineInv, Idling, ExpireTypeOK
  <2>4. Urgent => Urgent' \/ Cut'
    <3> SUFFICES ASSUME Urgent PROVE Urgent' \/ Cut'
      OBVIOUS
    <3>1. CASE resp' = resp
      <4>1. ASSUME NEW x \in deadlines' PROVE Fire + 1 < x + 3 * Precision + Latency + lost'
        <5>1. Fire + 1 < x + 3 * Precision + Latency + lost
          BY <2>6 DEF Urgent
        <5> QED BY <2>2, <2>6, <5>1, DeadlineLimits
      <4> QED BY <1>1, <2>6, <3>1, <4>1 DEF Urgent
    <3>2. CASE resp' = MaxTime /\ lost' = lost + Precision
      <4>1. ASSUME NEW x \in deadlines' PROVE Fire + 1 < x + 2 * Precision + Latency + lost'
        <5>1. Fire + 1 < x + 3 * Precision + Latency + lost
          BY <2>6 DEF Urgent
        <5> QED BY <2>2, <2>6, <3>2, <5>1, DeadlineLimits
      <4>2. Fire' + 1 <= real' + Precision /\ respID' = NoTask
        BY <1>1, <2>6 DEF Urgent
      <4> QED BY <2>6, <3>2, <4>1, <4>2 DEF Cut
    <3> QED BY <2>2, <3>1, <3>2
  <2>7. Cut => Cut'
    <3> SUFFICES ASSUME Cut PROVE Cut'
      OBVIOUS
    <3>1. ASSUME NEW x \in deadlines' PROVE Fire + 1 < x + 2 * Precision + Latency + lost'
      <4>1. Fire + 1 < x + 2 * Precision + Latency + lost
        BY <2>6 DEF Cut
      <4> QED BY <2>2, <2>6, <4>1, DeadlineLimits
    <3>2. resp' = MaxTime
      BY <2>2 DEF Cut
    <3> QED BY <1>1, <2>6, <3>1, <3>2 DEF Cut
  <2>5. resp' \in {Fire' + 1, MaxTime} /\ (Soon' \/ Urgent' \/ Cut')
    BY <1>2, <2>1, <2>2, <2>3, <2>4, <2>7
  <2> QED BY <1>1, <1>2, <1>4, <2>5 DEF SetInv, FiredInv, AskedInv
<1> QED BY <1>3, <1>4

LEMMA HandlerMeets ==
    ASSUME DeadlineInv, NEW locked \in BOOLEAN, NEW again \in SUBSET Again,
           SchedTickHandler(locked, again)
    PROVE  SetInv' /\ FiredInv' /\ AskedInv' /\ real' <= MaxReal
<1>1. /\ handler = "sched" /\ handler' = "none" /\ pending' = pending /\ real' = real
      /\ asked' = ~locked /\ real <= MaxReal /\ ~pending
  BY DEF SchedTickHandler, DeadlineInv, ExactInv, Marked
<1>2. /\ Now = real /\ Now \in Nat /\ ExpireTypeOK /\ ExactInv /\ TickTypeOK
  BY <1>1, QuietClock DEF DeadlineInv, ExpireTypeOK
<1>3. Idling' /\ ~Idling
  BY <1>1 DEF Idling
<1>4. deadlines' \in SUBSET Nat /\ slice' \in Int /\ lost' \in Nat
  BY HandlerStep, <1>2 DEF SchedType
<1>5. Waitable(deadlines', lost')
  <2> SUFFICES ASSUME NEW d \in deadlines' PROVE real + 1 < d + 2 * Precision + Latency + lost'
    BY DEF Waitable
  <2>1. d \in Nat
    BY <1>4
  <2>4. PICK l \in Nat : l = lost'
    BY <1>4
  <2> SUFFICES real + 1 < d + 2 * Precision + Latency + l
    BY <2>4
  <2>2. CASE Scans
    <3>1. d > Now
      <4>1. deadlines' = {x \in deadlines : x > Now} \cup again
        BY <2>2 DEF SchedTickHandler
      <4> QED BY <1>2, <4>1, AgainAfter
    <3> QED BY <1>2, <2>1, <3>1, DeadlineLimits
  <2>3. CASE ~Scans
    <3>1. d \in deadlines
      BY <2>3 DEF SchedTickHandler
    <3>2. pos <= Latency /\ real + 1 < d + 2 * Precision + pos /\ pos \in Nat
      <4>1. pos \in Nat
        BY <1>2 DEF TickTypeOK
      <4> QED BY <1>3, <2>3, <3>1, <4>1 DEF DeadlineInv, FiredInv, Scans
    <3> QED BY <1>2, <2>1, <3>2, DeadlineLimits
  <2> QED BY <2>2, <2>3
<1>6. CASE ~locked
  <2>1. resp' = MaxTime /\ Waitable(deadlines', lost')
    BY <1>5, <1>6 DEF SchedTickHandler, TickIsOver
  <2>2. Waitable(deadlines, lost)'
    BY <1>1, <2>1 DEF Waitable
  <2> QED BY <1>1, <1>3, <1>6, <2>1, <2>2 DEF SetInv, FiredInv, AskedInv
<1>7. CASE locked
  <2> DEFINE taskEnd == IF run = IdleTask THEN MaxTime - Precision
                        ELSE Now + (IF slice' <= SliceMin THEN TimeSlice ELSE slice')
  <2>1. taskEnd \in Int /\ taskEnd >= Now
    <3>1. CASE run = IdleTask
      BY <1>1, <1>2, <3>1, TakenEndsLater
    <3>2. CASE run # IdleTask
      <4>1. PICK s \in Int : s = slice'
        BY <1>4
      <4>2. taskEnd = Now + (IF s <= SliceMin THEN TimeSlice ELSE s)
        BY <3>2, <4>1
      <4> HIDE DEF taskEnd
      <4> QED BY <1>2, <4>2, DeadlineLimits
    <3> QED BY <3>1, <3>2
  <2>2. OsSchedSetNextExpireTime(MaxTime, deadlines', run, taskEnd)
    BY <1>7 DEF SchedTickHandler, UpdateExpireTime, TickIsOver
  <2> HIDE DEF taskEnd
  <2>3. PICK ds \in SUBSET Nat, l \in Nat : ds = deadlines' /\ l = lost'
    BY <1>4
  <2>4. OsSchedSetNextExpireTime(MaxTime, ds, run, taskEnd) /\ Waitable(ds, l) /\ MaxTime \in Nat
    BY <1>5, <2>2, <2>3, DeadlineLimits
  <2>5. resp' \in {Fire' + 1, MaxTime} /\ (Soon' \/ Urgent')
    BY <1>1, <1>2, <2>1, <2>3, <2>4, SettingMeets
  <2> QED BY <1>1, <1>3, <1>7, <2>5 DEF SetInv, FiredInv, AskedInv
<1> QED BY <1>6, <1>7

LEMMA DeadlineStep ==
    ASSUME ~SwitchPending, ~SliceOver, DeadlineInv, ExpireNext
    PROVE  SetInv' /\ FiredInv' /\ AskedInv' /\ real' <= MaxReal
<1> DEFINE Good == SetInv' /\ FiredInv' /\ AskedInv' /\ real' <= MaxReal
<1>1. CASE Time
  BY <1>1, TimeMeets
<1>2. CASE (TickHandlerChecks \/ TickHandlerAdds \/ TickHandlerClears \/ Read)
           /\ ~asked /\ UNCHANGED expireVars
  BY <1>2, ClockStepsMeet
<1>3. ASSUME NEW locked \in BOOLEAN, NEW again \in SUBSET Again,
             SchedTickHandler(locked, again)
      PROVE  Good
  BY <1>3, HandlerMeets
<1>4. ASSUME NEW new \in Worker \cup {IdleTask}, NEW left \in Left \cup {0},
             NEW wait \in SUBSET Wait, Switch(new, left, wait)
      PROVE  Good
  <2>1. left \in Nat
    BY DeadlineLimits
  <2> QED BY <1>4, <2>1, SwitchMeets
<1>5. ASSUME NEW w \in Wait, NEW d \in Expiry(w), TimerStart(d) PROVE Good
  <2>1. MaySetTimer /\ ~pending /\ handler = "none"
    BY <1>5 DEF TimerStart, MaySetTimer, Running
  <2>2. Now \in Nat /\ resp \in Nat
    BY <2>1, QuietClock DEF DeadlineInv, ExpireTypeOK
  <2>3. d \in Nat /\ (d >= Now \/ \E e \in deadlines : e <= d)
    BY <2>2, ExpiryIs DEF DeadlineInv, ExpireTypeOK
  <2>4. PICK added \in SUBSET Nat : added = {d}
    BY <2>3
  <2>5. deadlines' \in SUBSET (deadlines \cup added)
    BY <1>5, <2>4 DEF TimerStart
  <2>6. NotBefore(added)
    BY <2>3, <2>4 DEF NotBefore
  <2>7. /\ lost' \in Nat /\ lost' <= lost' /\ lost' = lost
        /\ UpdateExpireTime(resp, deadlines', slice, start)
        /\ UNCHANGED <<run, slice, start, asked, pending, handler, real>>
    BY <1>5 DEF TimerStart, DeadlineInv, ExpireTypeOK
  <2> QED BY <2>1, <2>2, <2>5, <2>6, <2>7, UpdateMeets
<1>6. ASSUME NEW d \in deadlines, TimerStop(d) PROVE Good
  <2>1. MaySetTimer /\ Running /\ ~pending /\ Cancel(d)
    BY <1>6 DEF TimerStop, MaySetTimer
  <2>2. PICK added \in SUBSET Nat : added = {}
    OBVIOUS
  <2>3. deadlines' \in SUBSET (deadlines \cup added) /\ NotBefore(added)
    BY <2>1, <2>2 DEF Cancel, NotBefore
  <2>4. PICK l \in Nat : /\ l = lost' /\ lost <= l /\ Reset(d) \in Nat
                         /\ \/ Reset(d) = resp
                            \/ Reset(d) = MaxTime /\ (Urgent => l = lost + Precision)
    BY <2>1, ResetMeets
  <2>5. /\ UpdateExpireTime(Reset(d), deadlines', slice, start)
        /\ UNCHANGED <<run, slice, start, asked, pending, handler, real>>
    BY <1>6 DEF TimerStop
  <2> QED BY <2>1, <2>2, <2>3, <2>4, <2>5, UpdateMeets
<1>7. ASSUME NEW d \in deadlines, Wake(d) PROVE Good
  BY <1>7, WakeMeets
<1> HIDE DEF Good
<1>8. Good
  BY <1>1, <1>2, <1>3, <1>4, <1>5, <1>6, <1>7 DEF ExpireNext, Good
<1> QED BY <1>8 DEF Good

\* No timeout is forgotten and none is served later than DeadlinesAreMet says, whatever
\* the timer was set for before, for any slices, delays and precision, and with wake-ups
\* and stopped timers at any time, each late one for a Precision: if no switch comes under
\* a pending tick and no timer is started past the end of a slice (los_sched.c:112).
THEOREM NoDeadlineIsMissed ==
    ASSUME Undisturbed, ~SwitchPending, ~SliceOver
    PROVE  ExpireSpec => []DeadlinesAreMet
<1>1. ExpireInit => DeadlineInv
  BY ExpireInitInv, DeadlineInit DEF DeadlineInv
<1>2. DeadlineInv /\ [ExpireNext]_<<tickVars, expireVars>> => DeadlineInv'
  <2> SUFFICES ASSUME DeadlineInv, [ExpireNext]_<<tickVars, expireVars>> PROVE DeadlineInv'
    OBVIOUS
  <2>1. [TickNext]_tickVars /\ ExpireInv'
    BY ExpireNextInv DEF ExpireInv, DeadlineInv, ExactInv
  <2>2. ExactInv'
    BY <2>1, ExactNextInv DEF DeadlineInv
  <2>3. CASE ExpireNext
    BY <2>1, <2>2, <2>3, DeadlineStep DEF DeadlineInv, ExpireInv
  <2>4. CASE UNCHANGED <<tickVars, expireVars>>
    BY <2>1, <2>2, <2>4 DEF DeadlineInv, ExpireInv, tickVars, expireVars, SetInv, FiredInv,
                            AskedInv, Idling, Fire, Soon, Urgent, Cut, Waitable
  <2> QED BY <2>3, <2>4
<1>3. DeadlineInv => DeadlinesAreMet
  <2> SUFFICES ASSUME DeadlineInv, Running, ~pending, NEW d \in deadlines
               PROVE  Now < d + 3 * Precision + Latency + lost
    BY DEF DeadlinesAreMet
  <2>1. /\ Now = real /\ Now < Fire /\ Fire \in Nat /\ Now \in Nat /\ d \in Nat /\ lost \in Nat
    BY QuietClock DEF DeadlineInv, Running, ExpireTypeOK
  <2>2. Soon \/ Urgent \/ Cut
    BY DEF DeadlineInv, SetInv, Running, Idling
  <2> QED BY <2>1, <2>2, DeadlineLimits DEF Soon, Urgent, Cut
<1> QED BY <1>1, <1>2, <1>3, PTL DEF ExpireSpec

=============================================================================
