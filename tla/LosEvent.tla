------------------------------ MODULE LosEvent ------------------------------
(***************************************************************************)
(* The events of the kernel (kernel/src/los_event.c): a word of bits that  *)
(* tasks wait for, some or all of a mask at a time.                        *)
(*                                                                         *)
(* LOS_EventRead and LOS_EventWrite check their parameters before they     *)
(* lock interrupts, so that each of them is two steps: the event may be    *)
(* written, cleared or destroyed in between.                               *)
(***************************************************************************)
EXTENDS LosTask

CONSTANTS
    Event,          \* the event control blocks of the application
    Bit,            \* the bits of an event but bit 25, which no call takes
    Want,           \* the masks and modes passed to LOS_EventRead
    EventTimeout    \* the timeouts passed to it; NoTime is LOS_WAIT_FOREVER

\* eventMask and eventMode of a TCB: LOS_WAITMODE_AND or OR, LOS_WAITMODE_CLR.
Wish == [mask : SUBSET Bit, all : BOOLEAN, clear : BOOLEAN]

ASSUME EventAssumption ==
    /\ Event \subseteq WaitObj
    /\ Want \subseteq Wish /\ \A w \in Want : w.mask # {}
    /\ EventTimeout \subseteq (0 .. MaxDelay) \cup {NoTime}

VARIABLES
    eventCB,    \* live (its list is initialised) and uwEventID
    wish        \* what each task's call asks for, or writes

eventVars == <<eventCB, wish>>
allEventVars == <<kernel, todo, arg, handles, eventCB, wish>>

NoWish == [mask |-> {}, all |-> FALSE, clear |-> FALSE]

EventInit ==
    /\ Init
    /\ eventCB = [e \in Event |-> [live |-> FALSE, bits |-> {}]]
    /\ wish = [t \in TCB |-> NoWish]

\* An event is a structure of the application's, which initialises it once.
LOS_EventInit(t, e) ==
    /\ Caller(t, "eventInit") /\ ~eventCB[e].live
    /\ eventCB' = [eventCB EXCEPT ![e] = [live |-> TRUE, bits |-> {}]]
    /\ UNCHANGED <<taskVars, wish>>

-----------------------------------------------------------------------------
(* Reading. *)

Satisfied(bits, w) == IF w.all THEN w.mask \subseteq bits ELSE w.mask \cap bits # {}

\* MUTATION: all the bits are cleared, not only those that the reader gets.
ClearsAll_LOS_EventPoll(bits, w) == IF Satisfied(bits, w) /\ w.clear THEN {} ELSE bits

\* The bits that a poll leaves.
LOS_EventPoll(bits, w) ==
    IF Satisfied(bits, w) /\ w.clear THEN bits \ w.mask ELSE bits

EventRead(t, e, w) ==
    /\ App(t, "eventRead") /\ eventCB[e].live
    /\ Call(t, kernel, <<"eventRead">>, e)
    /\ wish' = [wish EXCEPT ![t] = w]
    /\ UNCHANGED eventCB

\* The call polls and ends here, in the kernel's state k.
ReadReturns(t, k) ==
    /\ Call(t, k, <<>>, NoArg)
    /\ eventCB' = [eventCB EXCEPT ![arg[t]].bits = LOS_EventPoll(@, wish[t])]
    /\ wish' = [wish EXCEPT ![t] = NoWish]

ReadTakes(t) ==
    /\ Doing(t, "eventRead") /\ Satisfied(eventCB[arg[t]].bits, wish[t])
    /\ ReadReturns(t, kernel)

\* MUTATION: the event is not polled before the wait.
Unpolled_ReadMustWait(t) == Doing(t, "eventRead")

ReadMustWait(t) == Doing(t, "eventRead") /\ ~Satisfied(eventCB[arg[t]].bits, wish[t])

ReadFails(t) ==
    /\ ReadMustWait(t) /\ (kernel.lock > 0 \/ 0 \in EventTimeout)
    /\ Call(t, kernel, <<>>, NoArg)
    /\ wish' = [wish EXCEPT ![t] = NoWish]
    /\ UNCHANGED eventCB

\* MUTATION: what the reader waits for is not saved in its TCB.
Unsaved_ReadWaits(t, timeout) ==
    /\ ReadMustWait(t) /\ kernel.lock = 0 /\ timeout # 0
    /\ Call(t, IF eventCB[arg[t]].live THEN OsSchedTaskWait(kernel, arg[t], timeout)
               ELSE [kernel EXCEPT !.panic = TRUE],
            <<"schedule", "result">>, arg[t])
    /\ wish' = [wish EXCEPT ![t] = NoWish] /\ UNCHANGED eventCB

\* On a destroyed event the wait follows a null pointer.
ReadWaits(t, timeout) ==
    /\ ReadMustWait(t) /\ kernel.lock = 0 /\ timeout # 0
    /\ Call(t, IF eventCB[arg[t]].live THEN OsSchedTaskWait(kernel, arg[t], timeout)
               ELSE [kernel EXCEPT !.panic = TRUE],
            <<"schedule", "result">>, arg[t])
    /\ UNCHANGED eventVars

\* After the wait the event is polled again; what woke t may be gone by then.
ReadResult(t) ==
    /\ Doing(t, "result")
    /\ IF Has(kernel, t, {"TIMEOUT"})
       THEN /\ Call(t, [kernel EXCEPT !.status[t] = @ \ {"TIMEOUT"}], <<>>, NoArg)
            /\ wish' = [wish EXCEPT ![t] = NoWish]
            /\ UNCHANGED eventCB
       ELSE ReadReturns(t, kernel)

\* LOS_EventPoll from an interrupt handler; it does not look at the list.
IsrEventPoll(e, w) ==
    /\ Interrupt /\ "isrEvent" \in Calls
    /\ eventCB' = [eventCB EXCEPT ![e].bits = LOS_EventPoll(@, w)]
    /\ UNCHANGED <<taskVars, wish>>

-----------------------------------------------------------------------------
(* Writing.  An OR reader is woken by the bits that are written now, an    *)
(* AND reader by all that are set.                                         *)

WokenBy(w, events, bits) ==
    IF w.all THEN w.mask \subseteq bits ELSE w.mask \cap events # {}

\* The waiters that a write of events wakes.
Awakened(e, events) ==
    {u \in ToSet(kernel.pend[e]) : WokenBy(wish[u], events, eventCB[e].bits \cup events)}

\* The write goes over the list once: the kernel's state when it has looked at i waiters.
WriteLoop(e, events) ==
    LET after[i \in 0 .. Len(kernel.pend[e])] ==
            IF i = 0 THEN kernel
            ELSE LET u == kernel.pend[e][i]
                 IN  IF u \in Awakened(e, events) THEN OsSchedTaskWake(after[i - 1], u)
                     ELSE after[i - 1]
    IN  after

WakeAll(e, events) == WriteLoop(e, events)[Len(kernel.pend[e])]

EventWrite(t, e, events) ==
    /\ App(t, "eventWrite") /\ eventCB[e].live
    /\ Call(t, kernel, <<"eventWrite">>, e)
    /\ wish' = [wish EXCEPT ![t].mask = events]
    /\ UNCHANGED eventCB

WriteWakes(t) ==
    /\ Doing(t, "eventWrite")
    /\ LET e == arg[t]
           events == wish[t].mask
       IN  /\ Call(t, WakeAll(e, events),
                   IF Awakened(e, events) = {} THEN <<>> ELSE <<"schedule">>, NoArg)
           /\ eventCB' = [eventCB EXCEPT ![e].bits = @ \cup events]
    /\ wish' = [wish EXCEPT ![t] = NoWish]

IsrEventWrite(e, events) ==
    /\ Interrupt /\ "isrEvent" \in Calls /\ eventCB[e].live
    /\ kernel' = IF Awakened(e, events) = {} THEN kernel
                 ELSE LOS_Schedule(WakeAll(e, events))
    /\ eventCB' = [eventCB EXCEPT ![e].bits = @ \cup events]
    /\ UNCHANGED <<todo, arg, handles, wish>>

\* eventMask has the bits to keep.
EventClear(t, e, keep) ==
    /\ App(t, "eventClear")
    /\ eventCB' = [eventCB EXCEPT ![e].bits = @ \cap keep]
    /\ UNCHANGED <<taskVars, wish>>

\* t has passed the check of its parameters and not yet entered its critical section.
Checked(t, e) == arg[t] = e /\ todo[t] \in {<<"eventRead">>, <<"eventWrite">>}

EventDestroy(t, e) ==
    /\ App(t, "eventDestroy") /\ eventCB[e].live /\ kernel.pend[e] = <<>>
    /\ (\E u \in TCB : Checked(u, e)) => "destroyInUse" \in Unprotected
    /\ eventCB' = [eventCB EXCEPT ![e] = [live |-> FALSE, bits |-> @.bits]]
    /\ UNCHANGED <<taskVars, wish>>

EventStep(t) ==
    \/ ReadTakes(t) \/ ReadFails(t) \/ ReadResult(t) \/ WriteWakes(t)
    \/ \E timeout \in EventTimeout : ReadWaits(t, timeout)
    \/ \E e \in Event :
          \/ LOS_EventInit(t, e) \/ EventDestroy(t, e)
          \/ \E w \in Want : EventRead(t, e, w)
          \/ \E events \in SUBSET Bit : EventWrite(t, e, events) \/ EventClear(t, e, events)

\* LOS_TaskDelete of a task in a call: nothing is left of it.
Forget == wish' = [t \in TCB |-> IF todo'[t] = <<>> THEN NoWish ELSE wish[t]]

EventNext ==
    \/ TaskNext /\ Forget /\ UNCHANGED eventCB
    \/ \E t \in TCB : EventStep(t)
    \/ \E e \in Event :
          \/ \E w \in Want : IsrEventPoll(e, w)
          \/ \E events \in SUBSET Bit : IsrEventWrite(e, events)

EventSpec == EventInit /\ [][EventNext]_allEventVars

-----------------------------------------------------------------------------
(* Correctness. *)

\* Every variable keeps its type; a call in progress says what it wants.
EventTypeOK ==
    /\ TaskTypeOK
    /\ eventCB \in [Event -> [live : BOOLEAN, bits : SUBSET Bit]]
    /\ wish \in [TCB -> Wish]
    /\ \A t \in TCB : \A e \in Event :
          Contains(kernel.pend[e], t) => wish[t] \in Want /\ arg[t] = e

\* No write is lost: no task waits for an event that has the bits it wants, though
\* a writer may come between its poll and its wait, and wakes OR readers by the bits
\* it writes only; and who waits, waits for an event that lives.
NoReaderForgotten ==
    \A e \in Event : \A i \in DOMAIN kernel.pend[e] :
        /\ eventCB[e].live
        /\ ~Satisfied(eventCB[e].bits, wish[kernel.pend[e][i]])

=============================================================================
