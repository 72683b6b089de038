------------------------- MODULE LosEventRefinement -------------------------
EXTENDS LosEvent

(***************************************************************************)
(* The event e implements the abstract one: the readers are the tasks with *)
(* a wait on e in their call; PEND and then TIMEOUT in their status say    *)
(* how far it is.                                                          *)
(***************************************************************************)
InRead(e) == {t \in Task : arg[t] = e /\ Contains(todo[t], "result")}
ReadWaiting(e) == {t \in InRead(e) : Has(kernel, t, {"PEND"})}
ReadWoken(e) == {t \in InRead(e) : ~Has(kernel, t, {"PEND", "TIMEOUT"})}
ReadTimedOut(e) == {t \in InRead(e) : ~Has(kernel, t, {"PEND"}) /\ Has(kernel, t, {"TIMEOUT"})}

Readers(S) == {[who |-> t, want |-> wish[t]] : t \in S}

AbstractEvent(e) == INSTANCE EventGroup WITH
    Client <- Task, Flags <- Bit, Wishes <- Want,
    open <- eventCB[e].live, bits <- eventCB[e].bits,
    waiting <- Readers(ReadWaiting(e)),
    woken <- Readers(ReadWoken(e)),
    expired <- Readers(ReadTimedOut(e))

\* Bits are taken at once by a read, for what its own caller asks, or by a clear.
TakenAtOnce(e) ==
    \/ \E w \in Want :
          /\ AbstractEvent(e)!Poll(w)
          /\ IsrEventPoll(e, w) \/ \E t \in Task : ReadTakes(t) /\ arg[t] = e /\ wish[t] = w
    \/ \E t \in TCB, keep \in SUBSET Bit :
          AbstractEvent(e)!Clear(keep) /\ EventClear(t, e, keep)

EventStepOn(e) ==
    UNCHANGED AbstractEvent(e)!event \/ AbstractEvent(e)!Serve \/ TakenAtOnce(e)

\* Every step of the system is for each event a step of the abstract one or none: a
\* write wakes exactly the readers it suffices for, whoever times out, is suspended or
\* is deleted meanwhile; a read, whether it waits or not, takes the bits that its own
\* mask and mode ask for and no other; and nothing but LOS_EventClear takes the rest.
EachIsAnEvent ==
    /\ \A e \in Event : AbstractEvent(e)!Init
    /\ [][\A e \in Event : EventStepOn(e)]_allEventVars

=============================================================================
