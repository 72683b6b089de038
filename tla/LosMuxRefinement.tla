-------------------------- MODULE LosMuxRefinement --------------------------
EXTENDS LosMux

(***************************************************************************)
(* The mutex m implements the abstract one.  A waiter's fate is in its     *)
(* status: PEND while it waits, then TIMEOUT or not.                       *)
(***************************************************************************)
InPend(m) == {t \in Task : arg[t] = m /\ Contains(todo[t], "result")}
Handed(m) == {t \in InPend(m) : ~Has(kernel, t, {"PEND", "TIMEOUT"})}
TimedOut(m) == {t \in InPend(m) : ~Has(kernel, t, {"PEND"}) /\ Has(kernel, t, {"TIMEOUT"})}

Abstract(m) == INSTANCE Lock WITH
    Client <- Task, Nobody <- NoOwner,
    open <- Used(m), owner <- muxCB[m].owner, depth <- muxCB[m].count,
    waiting <- kernel.pend[m],
    granted <- Handed(m), expired <- TimedOut(m)

\* Every step of the system is for each mutex a step of the abstract one or none:
\* one owner at a time, a call that returns success returns to the owner, and
\* only the owner's release, never a timeout or a suspension, passes it on.
EachIsALock ==
    /\ \A m \in Mux : Abstract(m)!Init
    /\ [][\A m \in Mux : UNCHANGED Abstract(m)!lock \/ Abstract(m)!Next]_allMuxVars

=============================================================================
