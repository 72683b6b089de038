------------------------------- MODULE MCIpc -------------------------------
(***************************************************************************)
(* Semaphores and events for TLC, each with its tasks and its refinement.  *)
(* The two share nothing but the scheduler, so every behaviour uses one of *)
(* them: kind is chosen at the start and stays.                            *)
(***************************************************************************)
EXTENDS LosSemRefinement, LosEventRefinement

CONSTANTS t1, t2, s1, e1, b1, b2

Tasks2 == {t1, t2}
Sems1 == {s1}
Events1 == {e1}
WaitObjs == Sems1 \cup Events1
Bits2 == {b1, b2}

\* A short timeout and LOS_WAIT_FOREVER; no wait at all.
Timeouts == {NoTime, 0, 1}

\* Any bit, which is then cleared; or both, which stay.
Wants == {[mask |-> {b1}, all |-> FALSE, clear |-> TRUE],
          [mask |-> {b1, b2}, all |-> TRUE, clear |-> FALSE]}

VARIABLE kind
ipcVars == <<allSemVars, eventVars, kind>>

IpcInit ==
    /\ SemInit /\ EventInit
    /\ kind \in {"sem", "event"}

IpcNext ==
    /\ UNCHANGED kind
    /\ \/ kind = "sem" /\ SemNext /\ UNCHANGED eventVars
       \/ kind = "event" /\ EventNext /\ UNCHANGED semVars

IpcSpec == IpcInit /\ [][IpcNext]_ipcVars

\* The state of the tasks, and of what the behaviour uses, keeps its type.
IpcTypeOK == IF kind = "sem" THEN SemTypeOK ELSE EventTypeOK

\* Bound: in the behaviours with events only readers are suspended, in their wait.
Suspensions ==
    kind = "event" =>
        \A x \in handles : Has(kernel, x, {"SUSPEND"}) => Contains(todo[x], "result")

TaskSymmetry == Permutations(Task)

=============================================================================
