-------------------------------- MODULE Lock --------------------------------
(***************************************************************************)
(* What one mutex of the kernel promises: at most one owner, which may     *)
(* lock it again, and is followed by the task that has waited longest.     *)
(***************************************************************************)
EXTENDS Naturals, Sequences, Functions

CONSTANTS Client, Nobody

VARIABLES open, owner, depth, waiting, granted, expired
lock == <<open, owner, depth, waiting, granted, expired>>

calling == Range(waiting) \cup granted \cup expired

\* t leaves the queue, wherever it stands.
Unqueue(t) ==
    \E i \in DOMAIN waiting :
       /\ waiting[i] = t
       /\ waiting' = SubSeq(waiting, 1, i - 1) \o SubSeq(waiting, i + 1, Len(waiting))

Init ==
    /\ open = FALSE /\ owner = Nobody /\ depth = 0
    /\ waiting = <<>> /\ granted = {} /\ expired = {}

Create ==
    /\ ~open /\ open' = TRUE
    /\ UNCHANGED <<owner, depth, waiting, granted, expired>>

\* Only a mutex that nobody owns.
Delete ==
    /\ open /\ owner = Nobody /\ open' = FALSE
    /\ UNCHANGED <<owner, depth, waiting, granted, expired>>

Acquire(t) ==
    /\ open /\ t \notin calling
    /\ owner = Nobody \/ owner = t
    /\ owner' = t /\ depth' = depth + 1
    /\ UNCHANGED <<open, waiting, granted, expired>>

Wait(t) ==
    /\ open /\ t \notin calling /\ owner \notin {Nobody, t}
    /\ waiting' = Append(waiting, t)
    /\ UNCHANGED <<open, owner, depth, granted, expired>>

Expire(t) ==
    /\ Unqueue(t) /\ expired' = expired \cup {t}
    /\ UNCHANGED <<open, owner, depth, granted>>

\* t releases the mutex as often as it has locked it.  The next owner does not
\* know yet that it is: its call has to return.
Release(t) ==
    /\ open /\ owner = t /\ t \notin calling
    /\ \/ depth > 1 /\ depth' = depth - 1 /\ UNCHANGED <<owner, waiting, granted>>
       \/ /\ depth = 1 /\ waiting = <<>>
          /\ owner' = Nobody /\ depth' = 0 /\ UNCHANGED <<waiting, granted>>
       \/ /\ depth = 1 /\ waiting # <<>>
          /\ owner' = Head(waiting) /\ waiting' = Tail(waiting)
          /\ granted' = granted \cup {Head(waiting)} /\ UNCHANGED depth
    /\ UNCHANGED <<open, expired>>

\* The call of t returns success if it owns the mutex, else a timeout.
Return(t) ==
    /\ t \in (granted \cap {owner}) \cup expired
    /\ granted' = granted \ {t} /\ expired' = expired \ {t}
    /\ UNCHANGED <<open, owner, depth, waiting>>

\* t is deleted in the middle of its call, while it waits or after its time.
Leave(t) ==
    /\ t \in calling \ granted
    /\ IF t \in Range(waiting) THEN Unqueue(t) ELSE UNCHANGED waiting
    /\ expired' = expired \ {t}
    /\ UNCHANGED <<open, owner, depth, granted>>

Next ==
    \/ Create \/ Delete
    \/ \E t \in Client :
          Acquire(t) \/ Wait(t) \/ Expire(t) \/ Release(t) \/ Return(t) \/ Leave(t)

Spec == Init /\ [][Next]_lock

=============================================================================
