----------------------------- MODULE Semaphore -----------------------------
(***************************************************************************)
(* What one semaphore of the kernel promises to the tasks that use it,     *)
(* without saying how: a counter, the tasks that wait in the order of      *)
(* their calls, the tasks a post has handed a token to and the tasks whose *)
(* time is over, until their calls return.                                 *)
(***************************************************************************)
EXTENDS Naturals, Sequences, Functions

CONSTANTS Client, MaxCount

VARIABLES open, count, limit, waiting, granted, expired
semaphore == <<open, count, limit, waiting, granted, expired>>

calling == Range(waiting) \cup granted \cup expired

\* t leaves the queue, wherever it stands.
Unqueue(t) ==
    \E i \in DOMAIN waiting :
       /\ waiting[i] = t
       /\ waiting' = SubSeq(waiting, 1, i - 1) \o SubSeq(waiting, i + 1, Len(waiting))

Init ==
    /\ open = FALSE /\ count = 0 /\ limit = 0
    /\ waiting = <<>> /\ granted = {} /\ expired = {}

Create(c, m) ==
    /\ ~open /\ c <= m
    /\ open' = TRUE /\ count' = c /\ limit' = m
    /\ UNCHANGED <<waiting, granted, expired>>

\* Only while nobody waits.  A task that was handed a token keeps it.
Delete ==
    /\ open /\ waiting = <<>>
    /\ open' = FALSE
    /\ UNCHANGED <<count, limit, waiting, granted, expired>>

\* P takes a token if there is one.
Take ==
    /\ open /\ count > 0
    /\ count' = count - 1
    /\ UNCHANGED <<open, limit, waiting, granted, expired>>

Wait(t) ==
    /\ open /\ count = 0 /\ t \notin calling
    /\ waiting' = Append(waiting, t)
    /\ UNCHANGED <<open, count, limit, granted, expired>>

\* V adds a token, or hands it to the task that has waited longest.
Put ==
    /\ open /\ waiting = <<>> /\ count < limit
    /\ count' = count + 1
    /\ UNCHANGED <<open, limit, waiting, granted, expired>>

Grant ==
    /\ open /\ waiting # <<>>
    /\ waiting' = Tail(waiting) /\ granted' = granted \cup {Head(waiting)}
    /\ UNCHANGED <<open, count, limit, expired>>

Expire(t) ==
    /\ Unqueue(t) /\ expired' = expired \cup {t}
    /\ UNCHANGED <<open, count, limit, granted>>

\* The call of t returns success if t was granted a token, else a timeout.
Return(t) ==
    /\ t \in granted \cup expired
    /\ granted' = granted \ {t} /\ expired' = expired \ {t}
    /\ UNCHANGED <<open, count, limit, waiting>>

\* t is deleted in the middle of its call: a token it was granted is lost.
Leave(t) ==
    /\ t \in calling
    /\ IF t \in Range(waiting) THEN Unqueue(t) ELSE UNCHANGED waiting
    /\ granted' = granted \ {t} /\ expired' = expired \ {t}
    /\ UNCHANGED <<open, count, limit>>

Next ==
    \/ \E c, m \in 0 .. MaxCount : Create(c, m)
    \/ Delete \/ Take \/ Put \/ Grant
    \/ \E t \in Client : Wait(t) \/ Expire(t) \/ Return(t) \/ Leave(t)

Spec == Init /\ [][Next]_semaphore

=============================================================================
