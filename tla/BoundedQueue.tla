---------------------------- MODULE BoundedQueue ----------------------------
(***************************************************************************)
(* What one message queue of the kernel promises, without saying how: a    *)
(* sequence of at most capacity messages.  A caller that finds no message  *)
(* to read, or no place to write, waits in the order of the calls; it is   *)
(* granted the next message or place, which nobody else can take from it,  *)
(* or it gives up.                                                         *)
(***************************************************************************)
EXTENDS Naturals, FiniteSets, Sequences, Functions

CONSTANTS Client, Jobs, NoJob, Capacity

VARIABLES
    open, capacity, content,
    waiting, granted, expired,  \* the callers of each side
    doing,    \* what a caller does when it is granted
    dead      \* grants of callers that were deleted, which nobody will use
queue == <<open, capacity, content, waiting, granted, expired, doing, dead>>

Side == {"READ", "WRITE"}
Opposite(side) == IF side = "READ" THEN "WRITE" ELSE "READ"

calling == UNION {Range(waiting[s]) \cup granted[s] \cup expired[s] : s \in Side}

\* What can be had on a side and is promised to nobody.
Unclaimed(s) ==
    (IF s = "READ" THEN Len(content) ELSE capacity - Len(content))
        - Cardinality(granted[s]) - dead[s]

\* c leaves the queue of side s, wherever it stands.
Unqueue(s, c) ==
    \E i \in DOMAIN waiting[s] :
       /\ waiting[s][i] = c
       /\ waiting' = [waiting EXCEPT ![s] = SubSeq(@, 1, i - 1) \o SubSeq(@, i + 1, Len(@))]

Ends(c) == doing' = [doing EXCEPT ![c] = NoJob]

Init ==
    /\ open = FALSE /\ capacity = 0 /\ content = <<>>
    /\ waiting = [s \in Side |-> <<>>]
    /\ granted = [s \in Side |-> {}] /\ expired = [s \in Side |-> {}]
    /\ doing = [c \in Client |-> NoJob]
    /\ dead = [s \in Side |-> 0]

Open(n) ==
    /\ ~open /\ open' = TRUE /\ capacity' = n /\ content' = <<>>
    /\ dead' = [s \in Side |-> 0]
    /\ UNCHANGED <<waiting, granted, expired, doing>>

\* Only while nobody waits and nothing is promised.  Messages are lost.
Close ==
    /\ open /\ open' = FALSE /\ content' = <<>>
    /\ \A s \in Side : waiting[s] = <<>> /\ granted[s] = {} /\ dead[s] = 0
    /\ UNCHANGED <<capacity, waiting, granted, expired, doing, dead>>

Do(job) ==
    /\ job.rw = "READ" => content # <<>>
    /\ job.rw = "WRITE" => Len(content) < capacity
    /\ content' = IF job.rw = "READ" THEN Tail(content)
                  ELSE IF job.at = "TAIL" THEN Append(content, job.msg)
                  ELSE <<job.msg>> \o content

\* The longest waiting caller of side s is granted what a job has made available;
\* the grants are those of now.
Hand(s, now) ==
    IF waiting[s] = <<>> THEN waiting' = waiting /\ granted' = now
    ELSE /\ waiting' = [waiting EXCEPT ![s] = Tail(@)]
         /\ granted' = [now EXCEPT ![s] = @ \cup {Head(waiting[s])}]

AtOnce(job) ==
    /\ open /\ Unclaimed(job.rw) > 0
    /\ Do(job) /\ Hand(Opposite(job.rw), granted)
    /\ UNCHANGED <<open, capacity, expired, doing, dead>>

Wait(c, job) ==
    /\ open /\ Unclaimed(job.rw) = 0 /\ c \notin calling
    /\ waiting' = [waiting EXCEPT ![job.rw] = Append(@, c)]
    /\ doing' = [doing EXCEPT ![c] = job]
    /\ UNCHANGED <<open, capacity, content, granted, expired, dead>>

\* What was granted is there.
Return(c) ==
    /\ c \in granted[doing[c].rw]
    /\ Do(doing[c])
    /\ Hand(Opposite(doing[c].rw), [granted EXCEPT ![doing[c].rw] = @ \ {c}])
    /\ Ends(c)
    /\ UNCHANGED <<open, capacity, expired, dead>>

Expire(s, c) ==
    /\ Unqueue(s, c)
    /\ expired' = [expired EXCEPT ![s] = @ \cup {c}]
    /\ UNCHANGED <<open, capacity, content, granted, doing, dead>>

\* The call returns a timeout, or is cut off before it does.
GiveUp(s, c) ==
    /\ c \in expired[s] /\ expired' = [expired EXCEPT ![s] = @ \ {c}]
    /\ Ends(c)
    /\ UNCHANGED <<open, capacity, content, waiting, granted, dead>>

\* A caller is deleted while it waits, or with what it was granted.
Leave(s, c) ==
    /\ \/ /\ Unqueue(s, c)
          /\ UNCHANGED <<granted, dead>>
       \/ /\ c \in granted[s]
          /\ granted' = [granted EXCEPT ![s] = @ \ {c}]
          /\ dead' = [dead EXCEPT ![s] = @ + 1]
          /\ UNCHANGED waiting
    /\ Ends(c)
    /\ UNCHANGED <<open, capacity, content, expired>>

Next ==
    \/ \E n \in Capacity : Open(n)
    \/ Close
    \/ \E job \in Jobs : AtOnce(job)
    \/ \E c \in Client :
          \/ \E job \in Jobs : Wait(c, job)
          \/ Return(c)
          \/ \E s \in Side : Expire(s, c) \/ GiveUp(s, c) \/ Leave(s, c)

Spec == Init /\ [][Next]_queue

=============================================================================
