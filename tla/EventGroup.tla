----------------------------- MODULE EventGroup -----------------------------
(***************************************************************************)
(* What an event of the kernel promises, without saying how: a set of      *)
(* bits, the readers that wait for some or all of a mask, the readers that *)
(* a write has woken, and those whose time is over, until they return.     *)
(***************************************************************************)
EXTENDS FiniteSets

CONSTANTS Client, Flags, Wishes

VARIABLES open, bits, waiting, woken, expired
event == <<open, bits, waiting, woken, expired>>

\* A reader is a record of who it is and what it wants.
Reader == [who : Client, want : Wishes]
calling == {r.who : r \in waiting \cup woken \cup expired}

Content(set, want) == IF want.all THEN want.mask \subseteq set ELSE want.mask \cap set # {}
Rest(set, want) == IF Content(set, want) /\ want.clear THEN set \ want.mask ELSE set

Init == open = FALSE /\ bits = {} /\ waiting = {} /\ woken = {} /\ expired = {}

Open ==
    /\ ~open /\ open' = TRUE /\ bits' = {}
    /\ UNCHANGED <<waiting, woken, expired>>

\* Only while nobody waits.
Close ==
    /\ open /\ waiting = {} /\ open' = FALSE
    /\ UNCHANGED <<bits, waiting, woken, expired>>

\* A read that need not wait: it takes what it wants and nothing else.
Poll(want) ==
    /\ Content(bits, want) /\ bits' = Rest(bits, want)
    /\ UNCHANGED <<open, waiting, woken, expired>>

\* All but the bits to keep are cleared, whoever wants them.
Clear(keep) ==
    /\ bits' = bits \cap keep
    /\ UNCHANGED <<open, waiting, woken, expired>>

Wait(r) ==
    /\ open /\ ~Content(bits, r.want) /\ r.who \notin calling
    /\ waiting' = waiting \cup {r}
    /\ UNCHANGED <<open, bits, woken, expired>>

\* Every reader that the bits suffice for is woken, and no other.
Write(set) ==
    /\ open /\ bits' = bits \cup set
    /\ LET content == {r \in waiting : Content(bits', r.want)}
       IN  waiting' = waiting \ content /\ woken' = woken \cup content
    /\ UNCHANGED <<open, expired>>

Expire(r) ==
    /\ r \in waiting
    /\ waiting' = waiting \ {r} /\ expired' = expired \cup {r}
    /\ UNCHANGED <<open, bits, woken>>

\* A woken reader gets what is left of what it wants; one too late gets nothing.
Return(r) ==
    /\ \/ r \in woken /\ bits' = Rest(bits, r.want)
       \/ r \in expired /\ UNCHANGED bits
    /\ woken' = woken \ {r} /\ expired' = expired \ {r}
    /\ UNCHANGED <<open, waiting>>

\* The reader is deleted in the middle of its call.
Leave(r) ==
    /\ r \in waiting \cup woken \cup expired
    /\ waiting' = waiting \ {r} /\ woken' = woken \ {r} /\ expired' = expired \ {r}
    /\ UNCHANGED <<open, bits>>

\* The steps in which a reader that waits gets what it wants, or nobody takes a bit.
Serve ==
    \/ Open \/ Close
    \/ \E set \in SUBSET Flags : Write(set)
    \/ \E r \in Reader : Wait(r) \/ Expire(r) \/ Return(r) \/ Leave(r)

Next ==
    \/ Serve
    \/ \E want \in Wishes : Poll(want)
    \/ \E keep \in SUBSET Flags : Clear(keep)

Spec == Init /\ [][Next]_event

=============================================================================
