-------------------------------- MODULE Heap --------------------------------
(***************************************************************************)
(* What a heap promises, without saying how: callers get parts of an area  *)
(* that no two share, aligned as they asked, with their content where they *)
(* get a pointer to, until they give them back.  A request may be refused  *)
(* only if no piece of the area that is free in one is large enough.       *)
(***************************************************************************)
EXTENDS Naturals, FiniteSets

CONSTANTS
    Low, High,      \* the area
    Overhead,       \* what a part takes besides what its caller uses
    Sizes, Boundaries

VARIABLES
    parts,          \* from lo up to hi; the caller has size words of it from ptr on
    refused         \* the request of the last call, if that was refused
heapVars == <<parts, refused>>

Request == [size : Sizes, boundary : Boundaries]

\* The most that has to be free in one piece for a request.
Needed(r) == r.size + Overhead + r.boundary - 1

Free(lo, hi) == \A p \in parts : p.hi <= lo \/ hi <= p.lo
Room(r) == \E lo \in Low .. High - Needed(r) : Free(lo, lo + Needed(r))

\* Part p serves request r, and it is of no other part than those.
Serves(p, r, others) ==
    /\ Low <= p.lo /\ p.lo + Overhead <= p.ptr /\ p.ptr + r.size <= p.hi /\ p.hi <= High
    /\ p.ptr % r.boundary = 0 /\ p.size = r.size /\ p.content = p.ptr
    /\ \A q \in others : q.hi <= p.lo \/ p.hi <= q.lo

Init == parts = {} /\ refused = {}

Refuse(r) == refused' = {r} /\ UNCHANGED parts /\ ~Room(r)

Grant(r) ==
    \E p \in parts' :
        /\ Serves(p, r, parts) /\ parts' = parts \cup {p}
        /\ refused' = {}

\* The content comes along; the caller may get another part or the same one.
Resize(p, r) ==
    \/ Refuse(r)
    \/ \E q \in parts' :
          /\ Serves(q, r, parts \ {p}) /\ parts' = (parts \ {p}) \cup {q}
          /\ refused' = {}

GiveBack(p) == parts' = parts \ {p} /\ refused' = {}

Next ==
    \/ \E r \in Request : Grant(r) \/ Refuse(r)
    \/ \E p \in parts : GiveBack(p) \/ \E r \in Request : r.boundary = 1 /\ Resize(p, r)

Spec == Init /\ [][Next]_heapVars

=============================================================================
