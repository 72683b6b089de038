----------------------------- MODULE LosMemory ------------------------------
(***************************************************************************)
(* The kernel's heap (kernel/src/mm/los_memory.c), a two-level segregated  *)
(* fit allocator.  A pool is tiled by nodes, each with a header that says  *)
(* its size, the node before it and whether it is used; the free ones are  *)
(* on lists by size, which a bitmap says are not empty.                    *)
(*                                                                         *)
(* Addresses and sizes are in words of OS_MEM_ALIGN_SIZE.  Every function  *)
(* of the source is an operator on the record heap; a call is one critical *)
(* section.  What callers put into their blocks is left out, but for where *)
(* it is.                                                                  *)
(***************************************************************************)
EXTENDS Integers, SequencesExt, FiniteSetsExt

CONSTANTS
    Pool, First, End,   \* the pool, its first node and its end node
    StartBucket,        \* OS_MEM_LARGE_START_BUCKET, of words
    SLI,                \* OS_MEM_SLI: 2^SLI lists for every power of two
    LargeCount,         \* OS_MEM_LARGE_BUCKET_COUNT
    Size,               \* the sizes that are asked for
    Boundary,           \* the alignments that are asked for
    ReallocAligned      \* is a block of LOS_MemAllocAlign ever reallocated?

HeadSize == 2   \* OS_MEM_NODE_HEAD_SIZE: ptr and sizeAndFlag
MinLeft == 4    \* OS_MEM_MIN_LEFT_SIZE: a free node's header has prev and next
MinAlloc == 2   \* OS_MEM_MIN_ALLOC_SIZE
SmallMax == 2 ^ StartBucket     \* OS_MEM_SMALL_BUCKET_MAX_SIZE
SmallCount == SmallMax - 1      \* OS_MEM_SMALL_BUCKET_COUNT
ListCount == SmallCount + LargeCount * 2 ^ SLI   \* OS_MEM_FREE_LIST_COUNT
ListIndex == 0 .. ListCount - 1
Null == 0

ASSUME MemoryAssumption ==
    /\ Pool \in Nat \ {0} /\ First \in Nat /\ End \in Nat
    /\ First > Pool /\ End - First >= MinLeft
    /\ StartBucket \in Nat /\ SLI \in Nat /\ SLI <= StartBucket
    /\ LargeCount \in Nat /\ StartBucket + LargeCount <= 29
    /\ End - First < 2 ^ (StartBucket + LargeCount)
    /\ Size \subseteq Nat \ {0}
    /\ Boundary \subseteq {2 ^ k : k \in 0 .. 29}
    /\ ReallocAligned \in BOOLEAN

VARIABLES
    heap,
    blocks,     \* what the callers hold: the pointer, the size, where the content is
    refused     \* the request of the last call, if that returned NULL: at most one

memoryVars == <<heap, blocks, refused>>

-----------------------------------------------------------------------------
(* The free lists: one for every size below SmallMax, then 2^SLI of equal  *)
(* width for every power of two.                                           *)

Log2(n) == CHOOSE f \in 0 .. 31 : 2 ^ f <= n /\ n < 2 ^ (f + 1)

OsMemFlGet(size) ==
    IF size < SmallMax THEN size - 1 ELSE Log2(size) - StartBucket + SmallCount

OsMemSlGet(size) == (size * 2 ^ SLI) \div (2 ^ Log2(size)) - 2 ^ SLI

OsMemFreeListIndexGet(size) ==
    LET fl == OsMemFlGet(size)
    IN  IF fl < SmallCount THEN fl
        ELSE SmallCount + (fl - SmallCount) * 2 ^ SLI + OsMemSlGet(size)

OsMemListAdd(h, i, n) ==
    [h EXCEPT !.freeList[i] = <<n>> \o @, !.bitmap = @ \cup {i}]

\* The bit goes with the last node of the list.
OsMemListDelete(h, i, n) ==
    [h EXCEPT !.freeList[i] = RemoveFirst(@, n),
              !.bitmap = IF h.freeList[i] = <<n>> THEN @ \ {i} ELSE @]

OsMemFreeNodeAdd(h, n) == OsMemListAdd(h, OsMemFreeListIndexGet(h.nodes[n].size), n)

OsMemFreeNodeDelete(h, n) == OsMemListDelete(h, OsMemFreeListIndexGet(h.nodes[n].size), n)

\* MUTATION: the list of the size itself is never searched.
LaterOnly_OsMemFindNextSuitableBlock(h, size) ==
    LET own   == OsMemFreeListIndexGet(size)
        above == {i \in h.bitmap : i >= IF size >= SmallMax THEN own + 1 ELSE own}
    IN  IF above # {} THEN [node |-> Head(h.freeList[Min(above)]), list |-> Min(above)]
        ELSE [node |-> Null, list |-> own]

\* A list of small nodes, or a later one of large nodes, has only nodes that
\* fit; the list of the size itself is searched for the first one that does.
OsMemFindNextSuitableBlock(h, size) ==
    LET own   == OsMemFreeListIndexGet(size)
        large == size >= SmallMax
        above == {i \in h.bitmap : i >= IF large THEN own + 1 ELSE own}
        fits  == SelectInSeq(h.freeList[own], LAMBDA n : h.nodes[n].size >= size)
    IN  IF above # {} THEN [node |-> Head(h.freeList[Min(above)]), list |-> Min(above)]
        ELSE IF large /\ fits # 0 THEN [node |-> h.freeList[own][fits], list |-> own]
        ELSE [node |-> Null, list |-> own]

-----------------------------------------------------------------------------
(* Nodes.                                                                  *)

NextNode(h, n) == n + h.nodes[n].size

\* MUTATION: the node behind n keeps n for the one before it.
StalePrev_OsMemMergeNode(h, n) ==
    [h EXCEPT !.nodes =
        [m \in DOMAIN h.nodes \ {n} |->
            IF m = h.nodes[n].prev THEN [h.nodes[m] EXCEPT !.size = @ + h.nodes[n].size]
            ELSE h.nodes[m]]]

\* Node n becomes part of the one before it.
OsMemMergeNode(h, n) ==
    LET prev == h.nodes[n].prev
    IN  [h EXCEPT !.nodes =
            [m \in DOMAIN h.nodes \ {n} |->
                CASE m = prev -> [h.nodes[m] EXCEPT !.size = @ + h.nodes[n].size]
                  [] m = NextNode(h, n) -> [h.nodes[m] EXCEPT !.prev = prev]
                  [] OTHER -> h.nodes[m]]]

\* What is behind the first size words of n becomes a free node.
Carved(h, n, size) ==
    LET rest == n + size
    IN  [h EXCEPT !.nodes =
            [m \in DOMAIN h.nodes \cup {rest} |->
                CASE m = rest -> [size |-> h.nodes[n].size - size, used |-> FALSE,
                                  aligned |-> FALSE, prev |-> n]
                  [] m = n -> [h.nodes[n] EXCEPT !.size = size]
                  [] m = NextNode(h, n) -> [h.nodes[m] EXCEPT !.prev = rest]
                  [] OTHER -> h.nodes[m]]]

\* It is merged with the next node, if that is free.
OsMemSplitNode(h, n, size) ==
    LET carved == Carved(h, n, size)
        next   == NextNode(h, n)
        merged == IF h.nodes[next].used THEN carved
                  ELSE OsMemMergeNode(OsMemFreeNodeDelete(carved, next), next)
    IN  OsMemFreeNodeAdd(merged, n + size)

OsMemWaterUsedRecord(h, size) ==
    [h EXCEPT !.curUsedSize = @ + size,
              !.waterLine = IF h.curUsedSize + size > @ THEN h.curUsedSize + size ELSE @]

\* The flags of a node that is used; a node is never marked as aligned but
\* right after its allocation.
Marked(h, n) == [h EXCEPT !.nodes[n].used = TRUE, !.nodes[n].aligned = FALSE]

SplitIfWorthIt(h, n, size) ==
    IF size + MinLeft <= h.nodes[n].size THEN OsMemSplitNode(h, n, size) ELSE h

-----------------------------------------------------------------------------
(* LOS_MemAlloc and LOS_MemAllocAlign.                                     *)

AtLeast(size) == IF size < MinAlloc THEN MinAlloc ELSE size

Found(h, size) == OsMemFindNextSuitableBlock(h, size + HeadSize)

\* The node that is found, cut to size.
OsMemAlloc(h, size) ==
    LET found == Found(h, size)
        n     == found.node
        taken == OsMemListDelete(h, found.list, n)
        used  == Marked(SplitIfWorthIt(taken, n, size + HeadSize), n)
    IN  OsMemWaterUsedRecord(used, used.nodes[n].size)

\* What has to be asked for so that an aligned block is in it: one word less than
\* the boundary, as the pointer is a whole number of words.
UseSize(size, boundary) == size + boundary - 1

\* Requests so large that their bits are flags are refused at once.
ASSUME RequestAssumption ==
    \A size \in Size, boundary \in Boundary \cup {1} :
        UseSize(AtLeast(size), boundary) + HeadSize < 2 ^ (StartBucket + LargeCount)

Block(ptr, size) == [ptr |-> ptr, size |-> size, content |-> ptr]

NotAllocated(size, boundary) ==
    /\ Found(heap, UseSize(size, boundary)).node = Null
    /\ refused' = {[size |-> size, boundary |-> boundary]}
    /\ UNCHANGED <<heap, blocks>>

LOS_MemAlloc(asked) ==
    LET size == AtLeast(asked)
        ptr  == Found(heap, size).node + HeadSize
    IN  \/ NotAllocated(size, 1)
        \/ /\ Found(heap, size).node # Null
           /\ heap' = OsMemAlloc(heap, size)
           /\ blocks' = blocks \cup {Block(ptr, size)}
           /\ refused' = {}

RoundUp(ptr, boundary) == ((ptr + boundary - 1) \div boundary) * boundary

Gapped(h, n, ptr, gap) ==
    [h EXCEPT !.nodes[n].aligned = TRUE,
              !.gap = [p \in DOMAIN @ \cup {ptr} |-> IF p = ptr THEN gap ELSE @[p]]]

\* The gap is stored before the pointer, unless there is none.
LOS_MemAllocAlign(asked, boundary) ==
    LET size    == AtLeast(asked)
        useSize == UseSize(size, boundary)
        node    == Found(heap, useSize).node
        ptr     == node + HeadSize
        aligned == RoundUp(ptr, boundary)
        taken   == OsMemAlloc(heap, useSize)
    IN  \/ NotAllocated(size, boundary)
        \/ /\ node # Null
           /\ heap' = IF aligned = ptr THEN taken
                      ELSE Gapped(taken, node, aligned, aligned - ptr)
           /\ blocks' = blocks \cup {Block(aligned, size)}
           /\ refused' = {}

-----------------------------------------------------------------------------
(* LOS_MemFree.                                                            *)

\* The word before a pointer is the header's sizeAndFlag or a gap.  The header of
\* an aligned block has both flags, so its pointer from before is refused.
OsGetRealPtr(h, ptr) ==
    IF ptr - HeadSize \in DOMAIN h.nodes
    THEN IF h.nodes[ptr - HeadSize].aligned THEN Null ELSE ptr
    ELSE IF h.gap[ptr] > ptr - HeadSize - Pool THEN Null ELSE ptr - h.gap[ptr]

OsMemIsNodeValid(h, n) ==
    /\ n \in DOMAIN h.nodes /\ n \in First .. End
    /\ h.nodes[n].used \/ h.nodes[n].prev \in First .. End + HeadSize - 1

\* Used, and its neighbours' headers agree with its own.
OsMemCheckUsedNode(h, n) ==
    /\ OsMemIsNodeValid(h, n) /\ h.nodes[n].used
    /\ LET next == NextNode(h, n)
       IN  OsMemIsNodeValid(h, next) /\ h.nodes[next].prev = n
    /\ n # First => LET prev == h.nodes[n].prev
                    IN  OsMemIsNodeValid(h, prev) /\ NextNode(h, prev) = n

Freed(h, n) ==
    [h EXCEPT !.nodes[n].used = FALSE, !.nodes[n].aligned = FALSE,
              !.curUsedSize = @ - h.nodes[n].size]

\* Node n and the one behind it, if that is free.
WithNext(h, n) ==
    LET next == NextNode(h, n)
    IN  IF h.nodes[next].used THEN h ELSE OsMemMergeNode(OsMemFreeNodeDelete(h, next), next)

\* The node becomes one with the free nodes next to it.
OsMemFree(h, n) ==
    LET freed == Freed(h, n)
        prev  == freed.nodes[n].prev
        alone == freed.nodes[prev].used
        back  == IF alone THEN freed ELSE OsMemMergeNode(OsMemFreeNodeDelete(freed, prev), n)
        node  == IF alone THEN n ELSE prev
    IN  OsMemFreeNodeAdd(WithNext(back, node), node)

\* Nobody has the pointer any more, and the gap before it means nothing.
Forgotten(h, ptr) == [h EXCEPT !.gap = [p \in DOMAIN @ \ {ptr} |-> @[p]]]

Accepted(h, ptr) ==
    /\ OsGetRealPtr(h, ptr) # Null
    /\ OsMemCheckUsedNode(h, OsGetRealPtr(h, ptr) - HeadSize)

LOS_MemFree(b) ==
    /\ Accepted(heap, b.ptr)
    /\ heap' = Forgotten(OsMemFree(heap, OsGetRealPtr(heap, b.ptr) - HeadSize), b.ptr)
    /\ blocks' = blocks \ {b}
    /\ refused' = {}

-----------------------------------------------------------------------------
(* LOS_MemRealloc, with a pointer and a size.  Without the one it is       *)
(* LOS_MemAlloc, without the other LOS_MemFree.                            *)

OsMemReAllocSmaller(h, n, allocSize) ==
    LET cut == Marked(SplitIfWorthIt(h, n, allocSize), n)
    IN  [cut EXCEPT !.curUsedSize = @ - (h.nodes[n].size - cut.nodes[n].size)]

CanGrow(h, n, allocSize) ==
    LET next == NextNode(h, n)
    IN  ~h.nodes[next].used /\ h.nodes[next].size + h.nodes[n].size >= allocSize

OsMemMergeNodeForReAllocBigger(h, n, allocSize) ==
    LET next   == NextNode(h, n)
        merged == OsMemMergeNode(OsMemFreeNodeDelete(h, next), next)
        used   == Marked(SplitIfWorthIt(merged, n, allocSize), n)
    IN  OsMemWaterUsedRecord(used, used.nodes[n].size - h.nodes[n].size)

\* The block is at ptr from now on, and its content where it was, or, if it was
\* copied, as far from the node's first word as it was.
Moved(b, ptr, size, distance) ==
    /\ blocks' = (blocks \ {b}) \cup
                     {[ptr |-> ptr, size |-> size, content |-> b.content + distance]}
    /\ refused' = {}

LOS_MemRealloc(b, asked) ==
    LET size      == AtLeast(asked)
        allocSize == size + HeadSize
        ptr       == OsGetRealPtr(heap, b.ptr)
        n         == ptr - HeadSize
        node      == Found(heap, size).node
    IN  /\ Accepted(heap, b.ptr) /\ (ReallocAligned \/ ptr = b.ptr)
        /\ \/ /\ heap.nodes[n].size >= allocSize
              /\ heap' = Forgotten(OsMemReAllocSmaller(heap, n, allocSize), b.ptr)
              /\ Moved(b, ptr, size, 0)
           \/ /\ heap.nodes[n].size < allocSize /\ CanGrow(heap, n, allocSize)
              /\ heap' = Forgotten(OsMemMergeNodeForReAllocBigger(heap, n, allocSize), b.ptr)
              /\ Moved(b, ptr, size, 0)
           \/ /\ heap.nodes[n].size < allocSize /\ ~CanGrow(heap, n, allocSize)
              /\ \/ NotAllocated(size, 1)
                 \/ /\ node # Null
                    /\ heap' = Forgotten(OsMemFree(OsMemAlloc(heap, size), n), b.ptr)
                    /\ Moved(b, node + HeadSize, size, node - n)

-----------------------------------------------------------------------------

\* LOS_MemInit: one free node, and the end node, which is used for good.
MemoryInit ==
    /\ heap = OsMemFreeNodeAdd(
            [nodes |-> [n \in {First, End} |->
                          IF n = First
                          THEN [size |-> End - First, used |-> FALSE, aligned |-> FALSE, prev |-> End]
                          ELSE [size |-> 0, used |-> TRUE, aligned |-> FALSE, prev |-> First]],
             freeList |-> [i \in ListIndex |-> <<>>], bitmap |-> {},
             gap |-> [p \in {} |-> 0],
             curUsedSize |-> First - Pool + HeadSize, waterLine |-> First - Pool + HeadSize],
            First)
    /\ blocks = {} /\ refused = {}

MemoryNext ==
    \/ \E size \in Size :
          \/ LOS_MemAlloc(size)
          \/ \E boundary \in Boundary : LOS_MemAllocAlign(size, boundary)
          \/ \E b \in blocks : LOS_MemRealloc(b, size)
    \/ \E b \in blocks : LOS_MemFree(b)

MemorySpec == MemoryInit /\ [][MemoryNext]_memoryVars

-----------------------------------------------------------------------------
(* Correctness. *)

Node == DOMAIN heap.nodes
UsedNode == {n \in Node \ {End} : heap.nodes[n].used}

HeapTypeOK ==
    /\ Node \subseteq First .. End /\ {First, End} \subseteq Node
    /\ heap.nodes \in [Node -> [size : 0 .. End - First, used : BOOLEAN,
                                 aligned : BOOLEAN, prev : Node]]
    /\ heap.freeList \in [ListIndex -> Seq(Node)] /\ heap.bitmap \subseteq ListIndex
    /\ heap.curUsedSize \in Nat /\ heap.waterLine \in Nat

\* The nodes tile the pool, each knows the one before it, and no two free ones
\* are neighbours: space that is free in one piece is one node.
NodesTile ==
    /\ heap.nodes[First].prev = End /\ heap.nodes[End].used
    /\ \A n \in Node \ {End} :
          LET next == NextNode(heap, n)
          IN  /\ next \in Node /\ heap.nodes[next].prev = n
              /\ Node \cap n + 1 .. next - 1 = {}
              /\ heap.nodes[n].size >= MinLeft
              /\ ~heap.nodes[n].used => heap.nodes[next].used /\ ~heap.nodes[n].aligned

\* A free node is on the list of its size, once, and the bitmap says which lists
\* have nodes.
FreeListsMatchNodes ==
    /\ heap.bitmap = {i \in ListIndex : heap.freeList[i] # <<>>}
    /\ \A i \in ListIndex :
          /\ IsInjective(heap.freeList[i])
          /\ ToSet(heap.freeList[i]) =
                {n \in Node : ~heap.nodes[n].used /\ OsMemFreeListIndexGet(heap.nodes[n].size) = i}

\* What is counted as used is the words of the used nodes and of the pool's own data.
AccountsBalance ==
    /\ heap.curUsedSize = First - Pool + HeadSize
            + Cardinality({w \in First .. End : \E n \in UsedNode : n <= w /\ w < NextNode(heap, n)})
    /\ heap.curUsedSize <= heap.waterLine

\* Every used node is some caller's, who can free it.
NothingLeaks ==
    /\ \A b \in blocks : Accepted(heap, b.ptr)
    /\ UsedNode = {OsGetRealPtr(heap, b.ptr) - HeadSize : b \in blocks}
    /\ Cardinality(UsedNode) = Cardinality(blocks)

\* The headers, the lists and the accounts of the pool agree after any sequence of
\* allocations, reallocations and releases, and every used node is a caller's.
HeapIsSound ==
    HeapTypeOK /\ NodesTile /\ FreeListsMatchNodes /\ AccountsBalance /\ NothingLeaks

=============================================================================
