------------------------ MODULE LosMemoryRefinement -------------------------
EXTENDS LosMemory

(***************************************************************************)
(* A pool implements the abstract heap: a part is a used node.             *)
(***************************************************************************)
NodeOf(b) == OsGetRealPtr(heap, b.ptr) - HeadSize

Parts == {[lo |-> NodeOf(b), hi |-> NextNode(heap, NodeOf(b)), ptr |-> b.ptr,
           size |-> b.size, content |-> b.content] : b \in blocks}

AbstractHeap == INSTANCE Heap WITH
    Low <- First, High <- End, Overhead <- HeadSize,
    Sizes <- {AtLeast(size) : size \in Size}, Boundaries <- Boundary \cup {1},
    parts <- Parts

\* No two callers' blocks overlap, blocks are aligned and large enough, keep their
\* place and their content, and a request is refused only if there is no room for it
\* in one piece.  It fails if an aligned block is reallocated (ReallocAligned).
IsAHeap == AbstractHeap!Spec

=============================================================================
