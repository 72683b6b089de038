SPECIFICATION MemorySpec
CONSTANTS
    Pool = 1
    First = 3
    End = 27
    StartBucket = 3
    SLI = 1
    LargeCount = 3
    Size = {2, 7}
    Boundary = {4}
    ReallocAligned = FALSE
INVARIANTS
    HeapIsSound
PROPERTIES
    IsAHeap
