SPECIFICATION MuxSpec
CONSTANTS
    t1 = t1
    t2 = t2
    t3 = t3
    m1 = m1
    m2 = m2
    Idle = Idle
    Boot = Boot
    NoArg = NoArg
    NoOwner = NoOwner
    Task <- Tasks3
    WaitObj <- Mux2
    Mux <- Mux2
    MaxDepth = 2
    Timeout <- Timeouts
    Lowest = 2
    TimeSlice = 1
    MaxDelay = 1
    Calls = {"delete", "suspend", "isr", "muxPend", "muxPost", "muxDelete"}
    CreatePrio = {0, 1}
    Delay = {}
    MaxLock = 0
    Unprotected = {}
CONSTRAINT ThreeTasksOrTwoMutexes
SYMMETRY Symmetry
INVARIANTS
    MuxTypeOK
    WaitersHaveOwner
    PriorityRestored
PROPERTIES
    EachIsALock
