SPECIFICATION IpcSpec
CONSTANTS
    t1 = t1
    t2 = t2
    s1 = s1
    e1 = e1
    b1 = b1
    b2 = b2
    Idle = Idle
    Boot = Boot
    NoArg = NoArg
    Task <- Tasks2
    WaitObj <- WaitObjs
    Sem <- Sems1
    MaxCount = 2
    Timeout <- Timeouts
    Event <- Events1
    Bit <- Bits2
    Want <- Wants
    EventTimeout <- Timeouts
    Lowest = 2
    TimeSlice = 1
    MaxDelay = 1
    Calls = {"delete", "suspend", "isr", "semCreate", "semPend", "semPost", "isrSemPost", "semDelete", "eventInit", "eventRead", "eventWrite", "isrEvent", "eventDestroy", "eventClear"}
    CreatePrio = {0, 1}
    Delay = {}
    MaxLock = 0
    Unprotected = {}
CONSTRAINT Suspensions
SYMMETRY TaskSymmetry
INVARIANTS
    IpcTypeOK
    NoWaitWithTokens
    WaitersHaveSemaphore
    HighestPriorityRuns
    NoReaderForgotten
PROPERTIES
    EachIsASemaphore
    EachIsAnEvent
