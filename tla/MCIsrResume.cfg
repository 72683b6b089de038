SPECIFICATION TaskSpec
CONSTANTS
    t1 = t1
    t2 = t2
    t3 = t3
    Idle = Idle
    Boot = Boot
    NoArg = NoArg
    Task <- Tasks2
    WaitObj = {}
    Lowest = 1
    TimeSlice = 1
    MaxDelay = 1
    Calls = {"suspend", "isr"}
    CreatePrio = {0}
    Delay = {}
    MaxLock = 0
    Unprotected = {"isrResume"}
SYMMETRY TaskSymmetry
INVARIANTS
    NoAssertFails
