SPECIFICATION TaskSpec
CONSTANTS
    t1 = t1
    t2 = t2
    t3 = t3
    Idle = Idle
    Boot = Boot
    NoArg = NoArg
    Task <- Tasks3
    WaitObj = {}
    Lowest = 1
    TimeSlice = 1
    MaxDelay = 1
    Calls = {"create", "delete", "join", "suspend"}
    CreatePrio = {0}
    Delay = {}
    MaxLock = 0
    Unprotected = {}
SYMMETRY TaskSymmetry
INVARIANTS
    ListsMatchStatus
    ExitedIsOver
    JoinedTaskHasExited
