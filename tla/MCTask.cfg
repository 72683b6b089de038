SPECIFICATION TaskSpec
CONSTANTS
    t1 = t1
    t2 = t2
    t3 = t3
    Idle = Idle
    Boot = Boot
    NoArg = NoArg
    Task <- Tasks3
    WaitObj = {}
    Lowest = 2
    TimeSlice = 1
    MaxDelay = 1
    Calls = {"create", "delete", "suspend", "delay", "yield", "lock", "priset", "isr"}
    CreatePrio = {0, 1}
    Delay = {0, 1}
    MaxLock = 1
    Unprotected = {}
SYMMETRY TaskSymmetry
INVARIANTS
    TaskTypeOK
    NoAssertFails
    ListsMatchStatus
    BitmapMatchesQueues
    SortLinkMatchesStatus
    OneTaskRuns
    HighestPriorityRuns
PROPERTIES
    NoSwitchWhileLocked
    SuspendedUntilResumed
