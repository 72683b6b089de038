SPECIFICATION LiveSpec
CONSTANTS
    t1 = t1
    t2 = t2
    t3 = t3
    s1 = s1
    Idle = Idle
    Boot = Boot
    NoArg = NoArg
    Task <- Tasks3
    WaitObj <- Sems1
    Sem <- Sems1
    MaxCount = 1
    Timeout <- Timeouts
    Lowest = 1
    TimeSlice = 1
    MaxDelay = 1
    Calls = {"delay", "yield"}
    CreatePrio = {0}
    Delay = {1}
    MaxLock = 0
    Unprotected = {}
PROPERTIES
    ReadyRuns
