SPECIFICATION TimersSpec
CONSTANTS
    w1 = w1
    w2 = w2
    Timer <- Timers2
    Interval = {2, 4}
    Divisor = 2
    QueueSize = 2
    Lives = 2
    MaxLate = 1
    RestartExpired = TRUE
    Period <- Periods
    MaxReal = 12
    ReloadPending = FALSE
    ReadNested = FALSE
    Worker = {A}
    IdleTask = IdleTask
    NoTask = NoTask
    Wait = {3}
    TimeSlice = 6
    Left = {3}
    SliceMin = 1
    MinPeriod = 3
    Precision = 3
    PeriodMax = 6
    MaxTime = 1000
    Latency = 1
    MaxDeadlines = 2
    MaxLost = 3
    SwitchPending = FALSE
    SliceOver = FALSE
SYMMETRY TimerSymmetry
INVARIANTS
    NoFreeTimerTicks
