SPECIFICATION FairSpec
CONSTANTS
    Timers = {t1, t2, t3}
    Durations = {0, 1, 2, 9}
    TicksPerMs = 2
    Horizon = 9
    MaxNow = 6
    MaxArmFailures = 1
    MaxPosted = 2
INVARIANTS NoDanglingAwaiter NobodyIsForgotten ResumedInDeadlineOrder
PROPERTIES ArmingHeals WaitEnds
CHECK_DEADLOCK FALSE
