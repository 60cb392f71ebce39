SPECIFICATION FairSpec
CONSTANTS
    h1 = h1
    c1 = c1
    Threads = {t1}
    Handles <- MCHandles
    Callables <- MCCallables
    Spawn <- MCSpawnForever
    IoSpawn <- MCHandles
    kMaximumItemsPerPass = 2
    kMaximumRemoteBacklog = 2
    MaxLocal = 1
    CounterCap = 0
    MaxWriteFailures = 1
    MayFailToWait = TRUE
    MaxSignals = 1
INVARIANTS NoLostWakeup PendingIsServed NotRunningMeansStopped
PROPERTIES StopEndsRun LoopKeepsPolling BacklogIsTakenBetweenLocals ImplementsReadyQueues
