SPECIFICATION FairSpec
CONSTANTS
    Threads = {h1}
    Tasks = {t1}
    Health = health
    Destructor = destructor
    Nobody = nobody
    maximumPoolSize = 1
    maximumWaitingRequests = 2
    CreationMayFail = TRUE
    MaxLostPosts = 1
INVARIANTS BooksAgree NoIdleBesideWaiters IdleIsFetched NobodyLeftBehind
PROPERTIES WaitEnds DestructorReturns
CHECK_DEADLOCK FALSE
