CONSTANTS
    c1 = c1
    c2 = c2
    c3 = c3
    Coroutines = {c1, c2, c3}
    Capacity = 3
    Requests = {1, 2}
    Uses = {"tryAcquire", "release", "cancel", "destroy"}
    MaxReleased = 1
    MaxRevoked = 2
    MaxPostFailures = 1
    Revoked = Revoked
SPECIFICATION FairSpec
INVARIANTS BooksBalance ChargedInRequestOrder TicketsBelongToWaiters
PROPERTY WaiterLeavesQueue
CHECK_DEADLOCK FALSE
