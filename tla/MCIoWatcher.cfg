SPECIFICATION Spec
CONSTANTS
    MaxWaits = 3
    MaxReopens = 1
    MaxModFailures = 1
    PostMayFail = TRUE
    CanHangUp = TRUE
INVARIANTS InOnePlace AttachedWhileInSlot WaiterIsWatched EndsForItsReason QuietUntilHangUp
