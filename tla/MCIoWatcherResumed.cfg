SPECIFICATION FairSpec
CONSTANTS
    MaxWaits = 2
    MaxReopens = 0
    MaxModFailures = 0
    PostMayFail = FALSE
    CanHangUp = FALSE
PROPERTY WaiterIsResumed
