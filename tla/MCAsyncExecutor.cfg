CONSTANTS
    w1 = w1
    w2 = w2
    w3 = w3
    s1 = s1
    s2 = s2
    s3 = s3
    Workers = {w1, w2, w3}
    Submissions = {s1, s2, s3}
    MaximumPending = 2
    LoopMayRefuse = {s3}
    None = None
SPECIFICATION FairSpec
INVARIANTS QueueIsEmptyAfterExit NoTaskWaitsForASleeper PostedFramesWait
PROPERTIES SubmissionEnds DestructorReturns
CHECK_DEADLOCK FALSE
