SPECIFICATION Spec
CONSTANTS
    Requests = {r1}
    NoReport = NoReport
    Poison = Poison
    Disturbances = {"replyLost"}
    MaxDisturbances = 1
    MaxAttempts = 2
    MaxQueue = 2
    Reruns = TRUE
INVARIANT EnqueueFailureMeansNotQueued
