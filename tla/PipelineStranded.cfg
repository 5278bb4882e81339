SPECIFICATION FairSpec
CONSTANTS
    Requests = {r1}
    NoReport = NoReport
    Poison = Poison
    Disturbances = {"workerRestart"}
    MaxDisturbances = 1
    MaxAttempts = 2
    MaxQueue = 2
    Reruns = FALSE
PROPERTY ProcessingSettles
