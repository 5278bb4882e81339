SPECIFICATION FairSpec
CONSTANTS
    Requests = {r1, r2}
    NoReport = NoReport
    Poison = Poison
    Disturbances = {"callError", "replyLost", "apiRestart", "workerRestart", "redisLoss", "manualPush"}
    MaxDisturbances = 3
    MaxAttempts = 2
    MaxQueue = 3
    Reruns = TRUE
INVARIANTS
    TypeOK
    CompletedHasWholeFile
    AccountedFor
PROPERTIES
    KeepsLifecycle
    Settles
