SPECIFICATION DownloadSpec
CONSTANTS
    Requests = {r1, r2}
    Viewers = {v1}
    NoReport = NoReport
    Poison = Poison
    Disturbances = {"callError", "apiRestart", "workerRestart", "redisLoss"}
    MaxDisturbances = 3
    MaxAttempts = 2
    MaxQueue = 2
    Reruns = FALSE
INVARIANTS
    DownloadTypeOK
    CompletedFileIsFound
    DeliversWhole
    ShownIsDelivered
PROPERTY KeepsLifecycle
