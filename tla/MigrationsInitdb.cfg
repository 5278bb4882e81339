SPECIFICATION Spec
CONSTANTS
    Services = {api}
    NoService = NoService
    N = 5
    Ddl = {1, 2, 4}
    Preloaded = TRUE
    LockAttempts = 2
    Disturbances = {"callError", "replyLost", "crash"}
    MaxDisturbances = 0
INVARIANT AppliedOnce
