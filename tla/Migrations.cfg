SPECIFICATION FairSpec
CONSTANTS
    Services = {api, worker, batch}
    NoService = NoService
    N = 5
    Ddl = {1, 2, 4}
    Preloaded = FALSE
    LockAttempts = 2
    Disturbances = {"callError", "replyLost", "crash"}
    MaxDisturbances = 3
INVARIANTS
    TypeOK
    RecordedInOrder
    ServesMigrated
    NeverRecordedTwice
    AtomicWithoutDdl
    RepeatedOnlyAfterDisturbance
PROPERTIES
    StartEnds
    KeepsSchema
