SPECIFICATION Spec
CONSTANTS
    Callers = {c1, c2}
    Calls = 2
    Attempts = 3
    Limit = 2
    Window = 3
    MaxLag = 1
    MaxTime = 5
INVARIANTS
    TypeOK
    LimitHolds
    RefusedOnlyWhenFull
CHECK_DEADLOCK FALSE
