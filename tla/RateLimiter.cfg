SPECIFICATION Spec
CONSTANTS
    NULL = NULL
    Clients = {c1, c2}
    Limit = 2
    Window = 2
    CleanupPeriod = 3
    MaxTime = 5
INVARIANTS
    TypeOK
    AtMostTwiceTheLimit
    RefusalsDeserved
PROPERTY ImplementsQuota
