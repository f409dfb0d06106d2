SPECIFICATION Spec
CONSTANTS
    NULL = NULL
    Tokens = {t1}
    Requests = {r1, r2}
    Lifespan = 2
    Retries = 2
    MaxTime = 4
    MaxFailures = 2
    MaxCrashes = 1
INVARIANTS
    TypeOK
    RevokedIsRefused
    SessionOutlivesToken
