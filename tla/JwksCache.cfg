SPECIFICATION FairSpec
CONSTANTS
    NULL = NULL
    Realms = {k1}
    Requests = {r1, r2}
    TTL = 2
    Latency = 1
    Retries = 2
    MaxTime = 8
    MaxCrashes = 1
INVARIANTS
    TypeOK
    KeysNeverGoBack
    NoHerd
    KeysAtMostTwoTtlOld
PROPERTY CallsReturn
