SPECIFICATION Spec
CONSTANTS
    NULL = NULL
    Torn = Torn
    Tenants = {1, 2}
    Hostnames = {h1, h2}
    TTL = 2
    MaxTime = 3
    MaxWrites = 2
SYMMETRY HostnameSymmetry
INVARIANTS
    TypeOK
    AnswersRecentlyRead
    TableCatchesUp
