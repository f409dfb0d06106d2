SPECIFICATION Spec
CONSTANTS
    NULL = NULL
    Tenants = {t1, t2}
    Hostnames = {h1, h2}
    Operators = {o1, o2}
    Rows <- AllOrNone
    MaxRuns = 3
    MaxFailures = 1
SYMMETRY Symmetry
INVARIANTS
    TypeOK
    OnboardingRepairs
    OnboardedCanLogIn
    ProvidersAreFew
