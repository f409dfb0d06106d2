SPECIFICATION Spec
CONSTANTS
    NULL = NULL
    t1 = t1
    t2 = t2
    h1 = h1
    h2 = h2
    Tenants = {t1, t2}
    Hosts = {h1, h2}
    Ids <- SomeIds
    ValidIds <- GoodIds
    Label <- FirstLabels
    Realm <- Realms
    Adapter <- Adapters
    TenantRoles <- OwnRoles
    KC_REALM = "test-tenant"
    Names <- SomeNames
    Tokens <- SomeTokens
    Resources <- SomeResources
    MaxPublications = 2
INVARIANT TenantEntriesDecide
