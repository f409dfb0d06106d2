SPECIFICATION FairSpec
CONSTANTS
    NULL = NULL
    Shipped = Shipped
    Tenants = {"taskpro", "testapp"}
    Hostnames = {"a.example", "b.example", "c.example"}
    Handlers = {h1}
    Upserts <- OneUpsert
    Reports <- OneReport
    RuntimeFiles <- TwoFiles
    LegacyConfigs <- OneLegacy
    ShippedTenants = {"testapp"}
    MaxRevisions = 4
    MaxFailures = 1
INVARIANT FilesFollowRows
PROPERTIES
    DisableTakesEffect
    ImplementsLifecycle
