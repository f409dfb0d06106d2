SPECIFICATION Spec
CONSTANTS
    NULL = NULL
    Shipped = Shipped
    Tenants = {"taskpro", "testapp"}
    Hostnames = {"a.example", "b.example", "c.example"}
    Handlers = {h1, h2}
    Upserts <- TwoUpserts
    Reports <- OneReport
    RuntimeFiles <- AllRuntimeFiles
    LegacyConfigs <- NoLegacy
    ShippedTenants = {}
    MaxRevisions = 4
    MaxFailures = 0
INVARIANT HostnamesUnique
