SPECIFICATION Spec
CONSTANTS
    NULL = NULL
    Shipped = Shipped
    Tenants = {"testapp"}
    Hostnames = {"a.example", "c.example"}
    Handlers = {h1, h2}
    Upserts <- OneUpsert
    Reports <- OneReport
    RuntimeFiles <- TwoFiles
    LegacyConfigs <- BadLegacy
    ShippedTenants = {"testapp"}
    MaxRevisions = 4
    MaxFailures = 1
SYMMETRY HandlerSymmetry
INVARIANTS
    TypeOK
    BundledWasPublished
    RevisionsHaveNoGaps
    PublishedCopiesValidated
