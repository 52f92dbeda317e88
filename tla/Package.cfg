SPECIFICATION Spec
CONSTANTS
    Schemas <- MCSchemas
    Disks <- MCDisks
    Limits <- MCLimits
    NoKey = NoKey
    NoValue = NoValue
    PayloadLimits = {0, 3}
    CatalogBudget = 4
    ChunkBytes = 2
    Contents <- MCContents
    Guids = {"g1", "g2"}
    MaxVanished = 1
CHECK_DEADLOCK FALSE
INVARIANTS
    PackageInv
    PackageIsPromised
    NeverMisread
    PayloadIsWhole
    CatalogsResolve
