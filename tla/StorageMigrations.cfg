SPECIFICATION Spec
CONSTANTS
    Hosts = {h1, h2}
    NoHost = NoHost
    MaxDeployments = 4
    MaxConfigs = 5
    MaxExports = 2
SYMMETRY Symmetry
INVARIANTS
    TypeOK
    OneHost
    StorageAgrees
    MigrationExcludesExport
    PendingIsKept
PROPERTY
    StorageNeverReverts
CHECK_DEADLOCK FALSE
