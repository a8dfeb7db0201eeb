SPECIFICATION FairSpec
CONSTANTS
    n1 = n1
    n2 = n2
    Nodes = {n1, n2}
    Tables <- MCTables
    ConfigTable = "config"
    LogsTable = "authentication_logs"
    Drivers = {"mysql", "postgres", "sqlite"}
    OldSchemas <- MCOldSchemas
    NoTx = NoTx
    MaxFailures = 3
INVARIANTS
    VersionIsComplete
    ServesCompleteSchema
    UpgradeIsAtomic
PROPERTIES
    EveryServerServes
CHECK_DEADLOCK FALSE
