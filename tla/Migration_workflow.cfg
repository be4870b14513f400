SPECIFICATION MigrationSpec
CONSTANTS
    Keys = {k1, k2}
    Rows = {a, n}
    a = a
    n = n
    Databases = {migration_db, sharding_db}
    MigrationDb = migration_db
    ZeroUser = {}
    EmptyStatus = {}
    NoRow = NoRow
    Decoded <- MCDecoded
    Seed <- MCSeed
    MaxWal <- OneChange
    MaxBatch = 1
    Budget <- WorkflowBudget
    Threads = {s1, s2}
    CopyLimit = 1
    MaxEvents = 2
VIEW WithoutDisplay
SYMMETRY Symmetries
INVARIANTS MigrationTypeOK TargetMatchesSource NothingMadeUp MigratedRowsStay ButtonMeansWorkflow
CHECK_DEADLOCK FALSE
