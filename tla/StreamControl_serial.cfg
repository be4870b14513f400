SPECIFICATION Spec
CONSTANTS
    Threads = {t1}
    Databases = {sharding_db, migration_db}
    None = None
    MaxClients = 3
    MaxJobs = 4
    Budget <- SerialBudget
INVARIANTS TypeOK JobsAreControlled CleanupLeavesNothing
CHECK_DEADLOCK FALSE
