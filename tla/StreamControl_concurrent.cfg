SPECIFICATION Spec
CONSTANTS
    Threads = {t1, t2}
    Databases = {sharding_db, migration_db}
    None = None
    MaxClients = 1
    MaxJobs = 2
    Budget <- ConcurrentBudget
INVARIANTS StoppedAtProxy
CHECK_DEADLOCK FALSE
