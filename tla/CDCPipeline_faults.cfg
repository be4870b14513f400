SPECIFICATION Spec
CONSTANTS
    a = a
    e = e
    z = z
    n = n
    Keys = {k1, k2}
    Rows = {a, z, n}
    Databases = {d1, d2}
    ZeroUser = {z}
    EmptyStatus = {}
    NoRow = NoRow
    Decoded <- MCDecoded
    Seed <- MCSeed
    MaxWal <- MCMaxWal
    MaxBatch = 2
    Budget <- FaultBudget
VIEW WithoutCounters
SYMMETRY KeySymmetry
INVARIANTS TypeOK TargetMatchesSource NothingInvented
CHECK_DEADLOCK FALSE
