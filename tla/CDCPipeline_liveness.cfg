SPECIFICATION FairSpec
CONSTANTS
    a = a
    e = e
    z = z
    n = n
    Keys = {k1}
    Rows = {a, z}
    Databases = {d1}
    ZeroUser = {z}
    EmptyStatus = {}
    NoRow = NoRow
    Decoded <- MCDecoded
    Seed <- AnyTable
    MaxWal <- MCMaxWal
    MaxBatch = 2
    Budget <- LivenessBudget
INVARIANTS CountersAgree
PROPERTIES StreamCatchesUp
CHECK_DEADLOCK FALSE
