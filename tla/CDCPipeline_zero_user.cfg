SPECIFICATION Spec
CONSTANTS
    a = a
    e = e
    z = z
    n = n
    Keys = {k1}
    Rows = {a, z}
    Databases = {d1}
    ZeroUser = {z}
    EmptyStatus = {}
    NoRow = NoRow
    Decoded <- MCDecoded
    Seed <- AnyTable
    MaxWal <- OneChange
    MaxBatch = 1
    Budget <- StartBudget
INVARIANTS SourceAndTargetAgree
CHECK_DEADLOCK FALSE
