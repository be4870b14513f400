SPECIFICATION Spec
CONSTANTS
    Clients = {c1}
    Timers = {x1}
    NoTimer = NoTimer
    MaxId = 2
    Budget <- LossBudget
INVARIANTS NoDataLoss
CHECK_DEADLOCK FALSE
