SPECIFICATION Spec
CONSTANTS
    Clients = {c1}
    Timers = {x1, x2}
    NoTimer = NoTimer
    MaxId = 2
    Budget <- RestartBudget
INVARIANTS EnabledMeansTimer
CHECK_DEADLOCK FALSE
