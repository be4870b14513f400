SPECIFICATION FairSpec
CONSTANTS
    Clients = {c1, c2}
    Timers = {x1}
    NoTimer = NoTimer
    MaxId = 3
    Budget <- ConcurrentBudget
INVARIANTS SafeSwitchLosesNothing 
PROPERTIES TimerHeals
CHECK_DEADLOCK FALSE
