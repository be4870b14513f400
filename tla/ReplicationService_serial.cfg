SPECIFICATION Spec
CONSTANTS
    Clients = {c1}
    Timers = {x1, x2}
    NoTimer = NoTimer
    MaxId = 3
    Budget <- SerialBudget
INVARIANTS TypeOK OneTimer
SYMMETRY Symmetry
CHECK_DEADLOCK FALSE
