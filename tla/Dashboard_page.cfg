SPECIFICATION FairSpec
CONSTANTS
    MaxCalls = 2
    Budgets <- PageBudgets
INVARIANTS TypeOK IntervalsAreHeld StreamButtonsExclude
PROPERTIES PageConverges
CHECK_DEADLOCK FALSE
