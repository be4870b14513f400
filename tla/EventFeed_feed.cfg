SPECIFICATION FairSpec
CONSTANTS
    Sockets = {s1, s2}
    NoSocket = NoSocket
    MaxRows = 2
    MaxEvents = 2
    MaxQueue = 2
    Budget <- FeedBudget
INVARIANTS TypeOK ConnectionIsPursued ConnectedIsTrue FeedIsComplete RowsInOrder
PROPERTIES Reconnects ShowsLatest
CHECK_DEADLOCK FALSE
