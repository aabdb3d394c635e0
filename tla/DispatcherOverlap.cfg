SPECIFICATION Spec
CONSTANTS
    r1 = r1  r2 = r2  r3 = r3
    x = x  y = y
    Requests = {r1, r2, r3}
    Ids = {x, y}
    IdOf <- SharedIds
    Capacity = 1
    OverlapIds = TRUE
    NoWaiter = NoWaiter
SYMMETRY Sharers
INVARIANTS
    TypeOK
    WaiterTracked
    ClosedHasCause
    TimedOutEntryIsCancelled
    UniqueIdGetsOwnAnswer
CHECK_DEADLOCK FALSE
