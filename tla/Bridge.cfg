SPECIFICATION BridgeSpec
CONSTANTS
    Attempts = {g1, g2}
    Disconnects = {d1}
    NoGen = NoGen
    r1 = r1  r2 = r2  x = x
    Requests = {r1, r2}
    Ids = {x}
    IdOf <- SharedIds
    Capacity = 1
    OverlapIds = TRUE
    NoWaiter = NoWaiter
INVARIANTS
    SeenIsLive
    LateCleanUpIsHarmless
    OneOwner
PROPERTIES
    CallReturns
    Contract
CHECK_DEADLOCK FALSE
