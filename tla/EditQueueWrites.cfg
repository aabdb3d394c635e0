SPECIFICATION FairSpec
CONSTANTS
    w1 = w1  w2 = w2
    Writes = {w1, w2}
    Controls = {w2}
    Steps <- GroupOfTwo
    Capacity = 1
    MaxReconfirms = 1
    Nobody = Nobody
INVARIANTS
    EditReportIsTrue
    RecordsAreTrue
    ShutdownSettles
PROPERTIES
    ServiceReturns
CHECK_DEADLOCK FALSE
