SPECIFICATION Spec
CONSTANTS
    w1 = w1  w2 = w2
    Writes = {w1}
    Controls = {w1}
    Steps <- OneStep
    Capacity = 1
    MaxReconfirms = 0
    Nobody = Nobody
INVARIANT ReportIsTrue
CHECK_DEADLOCK FALSE
