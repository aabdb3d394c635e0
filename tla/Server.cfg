SPECIFICATION ServerSpec
CONSTANTS
    c1 = c1  c2 = c2
    Conns <- MCConns
    Keys = {"k1"}
    NoKey = NoKey
    MaxConnections = 2
    MaxOrdinary = 2
    MaxStreams = 1
    MaxRequests = 3
    MrSettings = {off, on, onOther}
    MrOn = {on, onOther}
    MrDefault = off
    Missing = Missing
    Corrupt = Corrupt
    MrMaxToken = 2
    MrMaxCrashes = 1
INVARIANTS
    RequestsAccounted
    RuntimeKeepsItsWord
PROPERTIES
    ServerComesToRest
CHECK_DEADLOCK FALSE
