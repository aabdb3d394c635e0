SPECIFICATION Spec
CONSTANTS
    Objects = {n1, n2, n3}
    Existing = {}
    Attributes = {"property"}
    Values <- Bits
    Oversized = {}
    MaxValue = 1
    UiSlots = {}
    UiDirections = {}
    MaxCorrections = 4
    MaxGroupEdits = 2
    MaxSequence = 4
    MaxRevision = 7
    MaxGeneration = 1
    None = None
    Refresh = Refresh
SYMMETRY Symmetry
INVARIANTS
    HistoryWalks
    TargetsExist
    GroupsStayWhole
CHECK_DEADLOCK FALSE
