SPECIFICATION Spec
CONSTANTS
    Objects = {a, b}
    Existing = {a, b}
    Attributes = {"property"}
    Values <- SmallValues
    Oversized = {0}
    MaxValue = 1
    UiSlots <- AllUiSlots
    UiDirections = {}
    MaxCorrections = 1
    MaxGroupEdits = 2
    MaxSequence = 3
    MaxRevision = 4
    MaxGeneration = 1
    None = None
    Refresh = Refresh
SYMMETRY Symmetry
INVARIANTS
    CaptureIsCurrent
    HistoryWalks
CHECK_DEADLOCK FALSE
