SPECIFICATION Spec
CONSTANTS
    Objects = {a, n1, n2}
    Existing = {a}
    Attributes = {"parent"}
    Values <- Bits
    Oversized = {}
    MaxValue = 1
    UiSlots <- AllUiSlots
    UiDirections <- BothDirections
    MaxCorrections = 4
    MaxGroupEdits = 2
    MaxSequence = 2
    MaxRevision = 4
    MaxGeneration = 2
    None = None
    Refresh = Refresh
INVARIANTS
    ActsOnWhatWasShown
    OneGeneration
CHECK_DEADLOCK FALSE
