CONSTANTS
    Hosts = {h1, h2}
    Viewers = {v1}
    SendCap = 1
    MaxEvents = 2
    MaxRestarts = 1
    MaxUpdates = 1
SPECIFICATION Spec
SYMMETRY MCSymmetry
INVARIANTS ViewersConverge RowKeepsUp NothingUnsavedShown
PROPERTIES OnlySnapshotsOvertake
