CONSTANTS
    r = r
    c1 = c1
    c2 = c2
    v1 = v1
    v2 = v2
    Sources = {r}
    Cells = {c1, c2}
    Voxels = {v1, v2}
    Covers <- MCCovers
    Reports <- MCReports
    Modes = {"evidence", "map"}
    MaxClock = 3
    MaxEpoch = 2
    MaxRefresh = 1

SPECIFICATION Spec

INVARIANTS
    NewestWins
    UpToDate
    NewestEpochShown

PROPERTIES
    DisplayedIsPreserved

CHECK_DEADLOCK FALSE
