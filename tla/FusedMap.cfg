CONSTANTS
    r1 = r1
    r2 = r2
    c = c
    v1 = v1
    v2 = v2
    d = d
    Sources = {r1, r2}
    Cells = {c}
    Voxels = {v1, v2}
    Covers <- MCCovers
    Reports <- MCReports
    Modes = {"evidence"}
    MaxClock = 3
    MaxEpoch = 1
    MaxRefresh = 0
    Obstacles = {d}
    StaticOf <- MCStaticOf
    DynamicOf <- MCDynamicOf
    Tolerance = 1

SPECIFICATION FusedSpec

INVARIANTS
    QueriesAgree
    OccupiedUntilContradicted
    WithdrawalLeavesOthers
    FusedHasWitness

CHECK_DEADLOCK FALSE
