CONSTANTS
    x = x
    y = y
    Axes <- MCAxes
    Coords <- MCCoords
    Endpoints <- MCEndpoints
    Origins <- MCOrigins
    HitLog = 2
    MissLog <- MCMissLog
    ClampMin <- MCClampMin
    ClampMax = 2
    Threshold = 0
    UnknownLog = 1
    MaxBatches = 4

SPECIFICATION Spec

INVARIANTS
    IdTellsBatch
    EvidenceExact

PROPERTIES
    BatchResult
