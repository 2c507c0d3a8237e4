CONSTANTS
    v1 = v1
    v2 = v2
    Obstacles = {1, 2, 3}
    Voxels = {v1, v2}
    StaticOf <- MCStaticOf
    Connectivity = 1
    SpatialTolerance = 1
    StabilityHits = 2
    MaxAge = 1
    Logs <- MCLogs
    InitialFiles <- MCInitialFiles
    MaxTracks = 2
    MaxSaves = 2

SPECIFICATION Spec

INVARIANTS
    ObservedIsShown
    PromotionIsReversible
    BackgroundIsKept
    FilesInOrder

CHECK_DEADLOCK FALSE
