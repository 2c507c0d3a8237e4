CONSTANTS
    c1 = c1
    c2 = c2
    empty = empty
    g1 = g1
    lw1 = lw1
    lw2 = lw2
    sw1 = sw1
    Coords <- MCCoords
    Grids <- MCGrids
    EmptyGrid <- empty
    Priorities <- MCPriorities
    LoadWorkers <- MCLoadWorkers
    SaveWorkers <- MCSaveWorkers
    EnableIO = TRUE
    Faulty <- MCFaulty
    MaxSaveQueue = 2
    MaxCalls = 3

SPECIFICATION MCSpec

INVARIANTS
    InflightExact
    OneLoadPerCoord
    PromiseSetOnce
    LastSaveWins

PROPERTIES
    WaitSound
    ServiceSpec
