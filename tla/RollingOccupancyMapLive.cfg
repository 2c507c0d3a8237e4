CONSTANTS
    lw1 = lw1
    lw2 = lw2
    sw1 = sw1
    sw2 = sw2
    Coords <- MCCoords
    Obs <- MCObs
    WantedSets <- MCWantedSets
    MaxMoves = 2
    LoadWorkers <- MCLoadWorkers
    SaveWorkers <- MCSaveWorkers
    EnableIO = TRUE
    Faulty = {1, 2, 3}
    MaxSaveQueue = 3

SPECIFICATION FairSpec

PROPERTIES
    LoadsPromoted
    DestructorReturns
