CONSTANTS
    lw1 = lw1
    lw2 = lw2
    sw1 = sw1
    sw2 = sw2
    Coords <- MCCoords
    Obs <- MCObs
    WantedSets <- MCWantedSets
    MaxMoves = 3
    LoadWorkers <- MCLoadWorkers
    SaveWorkers <- MCSaveWorkers
    EnableIO = TRUE
    Faulty = {3}
    MaxSaveQueue = 3

SPECIFICATION Spec

INVARIANTS
    ActivePendingDisjoint
    OnlyRacesLose
    CleanChunksAreOnDisk
    StableIsQuiet

