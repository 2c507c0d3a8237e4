SPECIFICATION Spec
CONSTANTS
    s1 = s1
    s2 = s2
    l1 = l1
    Savers <- MCSavers
    Loaders <- MCLoaders
    MaxTime = 6
    MaxCrashes = 1
SYMMETRY SaversAlike
INVARIANTS
    StampHasChunk
    LoadsGiveLastSave
    StampAccounts
CHECK_DEADLOCK FALSE
