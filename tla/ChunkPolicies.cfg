CONSTANTS
    Refs <- MCRefs
    Late <- MCLate
    Radius = 1
    Bands <- MCBands
    MaxAge = 2
    Uptimes <- MCUptimes
    MaxClock = 4

SPECIFICATION PolicySpec

INVARIANTS
    WantedIsServed
    UnwantedIsLate

PROPERTIES
    YoungIsKept
