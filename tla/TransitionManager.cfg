CONSTANTS
    x = x
    y = y
    Axes <- MCAxes
    Half = 2
    HystRatio = 25
    Reach = 5
    Resolution = 2

SPECIFICATION Spec

INVARIANTS
    RefTracksRobot
    DeepIsSettled
    ThrowsOnUpperBoundary
    EvidenceIsFound

PROPERTIES
    NoThrashing
