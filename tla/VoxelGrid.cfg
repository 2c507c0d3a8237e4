SPECIFICATION Spec
CONSTANTS
    WordBits = 4
    InnerSide = 2
    LeafSide = 2
    Coords <- MCCoords
    Values = {0, 1}
INVARIANTS
    GridIsMap
    AccessorsSeeGrid
