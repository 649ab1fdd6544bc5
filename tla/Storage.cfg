\* A save() of two pieces for whose second slot the table has no room, and whose
\* constructors may raise once.  The storage rests once the file is forgotten.
CONSTANTS
    Files = {f1}
    NumPieces = 2
    MaxRegions = 7
    MaxRaises = 1
    MaxGen = 3
SPECIFICATION Spec
CHECK_DEADLOCK FALSE
INVARIANTS
    TableInOrder
    BoxesOfFiles
