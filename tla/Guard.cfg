\* Two workers, two readers, an updater and a collapse on two cells.
CONSTANTS
    NumCells = 2
    k1 = k1
    Keys = {k1, k2}
    FirstKey = k1
    Blank = blank
    Workers = {w1, w2}
    Readers = {r1, r2}
    NoCell = none
SPECIFICATION FairSpec
INVARIANTS
    ReconstructsWholeKey
    NoBounceOnClosedPages
PROPERTIES
    CollapsedGuardLeaves
