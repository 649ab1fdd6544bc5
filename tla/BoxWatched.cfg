\* With a watchdog: save() walks the regions while the box already falls.
\* A forgotten box comes to rest: no deadlock check.
CONSTANTS
    NumChunks = 3
    Readers = {r1, r2}
    Watched = TRUE
    MaxFetchFailures = 1
    MaxGen = 2
SPECIFICATION Spec
SYMMETRY ReaderSymmetry
CHECK_DEADLOCK FALSE
INVARIANTS
    ReadableWhileFalling
    OldKeysReleased
