\* Data of two pieces, and of more than there are ports, three boxes in the many-box class,
\* two callers of snapshot().
\* A collapsed box comes to rest.
CONSTANTS
    NumChunks = 2
    NumBoxes = 3
    NumKeys = 3
    Readers = {r1, r2}
SPECIFICATION FairSpec
CHECK_DEADLOCK FALSE
INVARIANTS
    SnapshotIsWhole
    AtRest
    
PROPERTIES
    NobodyWaits
