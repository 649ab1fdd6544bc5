\* Two workers, one of which a stuck box can block for ever; that box may also
\* fail, and the other one is paced.
CONSTANTS
    b1 = b1  b2 = b2
    Boxes = {b1, b2}
    Workers = {w1, w2}
    Paced = {b2}
    Stuck = {b1}
    Fallible = {b1}
    NoBox = NoBox
SPECIFICATION FairFallSpec
INVARIANTS
    OneEntryPerBox
PROPERTIES
    BoxesFallOrLeave
