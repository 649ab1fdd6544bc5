\* Four calls, two at a time, on text and PDF files; a collapse_all() is met in every state
\* by the calls that are under way.  Calls and threads may come to rest.
CONSTANTS
    Calls = {c1, c2, c3, c4}
    MaxRunning = 2
    MaxSaves = 2
    MaxLate = 1
    MaxDropped = 0
    FileKinds = {"pdf", "text"}
    Parses = FALSE
    RawSize = 2
    NoCall = none
SPECIFICATION Spec
SYMMETRY CallSymmetry
CHECK_DEADLOCK FALSE
INVARIANTS
    BoxInOrder
    NothingRemains
    HeldIsComplete
