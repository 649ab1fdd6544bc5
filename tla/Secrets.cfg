\* Four calls on one key, two of them at a time.
CONSTANTS
    Calls = {c1, c2, c3, c4}
    Tokens = {t1, t2}
    Replicas = 2
    Parses = FALSE
    MaxRunning = 2
    NoCall = none
SPECIFICATION Spec
SYMMETRY CallSymmetry
CHECK_DEADLOCK FALSE
INVARIANTS
    EntryIsLive
    QuietOwnerRead
    StoredOnEveryReplica
