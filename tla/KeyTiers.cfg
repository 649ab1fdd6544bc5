\* One direct release and two tokens.  A time out of the clock's range ends a run.
CONSTANTS
    Untrusted = {u1}
    Hostile = {h1, h2}
    NumChunks = 2
    TTL = 1
    MaxTime = 4
SPECIFICATION ReleaseSpec
SYMMETRY CallSymmetry
CHECK_DEADLOCK FALSE
INVARIANTS
    KeyAfterDeparture
    DecryptedIsWhole
    SingleUse
    RedeemableUntilDeadline
