\* watch_for_tampering=False, and a trust group of which one fetch may raise: the box
\* against its promise.
\* A forgotten box comes to rest: no deadlock check.
CONSTANTS
    NumChunks = 2
    Readers = {r1, r2}
    Watched = FALSE
    MaxFetchFailures = 1
    MaxGen = 2
SPECIFICATION FairSpec
CHECK_DEADLOCK FALSE
INVARIANTS
    AlwaysReadable
    ForgetLeavesNothing
PROPERTIES
    KeepsPromise
    GoesOn
