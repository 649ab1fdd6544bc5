\* Three holders, two shares, two callers of fetch(): somebody may attach to the first
\* holder, the second may crash, and both together kill the main process.  The group
\* rests once it is stopped or killed.
CONSTANTS
    N = 3
    K = 2
    KillThreshold = 2
    Fetchers = {f1, f2}
    Crashes = {2}
    Tampers = {1}
SPECIFICATION FairSpec
CHECK_DEADLOCK FALSE
INVARIANTS
    KilledForCause
    CleanFetch
PROPERTIES
    FetchEnds
    ReactsToTamper
