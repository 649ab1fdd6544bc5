\* Three holders, two shares: the first two may die at any time, and the first may also
\* answer late or never; both together kill the main process, without a stop() as well as
\* with one.  The group rests once it is stopped or killed.
CONSTANTS
    N = 3
    K = 2
    KillThreshold = 2
    Secret = 83
    Random <- OneCoefficient
    Split <- split_secret
    Combine <- combine_shares
    Fetchers = {f1}
    Mortal = {1, 2}
    Slow = {1}
SPECIFICATION Spec
CHECK_DEADLOCK FALSE
INVARIANTS
    RightAnswers
    KilledForCause
PROPERTIES
    FetchEnds
    ReactsToDeath
