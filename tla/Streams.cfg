\* Nothing, and pieces of more bytes than the pipes together hold; a file may be up to two
\* bytes shorter or longer than measured; either process may die.  A box has pools of one
\* or of several chunks, and a chunk may be larger than a pool.  The calls end, but for a
\* hand-off that a death hangs.
CONSTANTS
    Sizes = {0, 1, 4, 7}
    Drift = 2
    Capacity = 3
    CHUNK = 2
    BLOCK = 3
    POOL = 4
    Lengths = {1, 2, 5}
    MaxHops = 2
    Mortal = {"writer", "reader"}
SPECIFICATION StreamsSpec
CHECK_DEADLOCK FALSE
INVARIANTS
    InTransit
    Delivered
    SlotsApart
PROPERTIES
    CallsEnd
