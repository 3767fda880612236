\* Every window of at most four tuples: long enough for the ring to wrap more than
\* once between two resets.
SPECIFICATION Spec
CONSTANTS
    NoTuple = NoTuple
    MaxWidth = 4
    MaxArrivals = 11
INVARIANTS
    EvictionSparesNextWindow
PROPERTY IsSlidingWindow
