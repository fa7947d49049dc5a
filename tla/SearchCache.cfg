\* Four vectors, all distance functions with ties, a queue of three: the binary
\* search takes both branches and the full queue drops candidates.  MarkRange 4
\* makes the counter of the visited set wrap every three clears.
CONSTANTS
    Id = {0, 1, 2, 3}
    Elem = {0, 1, 2, 3}
    Distance = {0, 1}
    Capacity = 3
    MarkRange = 4
SPECIFICATION SpecCache
INVARIANTS CheckIsExact NothingHidden HoldsClosestOffered
PROPERTY ImplementsPool
