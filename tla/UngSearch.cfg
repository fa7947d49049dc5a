\* One or three groups of up to four vectors, every order of their distances;
\* the queue of three overflows, and holds all qualified vectors of most
\* queries; the single group is larger than the number of entry points.
CONSTANTS
    GroupCounts = {1, 3}
    Label = {"a", "b"}
    MaxPoints = 4
    EntryCounts = {1, 2}
    Lsearch = 3
SPECIFICATION Spec
INVARIANTS FilterSound LocalOptimum Exhaustive
PROPERTY Ends
\* A search ends.
CHECK_DEADLOCK FALSE
