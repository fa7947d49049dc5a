\* One group of three vectors, two entry points.
CONSTANTS
    GroupCounts = {1}
    Label = {"a"}
    MaxPoints = 3
    EntryCounts = {2}
    Lsearch = 2
SPECIFICATION Spec
INVARIANT EntryPointsAreSamples
CHECK_DEADLOCK FALSE
