\* Three groups of at most three vectors over two labels (chains, forks, joins
\* and unrelated groups); a vector has fewer cross edges than it has children's vectors.
CONSTANTS
    GroupCounts = {3}
    Label = {"a", "b"}
    MaxPoints = 6
    NumCrossEdges = 2
    Lbuild = 2
SPECIFICATION SpecBuild
INVARIANTS EdgesFollowLng LngEdgesConnected
\* The construction ends.
CHECK_DEADLOCK FALSE
