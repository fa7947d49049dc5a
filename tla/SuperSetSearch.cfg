\* Three vectors with any label sets over {0, 1, 3}: repeated sets, nested sets,
\* the empty set, label 0 (the root's own label) and a gap in the label ids.
\* Queries also carry 2 (a gap of the index) and 4 (beyond the index).
CONSTANTS
    Label = {0, 1, 3}
    QueryLabel = {0, 1, 2, 3, 4}
    NumPoints = 3
SPECIFICATION Spec
INVARIANTS GroupsAgree ReorderKeepsLabels ExactMinimal SkipStillCovers
\* A search ends.
CHECK_DEADLOCK FALSE
