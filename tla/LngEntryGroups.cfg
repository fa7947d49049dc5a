\* Every assignment of distinct label sets over three labels to four groups:
\* diamonds, chains, antichains, with and without the empty label set; then
\* every query, with a label no group carries or all carry, by every function.
CONSTANTS
    Group = {1, 2, 3, 4}
    Label = {"a", "b", "c"}
SPECIFICATION SpecAll
INVARIANTS DescendantsExact CoverageExact ExactEntryGroups MarksAreShared
\* The construction and the query end.
CHECK_DEADLOCK FALSE
