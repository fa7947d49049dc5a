\* One query over every input, and a batch of three queries on two threads.
CONSTANTS
    Query = {0, 1, 2}
    w1 = w1
    w2 = w2
    Worker = {w1, w2}
    None = None
    K = 2
    Distance = {1, 2}
    Instances <- MCInstances
SPECIFICATION Spec
INVARIANTS AnswersQualify PrefilterExact CachesNotShared ReturnsLast
PROPERTY Ends
CHECK_DEADLOCK FALSE
