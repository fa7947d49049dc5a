\* Groups of one to four vectors, linked by one or two threads: lists that are
\* full when a reverse edge arrives, and lists over the degree for the cleanup.
CONSTANTS
    Vector = {v0, v1, v2, v3}
    Entry = v0
    Thread = {t1, t2}
    NoVector = NoVector
    MaxDegree = 1
    SlackDegree = 2
    Lbuild = 2
SPECIFICATION SpecLink
INVARIANTS DegreesBounded EdgesToLinked NoDeadEnds
PROPERTY LinkEnds
CHECK_DEADLOCK FALSE
