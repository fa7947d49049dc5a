\* Three threads insert four vectors on two levels; then one query.
CONSTANTS
  Builder = {t1, t2, t3}
  Nobody = Nobody
  NumElements = 4
  Placements <- MCPlacements
  MaxLevel = 1
  M = 1
  EfConstruction = 2
  QueryPlaces = {8}
  Ks = {1, 2}
  Efs = {2}
SPECIFICATION Spec
INVARIANTS
  NoInsertThrows
  EntryIsHighest
  NoLoneElement
  EarlyStopHasHalf
PROPERTY Ends
CHECK_DEADLOCK FALSE
