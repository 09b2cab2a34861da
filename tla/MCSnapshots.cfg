SPECIFICATION Spec
CONSTANTS
  i1 = i1
  i2 = i2
  Skills = {s1}
  Indicators = {i1, i2}
  Reports <- MCReports
  Bulk = {b1, b2}
  Stepwise = {w1, w2}
  MaxScans = 3
SYMMETRY Symmetry
INVARIANTS TypeOK LatestIsNewest FirstFindIsFlagged NewIsExact MarkedIsWhole
CHECK_DEADLOCK FALSE
