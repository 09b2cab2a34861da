SPECIFICATION Spec
CONSTANTS
  Skills = {s1}
  Sources = {0, 1}
  Counts <- MCCounts
  u = u
  Unknown = u
  DeepSources = {0, 1}
  Workers = {w1, w2}
  MayDie = {w1, w2}
  MaxClock = 3
  NoEntry = NoEntry
SYMMETRY Symmetry
INVARIANTS TypeOK TotalIsSum CurrentIsNewest CountIsOfItsRunInTurn AttributionIsOfItsRun
CHECK_DEADLOCK FALSE
