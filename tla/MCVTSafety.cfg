SPECIFICATION Spec
CONSTANTS
  Indicators = {i1, i2}
  Runners = {r1}
  Enqueuers = {e1}
  Priorities = {80, 100}
  Budget = 1
  Limit = 3
  MayFail = {"lookup", "record"}
  MayDie = {r1}
  MaxItems = 3
  MaxDeaths = 1
  NoIndicator = NoIndicator
SYMMETRY Symmetry
INVARIANTS TypeOK RecordedWithinBudget OneActiveRow CompletedIsEnriched NoneStranded
PROPERTIES ImplementsQueue
