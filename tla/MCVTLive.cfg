SPECIFICATION EndlessSpec
CONSTANTS
  Indicators = {i1, i2}
  Runners = {r1}
  Enqueuers = {e1, e2}
  Priorities = {80, 100}
  Budget = 1
  Limit = 1
  MayFail = {"lookup", "record", "complete"}
  MayDie = {r1}
  MaxItems = 2
  MaxDeaths = 1
  NoIndicator = NoIndicator
PROPERTIES PriorityNeverDrops QueuedIsTaken LookupFinishes
