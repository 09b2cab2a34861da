SPECIFICATION FairSpec
CONSTANTS
  Skills = {s1, s2}
  Registries = {g1}
  Indicators = {i1}
  Registrars = {o1}
  Asns = {a1}
  PageSize = 1
  Workers = {w1}
  MaxChanges = 1
  MaxMishaps = 1
INVARIANTS TypeOK GraphIsCurrent
PROPERTIES ServiceReturns
