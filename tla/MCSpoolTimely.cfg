SPECIFICATION Spec
CONSTANTS
  Repos = {1}
  Tokens = {t1, t2, t3}
  Producers = {p1, p2}
  Ingesters = {i1, i2}
  LimitRepos = 1
  LimitArtifacts = 1
  MayCrash = {p1, p2, i1, i2}
  Slow = {}
  MaxCrashes = 1
  NoName = NoName
SYMMETRY Symmetry
INVARIANTS ExclusiveIngest
