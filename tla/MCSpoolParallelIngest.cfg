SPECIFICATION Spec
CONSTANTS
  Repos = {1}
  Tokens = {t1, t2}
  Producers = {p1}
  Ingesters = {i1, i2}
  LimitRepos = 1
  LimitArtifacts = 2
  MayCrash = {}
  Slow = {1}
  MaxCrashes = 0
  NoName = NoName

INVARIANTS ExclusiveIngest

