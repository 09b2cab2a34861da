SPECIFICATION Spec
CONSTANTS
  Repos = {1, 2}
  Tokens = {t1, t2}
  Producers = {p1, p2}
  Ingesters = {i1}
  LimitRepos = 2
  LimitArtifacts = 2
  MayCrash = {}
  Slow = {1}
  MaxCrashes = 0
  NoName = NoName
SYMMETRY Symmetry
INVARIANTS TypeOK ClaimCoversWork ExclusiveWork NoOrphanClaim
PROPERTIES RecordedOnce ImplementsLease
