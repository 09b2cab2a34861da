SPECIFICATION FairSpec
CONSTANTS
  Repos = {1, 2}
  Tokens = {t1}
  Producers = {p1}
  Ingesters = {i1}
  LimitRepos = 2
  LimitArtifacts = 2
  MayCrash = {p1, i1}
  Slow = {1, 2}
  MaxCrashes = 1
  NoName = NoName
PROPERTIES DueIsHandledUnlessDeath ClaimIsReleased WholeArtifactsDrain
