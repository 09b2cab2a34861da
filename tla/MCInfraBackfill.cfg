SPECIFICATION FairSpec
CONSTANTS
  d1 = d1
  p1 = p1
  p2 = p2
  Domains = {d1}
  Ips = {p1, p2}
  Answers <- MCAnswers
  LowSignal = {}
  Standing <- MCStanding
  Runners = {r1}
  Limit = 2
  Window = 2
  MayFail = FALSE
  MaxSightings = 0
  MaxDeaths = 0
PROPERTIES AddressesAreBackfilled
