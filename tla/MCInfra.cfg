SPECIFICATION FairSpec
CONSTANTS
  d1 = d1
  p1 = p1
  p2 = p2
  Domains = {d1}
  Ips = {p1, p2}
  Answers <- MCAnswers
  LowSignal = {p2}
  Standing <- MCStanding
  Runners = {r1}
  Limit = 2
  Window = 2
  MayFail = TRUE
  MaxSightings = 1
  MaxDeaths = 1
INVARIANTS TypeOK OncePerRunner DnsIsBacked
PROPERTIES NotStarved WhoisIsTried
