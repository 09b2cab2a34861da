SPECIFICATION Spec
CONSTANTS
  Unknown = Unknown
  NotListed = NotListed
  g1 = g1
  g2 = g2
  Skills = {1, 2}
  Sources = {g1, g2}
  Listings <- MCListings
  Evidence <- MCEvidence
  Views <- MCViews
  PageSize = 1
  MaxWrites = 4
INVARIANTS TypeOK WalkIsComplete ShownInOrder
