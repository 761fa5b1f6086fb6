SPECIFICATION ReadersSpec
CONSTANTS
  balanced = balanced
  Lane = {balanced}
  Rank <- MCRank
  Row <- MCRow
  NoRow = NoRow
  Boundary = 2
  NoOfficial = NoOfficial
  MaxTime = 4
  MaxPublications = 2
  v1 = v1
  v2 = v2
  v3 = v3
  v4 = v4
  Valid = {v1, v2, v3, v4}
  NoProduct = NoProduct
  MaxRestarts = 1
INVARIANTS
  CommitsAreWhole
  StaleIsFlagged
PROPERTIES
  EvidenceIsPushed
  ServesForward
  LatestIsServed
CHECK_DEADLOCK FALSE
