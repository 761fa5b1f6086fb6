SPECIFICATION Spec
CONSTANTS
  Schedule <- MCSchedule
  Football <- MCFootball
  Fit <- MCFit
  PlaceOf <- MCPlaceOf
  Feeds <- MCFeeds
  Moves <- MCMoves
  Trusts <- MCTrusts
  Times = {19, 22, 23}
  Pause = 21
  LastTime = 61
  Lane <- MCCardLanes
  Rank <- MCLaneRank
  Row <- MCCardRows
  NoRow <- MCNoRow
  StaleAfter = 2
  Season <- MCWeeks
  Span = 4
  LateWeeks = {1}
  PriorBlocks <- MCPriorBlocks
  MinTraining = 2
  AuditCharts <- MCAuditCharts
  FirstCharts <- MCFirstCharts
  Failures = {"TRANSPORT_FAILURE"}
  OverrideFiles <- MCOverrideFiles
  RoofFiles <- MCRoofFiles
  LastTick = 7
  MaxEdits = 2
  HistorySpan = 2
  MaxHistory = 3
INVARIANTS
  HeadlinesRestOnTheBoard
  EvaluatorsAgree
  BoundariesPay
  SameInputsSamePrediction
  ScoredIsWarranted
  EpisodesAreRuns
  PortfolioAgreesWithCards
PROPERTIES
  KickoffFreezes
CHECK_DEADLOCK FALSE
