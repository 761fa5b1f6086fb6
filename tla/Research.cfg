CONSTANTS
  Schedules <- MCSchedules
  DevelopmentMax = 2
  HomeField = 9
  Candidates = {"balanced", "stable"}
  MinTraining = 2
  MinMapping = 3
  MinBlocks = 2
  MinFitRows = 2
  MinValidationRows = 2
  MinEligibleRows = 2
  MinSample = 1
  ShortGames = 2
  PlayFrames <- MCPlayFrames
  HomeTeam = "A"
  AwayTeam = "B"
  MaxInterval = 4
  LateInGame = 28
  MinimumGames = 1
  CarryoverGames = 2
  FirstEvaluated = 2
  MinPrior = 2
  Quotes <- MCQuotes
SPECIFICATION Spec
INVARIANTS
  LooksBack
  LedgerReplays
  TotalsTrainingIsOver
  UniversesAgree
  ObservationsBalance
  EnteringContinues
CHECK_DEADLOCK FALSE
