SPECIFICATION Spec
CONSTANTS
  Subjects = {"holdout"}
  Runs = {"r1", "r2", "r3"}
  Patient = {"r1", "r2"}
  MaxTroubles = 0
  Payloads <- MCPayloads
  Kinds <- MCKinds
  Kickoff = 2
  LastTime = 3
  HoldoutRuns = {"h1"}
  Fixtures <- MCFixtures
  Span = 30
  Lead = 60
  Cost = 30
  Cap = 60
  Answers <- MCAnswers
  Workers = {"w1", "w2", "w3"}
  MaxDeaths = 2
  Censuses <- MCCensuses
  Outcomes <- MCOutcomes
  Confirmation = {2023, 2024}
  MaxClock = 3
  Moods = {"apart", "together"}
  MaxSubmissions = 2
  MaxNewsKills = 1
  LastWeek = 3
  MaxRuns = 4
  NoJob = NoJob
  NoManifest = NoManifest
  NoProduct = NoProduct
  Games <- MCHoldoutGames
  Slates <- MCSlates
  Invocations <- OneShotAlone
  Flaws = {"none"}
  MaxCrashes = 0
INVARIANTS
  ReadyForExecution
CHECK_DEADLOCK FALSE
