SPECIFICATION Spec
CONSTANTS
  early = early
  late = late
  timer = timer
  manual = manual
  Process <- MCProcess
  Game = {early, late}
  WeekOf <- MCWeekOf
  Kickoff <- MCKickoff
  Span = 2
  NoProcess = NoProcess
  NoTime = NoTime
  MinTime = 2
  MaxTime = 5
  MaxRuns = 2
INVARIANTS
  NextCycleIsAnOpportunity
SYMMETRY MCSymmetry
CHECK_DEADLOCK FALSE
