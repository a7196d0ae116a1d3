CONSTANTS
  Instants = {0, 2, 3, 5}
  StartsAt = 1
  EndsAt = 4
  Horizon = 2
  Policy = "FIRE_LATEST_ONLY"
  Lookahead = 1
  Offset <- MCOffset
  TickLookahead = 1
  TickInterval = 1
  TickBatch = 1
  CatchUpWindow = 2
  MaxCatchUp = 1
  Generators = {g1, g2}
  Advancers = {}
  MaxAdvanceAttempts = 1
  MaxTime = 4
  Upsets = {"pause", "resume", "cancel", "fault"}
  MaxUpsets = 1
SPECIFICATION SchedulerFairSpec
INVARIANTS
  SchedulerTypeOK
  NoGap
PROPERTIES
  OccurrencesAreMaterialised
CHECK_DEADLOCK FALSE
