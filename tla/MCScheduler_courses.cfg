CONSTANTS
  Instants = {0}
  StartsAt = 0
  EndsAt = 1
  Horizon = 1
  Policy = "FIRE_ALL"
  Lookahead = 1
  Offset <- MCOffset
  TickLookahead = 1
  TickInterval = 1
  TickBatch = 1
  CatchUpWindow = 3
  MaxCatchUp = 2
  Generators = {g1}
  Advancers = {a1, a2}
  MaxAdvanceAttempts = 2
  MaxTime = 1
  Upsets = {"cancel", "fault", "eviction"}
  MaxUpsets = 1
SPECIFICATION SchedulerFairSpec
INVARIANTS
  EventsMatchStatus
PROPERTIES
  WindowsRunTheirCourse
CHECK_DEADLOCK FALSE
