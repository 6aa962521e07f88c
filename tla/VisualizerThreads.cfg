SPECIFICATION FairSpec
CONSTANTS
  Pauses = TRUE
  SamplePeriod = 2
  Periods = {1, 2}
  Stops = {3}
  TimerIds <- ThreeTimers
  MaxTime = 4
INVARIANTS TypeOK NeverAhead PlayingTicks
PROPERTIES GoHonoured JoinReturns
CHECK_DEADLOCK FALSE
