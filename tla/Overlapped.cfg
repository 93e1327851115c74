CONSTANTS
  NumEndpoints = 3
  ScheduleInterval = 2
  WatchdogTimeout = 5
  MaxTime = 6
  NoTime = NoTime
SPECIFICATION UntimedSpec
INVARIANTS
  AllCollected
  FirstSuccessWins
  OverlapIsPaced
PROPERTIES
  NoCallAfterSuccess
  ReturnsInTime
