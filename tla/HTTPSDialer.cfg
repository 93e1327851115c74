CONSTANTS
  Workers = {w1, w2}
  MaxTactics = 2
  MaxIdle = 1
  NoTime = NoTime
SPECIFICATION UntimedSpec
INVARIANTS
  NoGoroutineLeak
  ResultAgrees
  InterruptIsNotFailure
  AttemptsAreSpaced
PROPERTIES
  KeepsPromise
  ReturnsInTime
