CONSTANTS
  t1 = t1
  t2 = t2
  t3 = t3
  Tactics = {t1, t2, t3}
  EndpointOf <- MCEndpointOf
  Attempts = {a1, a2}
  MaxEntries = 1
  OneWeek = 2
  MaxTime = 2
  MaxStarts = 3
  MaxRestarts = 1
  Reported = {"success", "tcp_error"}
  Nil = Nil
  Unreadable = Unreadable
SPECIFICATION FairSpec
CHECK_DEADLOCK FALSE
INVARIANTS
  CountersBalance
PROPERTIES
  DropsOnlyOldOrExcess
  ReloadIsFaithful
  CloseReturns
