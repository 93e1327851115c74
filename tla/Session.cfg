CONSTANTS
  Callers = {c1, c2}
  Operations = {"tor", "vpn", "checkin"}
  Services <- MCServices
  Durations = {1, 2}
  MaxExpired = 2
  None = None
SPECIFICATION FairSpec
CHECK_DEADLOCK FALSE
INVARIANTS
  StateIsOneAccount
  LoggedInUnlessUndone
PROPERTIES
  SelectsTheBest
  EveryCallReturns
