CONSTANTS
  MaxRuns = 2
  MaxPublished = 2
  MaxFaults = 2
  Nettests <- MCNettests
SPECIFICATION Spec
CHECK_DEADLOCK FALSE
INVARIANTS
  RunsOnlyAccepted
  ReportsAreHomogeneous
  AcknowledgedIsStored
  SavesAllItMeasured
