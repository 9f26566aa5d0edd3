\* As MCSyncerClusters.
CONSTANTS
  Uid = {u1, u2}
  None = None
  MaxInst = 5
  MaxChanges = 5
  MaxFailures = 2
SPECIFICATION Spec
INVARIANT InformersStopTogether
CHECK_DEADLOCK FALSE
