\* One tenant, whose requests two workers handle, with the double Done of pooling.
CONSTANTS
  a1 = a1  b1 = b1  A = A  B = B  w1 = w1  w2 = w2
  NoItem = NoItem
  Item = {a1}
  Group = {A}
  Worker = {w1, w2}
  GroupName <- OneItem
  SlowWork = FALSE
  MaxLength = 2
  MaxReconcileRetryAttempts = 1
  SuperClusterPooling = TRUE
SPECIFICATION MCLiveSpec
INVARIANTS CtrlTypeOK RetryKept
PROPERTIES RetryLimit RetryHappens RemovedClusterDrains
CHECK_DEADLOCK FALSE
