\* Two tenants, with the feature gate on.
CONSTANTS
  a1 = a1  b1 = b1  A = A  B = B  w1 = w1  w2 = w2
  NoItem = NoItem
  Item = {a1, b1}
  Group = {A, B}
  Worker = {w1, w2}
  GroupName <- TwoGroups
  SlowWork = FALSE
  MaxLength = 3
  MaxReconcileRetryAttempts = 1
  SuperClusterPooling = TRUE
SPECIFICATION MCSpec
INVARIANT NeverConcurrent
CHECK_DEADLOCK FALSE
