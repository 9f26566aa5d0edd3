CONSTANTS
  a1 = a1  a2 = a2  b1 = b1  A = A  B = B  w1 = w1  w2 = w2
  NoItem = NoItem
  Item = {a1, a2, b1}
  Group = {A, B}
  Worker = {w1, w2}
  GroupName <- TwoGroups
  SlowWork = TRUE
SPECIFICATION Spec
INVARIANT NothingLost
CHECK_DEADLOCK FALSE
