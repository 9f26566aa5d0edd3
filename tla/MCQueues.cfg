\* Three keys with weights whose common divisor changes as they come and go; two items
\* asked for repeatedly, and a channel that fills up.
CONSTANTS
  Key = {a, b, c}
  Weight = {1, 2, 4}
  NoKey = none
  Item = {x, y}
  ChanCap = 2
  MaxDelay = 2
  MaxTime = 3
SPECIFICATION MCSpec
INVARIANTS BalancerTypeOK Proportional TypeOK NothingDropped NeverOversleeps
PROPERTIES DowngradesToRoundRobin NeverEarly CallersUnblock EventuallyAdded
\* The clock stops at its bound.
CHECK_DEADLOCK FALSE
