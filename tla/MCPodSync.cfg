\* A pod name that passes from one tenant pod to another, two nodes, three events.
CONSTANTS
  Uid = {u1, u2}
  Node = {n1, n2}
  Home = n1
  None = None
  Pinned = Pinned
  MaxEvents = 3
SPECIFICATION LiveSpec
PROPERTIES NeverDeletesLivePod Converges
CHECK_DEADLOCK TRUE
