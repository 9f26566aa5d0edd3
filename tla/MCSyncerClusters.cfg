\* Two VirtualClusters of one name in turn, two failing calls.
CONSTANTS
  Uid = {u1, u2}
  None = None
  MaxInst = 5
  MaxChanges = 5
  MaxFailures = 2
SPECIFICATION LiveSpec
INVARIANTS TypeOK RegistryMatches ClientReadsStarted
PROPERTY Settles
CHECK_DEADLOCK FALSE
