CONSTANTS
  a = a
  b = b
  c = c
  d1 = d1
  d2 = d2
  None = None
  Unknown = Unknown
  Models <- ThreeModels
  Local <- NoSnapshot
  Revisions = {1, 2}
  Hash <- HashOrder
  Shards = {1, 2, 3}
  Files <- ShardFiles
  PoolSlots = 2
  Drivers <- TwoDrivers
  FirstDriver = d1
  MaxLoads = 2
  MaxCrashes = 0
  Faults <- NoFault
SPECIFICATION Spec
INVARIANTS
  SharedPoolIsPopulated
CHECK_DEADLOCK FALSE
