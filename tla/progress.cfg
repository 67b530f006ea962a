CONSTANTS
  m1 = m1
  m2 = m2
  m3 = m3
  None = None
  Models <- TwoModels
  Rank <- NameOrder
  Requests = {r1, r2}
  Unloaders = {u1}
  MaxSwaps = 3
  Faults <- LoadFault
SPECIFICATION FairSpec
PROPERTIES
  KeepsContract
  Answered
  SwapEnds
CHECK_DEADLOCK FALSE
