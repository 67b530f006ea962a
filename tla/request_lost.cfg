CONSTANTS
  m1 = m1
  m2 = m2
  m3 = m3
  None = None
  Models <- TwoModels
  Rank <- NameOrder
  Requests = {r1, r2}
  Unloaders = {u1}
  MaxSwaps = 2
  Faults <- PoolVramFault
SPECIFICATION Spec
SYMMETRY RequestSymmetry
INVARIANTS
  NobodyForgotten
CHECK_DEADLOCK FALSE
