CONSTANTS
  m1 = m1
  m2 = m2
  m3 = m3
  None = None
  Models <- TwoModels
  Rank <- NameOrder
  Requests = {r1, r2, r3}
  Unloaders = {u1}
  MaxSwaps = 4
  Faults <- LoadFault
SPECIFICATION Spec
SYMMETRY RequestSymmetry
INVARIANTS
  NoLostWakeup
  NoWaitInVain
  NobodyForgotten
  ServedByLiveEngine
  NeverTwoLoads
PROPERTIES
  DrainThenSwitch
  CrossesInOwnSwap
CHECK_DEADLOCK FALSE
