CONSTANTS
  m1 = m1
  m2 = m2
  m3 = m3
  None = None
  Models <- ThreeModels
  Rank <- NameOrder
  Requests = {r1, r2, r3}
  Unloaders = {u1}
  MaxSwaps = 4
  Faults <- NoFault
SPECIFICATION Spec
SYMMETRY RequestSymmetry
INVARIANTS
  OneModelResident
PROPERTIES
  GoFileAfterVramIdle
  OldestWaiterWins
CHECK_DEADLOCK FALSE
