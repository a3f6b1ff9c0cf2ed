SPECIFICATION Spec
CONSTANTS
  N = 2
  PU = {0, 1, 2}
  Node = {0, 1}
  NodeOf <- TwoAndOne
  Affinity <- OwnPUs
  Unlocatable = {}
  SeqCallers = {0}
  Regions = {"par", "forced"}
  Kernels <- EvenAndOdd
  MaxClock = 1
INVARIANT
  ForcedTotal
PROPERTY
  ImplementsService
CHECK_DEADLOCK FALSE
