SPECIFICATION Spec
CONSTANTS
  N = 2
  PU = {0, 1}
  Node = {0, 1}
  NodeOf <- TwoNodes
  Affinity <- Pinned
  Unlocatable = {}
  SeqCallers = {0, 1}
  Regions = {}
  Kernels <- OneKernel
  MaxClock = 0
INVARIANT
  NoneLost
CHECK_DEADLOCK FALSE
