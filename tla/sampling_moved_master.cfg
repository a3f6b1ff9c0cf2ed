SPECIFICATION Spec
CONSTANTS
  N = 2
  PU = {0, 1}
  Node = {0, 1}
  NodeOf <- TwoNodes
  Affinity <- MasterMoves
  Unlocatable = {}
  SeqCallers = {}
  Regions = {"forced"}
  Kernels <- OneKernel
  MaxClock = 0
INVARIANT
  CounterRestsAtZero
CHECK_DEADLOCK FALSE
