SPECIFICATION Spec
CONSTANTS
  N = 2
  PU = {0, 1}
  Node = {0, 1}
  NodeOf <- TwoNodes
  Affinity <- Free
  Unlocatable = {}
  SeqCallers = {}
  Regions = {"par"}
  Kernels <- OneKernel
  MaxClock = 0
INVARIANT
  TotalsAnnounced
CHECK_DEADLOCK FALSE
