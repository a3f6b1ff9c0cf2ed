SPECIFICATION Spec
CONSTANTS
  N = 2
  PU = {0, 1}
  Node = {0, 1}
  NodeOf <- TwoNodes
  Affinity <- Free
  Unlocatable = {1}
  SeqCallers = {0, 1}
  Regions = {}
  Kernels <- Even
  MaxClock = 1
INVARIANT
  AllCounted
CHECK_DEADLOCK FALSE
