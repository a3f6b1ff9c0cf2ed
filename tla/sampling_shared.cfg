SPECIFICATION FairSpec
CONSTANTS
  N = 3
  PU = {0, 1}
  Node = {0, 1}
  NodeOf <- TwoNodes
  Affinity <- Shared
  Unlocatable = {}
  SeqCallers = {}
  Regions = {"par"}
  Kernels <- OneKernel
  MaxClock = 1
INVARIANTS
  TypeOK
  CounterExact
  NoWipe
  AllCounted
  TimeNeverNegative
CHECK_DEADLOCK FALSE
PROPERTY Returns
