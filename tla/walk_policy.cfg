SPECIFICATION FairSpec
CONSTANTS
  GB = 16
  FourChunks = 1
  Unreturned = {"cousin"}
  Machines <- ClusterMachine
  Arguments <- Policies
  MaxOptions = 1
  Supported <- AllTypes
INVARIANT
  PolicyFollowed
