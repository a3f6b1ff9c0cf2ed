SPECIFICATION FairSpec
CONSTANTS
  GB = 16
  FourChunks = 1
  Unreturned = {"cousin"}
  Machines <- OddMachines
  Arguments <- SomeArguments
  MaxOptions = 1
  Supported <- AllTypes
INVARIANT
  EveryMemory
