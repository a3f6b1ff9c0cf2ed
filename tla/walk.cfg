SPECIFICATION FairSpec
CONSTANTS
  GB = 16
  FourChunks = 1
  Unreturned = {"cousin"}
  Machines <- FiveMachines
  Arguments <- SomeArguments
  MaxOptions = 2
  Supported <- AllTypes
INVARIANTS
  TypeOK
  Once
  EveryMemory
  Climbs
  MatrixWhole
  BoundsOrdered
  OiNear
  ResultsPrinted
  OneLeafEach
PROPERTY
  Ends
