SPECIFICATION FairSpec
CONSTANTS
  SimdBytes = 32
  SimdFlops = 4
  SimdRegs = 16
  Requests <- Asked
  Alignement = 64
  ChunkSize = 960
  NSizes = 3
  Repeat = 2
  Draws <- SomeDraws
  Programs <- AllPrograms
INVARIANTS
  TypeOK
  IntensityReached
  TwoLoadsAStore
  InBuffer
  LinksPermuted
  WorkReported
  Measured
PROPERTY
  Ends
