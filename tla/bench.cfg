SPECIFICATION FairSpec
CONSTANTS
  N = 4
  Calls <- FpeakThenMemory
  Sizes <- FourSizes
  LowSize = 2
  Group = {0, 1}
  Location <- TwoGroups
  Elsewhere = Elsewhere
  Samples = 2
  Measures = 2
  LongEnough = 4
INVARIANTS
  TypeOK
  SameMeasure
  TimedTogether
  PrintAlone
  AllPrinted
PROPERTIES
  Ends
  ImplementsService
