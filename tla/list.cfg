SPECIFICATION FairSpec
CONSTANTS
  Elem = {1, 2}
  Null = Null
  Capacity = 2
  Gap = 1
  MaxLength = 6
INVARIANTS
  TypeOK
  InBounds
PROPERTIES
  ImplementsService
  SearchNarrows
  SearchEnds
