CONSTANTS
  Character = {1, 2}
  Value <- Strings
  Metadata = {0, 7}
  Sizes = {1, 2, 3}
  HashLimit = 8
  CountLimit = 4
  MaxCount = 2
  MaxLength = 2
SPECIFICATION SetSpec
INVARIANTS BuffersAreFound
PROPERTIES ImplementsMultiset
