CONSTANTS
  Stamp = {1, 2}
  Power = {1, 2, 4}
  None = None
  MaxLength = 3
  MaxStores = 3
  MaxSwitches = 2
  MaxCrashes = 1
SPECIFICATION FairSpec
INVARIANTS NothingIsSkipped StoredIsComplete NoByteTwice
PROPERTIES ClosedVersionsStay StoreEnds
CHECK_DEADLOCK FALSE \* the bounds on calls and bytes are reached
