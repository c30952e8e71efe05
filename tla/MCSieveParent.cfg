CONSTANTS
  Length = 3
  Rulebooks <- UpToTwoRules
  MayBeFlushed = FALSE
SPECIFICATION SieveSpec
INVARIANTS ChildOfParentIsStoredAsProject
CHECK_DEADLOCK FALSE \* the life of the write is over
