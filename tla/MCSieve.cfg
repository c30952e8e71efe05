CONSTANTS
  Length = 3
  Rulebooks <- UpToThreeRules
  MayBeFlushed = TRUE
SPECIFICATION SieveSpec
INVARIANTS PushedAsDocumented PushAndStoreAgree OnlyHistoryIsStoredInParts
CHECK_DEADLOCK FALSE \* the life of the write is over
