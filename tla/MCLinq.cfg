\* A crash, a failure half way or a change of the clock, anywhere.
CONSTANTS
  Path = {a, b}
  Debounces = {0, 2}
  None = None
  MaxIndex = 3
  MaxTime = 3
  LastPush = 1
  MaxFaults = 2
  ClockMayBeSetBack = TRUE
  a = a
  b = b
SPECIFICATION FairSpec
INVARIANTS TypeOK Contiguous MemoryIsDirectory MtimeIsFresh
PROPERTIES NoFailureOfItsOwn PauseIsSound ImplementsDebounce EveryWriteIsSettled
CHECK_DEADLOCK TRUE
