\* Two files of one project: writes, a flush, a deletion, a crash.
CONSTANTS
  f = f
  g = g
  r = r
  File = {f, g}
  Root = {r}
  RootOf <- OneProject
  Debounces = {1}
  None = None
  Overflow = Overflow
  MaxWrites = 3
  MaxFlushes = 1
  MaxDeletes = 1
  MaxEvents = 2
  MaxTime = 1
  MaxCrashes = 1
SYMMETRY FileSymmetry
VIEW ViewOfVersions
SPECIFICATION Spec
INVARIANTS TornVersionIsRedone HandledIsPendingOrStored WrittenProjectIsPendingOrStored
PROPERTIES SnapshotKeepsPromise
CHECK_DEADLOCK FALSE \* the bounds on writes and time are reached
