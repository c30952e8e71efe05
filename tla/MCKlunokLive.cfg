\* Liveness with a crash and a flush request.
CONSTANTS
  f = f
  g = g
  r = r
  File = {f, g}
  Root = {r}
  RootOf <- OneInOneOut
  Debounces = {1}
  None = None
  Overflow = Overflow
  MaxWrites = 2
  MaxFlushes = 1
  MaxDeletes = 0
  MaxEvents = 1
  MaxTime = 1
  MaxCrashes = 1
SPECIFICATION FairSpec
PROPERTIES HandledIsStoredInTheEnd
CHECK_DEADLOCK FALSE \* the bounds on writes and time are reached
