\* A directory with two files: five changes, a crash.
CONSTANTS
  x = x
  z = z
  y = y
  Path = {x, y, z}
  Root = Root
  Above <- Directories
  None = None
  Dir = Dir
  MaxChanges = 5
  MaxCrashes = 1
SPECIFICATION FairSpec
INVARIANTS UnstableKeepsFiles VersionIsTheProject
PROPERTIES FailsOnlyInARace ProjectIsStoredInTheEnd
CHECK_DEADLOCK FALSE \* the user stops and the queue is empty
