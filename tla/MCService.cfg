\* A file, two edits of the configuration, a crash.
CONSTANTS
  Character <- Characters
  None = None
  Cwd <- Home
  MountPoints <- Root
  Argvs <- CommandLines
  Unprivileged <- Homes
  File <- Files
  Config <- Contents
  Default <- NoFile
  Broken = Broken
  Openable = {"q", "r", "j"}
  Overflow = Overflow
  Millisecond = 10
  IntLimit = 40
  MaxWrites = 2
  MaxEdits = 2
  MaxEvents = 2
  MaxCrashes = 1
  MaxWords = 4
  MaxMounts = 3
  MaxLength = 3
SPECIFICATION FairSpec
INVARIANTS SettingsAreCurrent StopLosesNothing ParsedAsDocumented RelativePathsAreDistinct
PROPERTIES QueueIsDrained
CHECK_DEADLOCK FALSE \* the daemon is stopped
