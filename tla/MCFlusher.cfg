\* Two processes, FIFOs that come and go, a crash, a reboot or a file
\* that is taken away.
CONSTANTS
  p1 = p1
  p2 = p2
  f1 = f1
  f2 = f2
  None = None
  Path = {f1, f2}
  Pid = {p1, p2}
  PathsOf <- OwnFiles
  PipeSize <- SmallAndLarge
  MaxRequests = 2
  MaxEvents = 1
  MaxListens = 2
  MaxTroubles = 1
SPECIFICATION FairSpec
INVARIANTS AcknowledgedIsStored NoFdIsLeaked AnswersAreForTheReader
PROPERTIES ServedOnce EveryRequestIsAnswered
CHECK_DEADLOCK FALSE \* the bounds on requests and reboots are reached
