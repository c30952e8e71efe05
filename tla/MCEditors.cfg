\* Two processes run programs and write; the daemon is restarted.
CONSTANTS
  vi = vi
  cat = cat
  busybox = busybox
  wrapper = wrapper
  ld = ld
  None = None
  Pid = {1, 4}
  Program = {vi, cat, busybox, wrapper}
  Loader = {ld}
  LoaderOf <- Loaders
  ShebangOf <- Shebangs
  Editor = {vi, wrapper}
  SizeGuess = 2
  MaxExecs = 3
  MaxEvents = 4
  MaxCrashes = 1
SPECIFICATION Spec
INVARIANTS WritesAreJudgedRight
CHECK_DEADLOCK FALSE \* all processes may have exited
