SPECIFICATION Spec
CONSTANTS
  out = out
  err = err
  Streams = {out, err}
  Script <- RotateScript
  MaxInode = 3
  MaxFaults = 1
  MaxCrashes = 0
  BatchSize = 2
  MaxCarriedFds = 1
  RateDrop = FALSE
  SkipUnknown = FALSE
  IdleClose = FALSE
INVARIANTS LinesKept FdsBounded
