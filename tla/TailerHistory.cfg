SPECIFICATION Spec
CONSTANTS
  out = out
  err = err
  Streams = {out, err}
  Script <- RotateScript
  MaxInode = 2
  MaxFaults = 1
  MaxCrashes = 1
  BatchSize = 2
  MaxCarriedFds = 1
  RateDrop = FALSE
  SkipUnknown = TRUE
  IdleClose = FALSE
INVARIANT OnlyHistorySkipped
