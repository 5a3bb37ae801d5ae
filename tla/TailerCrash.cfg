SPECIFICATION Spec
CONSTANTS
  out = out
  err = err
  Streams = {out, err}
  Script <- SkipScript
  MaxInode = 2
  MaxFaults = 1
  MaxCrashes = 1
  BatchSize = 2
  MaxCarriedFds = 1
  RateDrop = TRUE
  SkipUnknown = FALSE
  IdleClose = TRUE
INVARIANT Recoverable
PROPERTY CheckpointsSound
