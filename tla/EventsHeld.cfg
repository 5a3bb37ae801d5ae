SPECIFICATION Spec
CONSTANTS
  a = a
  Replicas = {a}
  StartMode = "auto"
  MaxRV = 3
  Created <- Sparse
  Ts <- Sparse
  Slack = 1
  BatchSize = 1
  RetainCap = 1
  ShedChunk = 1
  MaxTerms = 3
  MaxFaults = 1
INVARIANT WatermarkIsSafe
CHECK_DEADLOCK FALSE
