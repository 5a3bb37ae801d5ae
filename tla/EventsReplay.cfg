SPECIFICATION Spec
CONSTANTS
  a = a
  Replicas = {a}
  StartMode = "auto"
  MaxRV = 3
  Created <- Sparse
  Ts <- SkewedTs
  Slack = 1
  BatchSize = 2
  RetainCap = 2
  ShedChunk = 1
  MaxTerms = 2
  MaxFaults = 2
PROPERTY PositionSound
CHECK_DEADLOCK FALSE
