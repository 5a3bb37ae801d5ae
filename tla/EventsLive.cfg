SPECIFICATION FairSpec
CONSTANTS
  a = a
  Replicas = {a}
  StartMode = "auto"
  MaxRV = 3
  Created <- Sparse
  Ts <- Sparse
  Slack = 1
  BatchSize = 2
  RetainCap = 2
  ShedChunk = 1
  MaxTerms = 1
  MaxFaults = 1
PROPERTY EventsSettle
CHECK_DEADLOCK FALSE
