SPECIFICATION SuiteSpec
CONSTANTS
  g1 = g1  bad = bad  c1 = c1  c2 = c2  c3 = c3  m1 = m1  m2 = m2
  b1 = b1  b2 = b2  w1 = w1  w2 = w2  r1 = r1  r2 = r2
  Batches = {g1, bad}
  Poison = {}
  Invalid = {bad}
  Cap = 2
  Attempts = 2
  MaxCycles = 1
  MaxTracked = 2
  MaxFlips = 0
  MaxFaults = 1
  MaxCrashes = 1
  Calls = {c1, c2, c3}
  KindsOf <- MCKindsOf
  NParts = 2
  RetryAttempts = 2
  Posts = {m1, m2}
  Msgs = {m1, m2}
  Bufs = {b1, b2}
  Writers = {w1, w2}
  Readers = {r1, r2}
  none = none
  FlagConfigs <- MCFlagConfigs
  Sections <- MCSections
  Choices <- MCChoices
  Payloads <- MCPayloads
  SendCap = 32
  Elem = 4
  Wire = 1
  RoomDiv = 4
  Streams = {"a", "b"}
  LmShapes <- MCShapes
  LmBaseline = 1
  LmGrace = 2
  LmExpiration = 0
  LmMaxResources = 1
  LmMaxSamples = 1
  LmExports = 3
  LmFails = 2
INVARIANTS BufferSound DeliveryTold PooledOnce DestinationsSound SplitFaithful CountsDelivered
CHECK_DEADLOCK FALSE
