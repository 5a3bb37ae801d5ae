SPECIFICATION SuiteSpec
CONSTANTS
  p1 = p1 p2 = p2 a1 = a1 a2 = a2 b1 = b1 u1 = u1 a = a b = b none = none
  Pushes = {p1, p2}
  Payload <- TwoSenders
  TraceOf <- Traces
  Unkeyed = none
  Wait = 1
  MaxTraces = 1
  MaxSpansPerTrace = 2
  MaxSpans = 2
  CacheSize = 1
  TTL = 1
  CompactFloor = 0
  Chunk = 1
  Tries <- Twice
  MaxTime = 2
  Taps = {p1, p2}
  SpansOf <- MCSpansOf
  Exporters = {"ticker", "final"}
  MaxCardinality = 2
  StaleAfter = 1
  SnapChunk = 1
  AggTries <- MCAggTries
  AggMaxTime = 2
  HalfSpans = {"c1", "s1", "s2", "m1", "n1", "i1"}
  SpanInfo <- MCSpanInfo
  GraphPushes = {p1, p2}
  GraphSpans <- MCGraphSpans
  PairWait = 2
  MaxItems = 1
  SweepFloor = 0
  MaxSweepBudget = 2
  ExpirePerHold = 1
  GraphMaxTime = 3
  Entries = {"s1", "s2", "s3"}
  NameLists <- MCNameLists
  TokensOf <- MCTokensOf
  Rank <- MCRank
  TracePushes = {p1, p2}
  TraceSpans <- MCTraceSpans
  KeyOf <- MCKeyOf
  NoKey = 99
  Misaddressed = {"s3"}
  PushTries = 2
  Confs <- MCConfs
  MaxStuck = 1
INVARIANTS AckedKept DecidedAsWhole PairingSound ShardingSound ShutdownSound
PROPERTY SeriesDelivered
CHECK_DEADLOCK FALSE
