SPECIFICATION SuiteSpec
CONSTANTS
  g = g h = h
  own = own tenant = tenant evil = evil off = off
  d1 = d1 n1 = n1
  Default = Default NoNs = NoNs NoMark = NoMark
  Producers = {g, h, J}
  Kind <- MCKind
  Payload <- MCPayload
  Resources = {own, tenant, evil, off, 1, 2, 3, 4}
  DestSeq <- MCDests
  Namespace <- MCNamespace
  Globs <- MCGlobs
  Marker <- MCMarker
  Poison = {evil, 4}
  Refused = {off}
  MaxMemo = 1
  MaxOffers = 2
  Transport <- MCTransport
  Chunks <- One2
  DecodedSize <- One1
  MaxRecv = 2
  BufferLimit = 3
  DecodedLimit = 1
  MaxInFlight = 1
  MaxTries = 1
  J = J
  LastEntry = 4
  EntryBytes <- MCBytes
  Filtered = {3}
  MaxEntryBytes = 3
  MaxBatchBytes = 3
  JournalBatch = 2
  JournalBudgets <- MCBudgets
  Members = {"x", "y"}
  Partitions = {"a", "b"}
  HubContent <- MCHubContent
  HubBudgets <- MCHubBudgets
  RefreshMargin = 1
  TokenBackoff = 2
  TokenTTL = 3
  FetchTimeout = 1
INVARIANTS BudgetsExact SenderToldTruth JournalSound HubSound
PROPERTIES PushesEnd ImplementsDelivery
CHECK_DEADLOCK FALSE
