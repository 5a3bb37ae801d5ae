SPECIFICATION SuiteSpec
CONSTANTS
  pod1 = pod1 pod2 = pod2 pod3 = pod3 n1 = n1 n2 = n2 web = web db = db ip1 = ip1 ip2 = ip2 c1 = c1 c2 = c2 c3 = c3
  Uids <- Pods3
  NameOf <- SameName
  Objects <- Lives
  TTL = 1
  MemoNodes = {n1}
  MaxTime = 3
  MaxEvents = 4
  Lookups = {"l1", "l2"}
  MetaKeys = {"k1", "k2"}
  MaxAge = 2
  MaxCacheEntries = 1
  EvictLowWater = 0
  CacheMaxIdle = 1
  CacheSweepEvery = 1
  StampGranularity = 1
  MetaCalls <- MCCalls
  MetaChanges = 1
  MetaMaxTime = 3
  TokenCallers = {"a", "b"}
  SideChoices <- MCSides
  Interval = 2
  Refresh = 1
  Grace = 2
  MaxSecret = 2
  BearerCalls <- MCCalls
  BearerMaxTime = 3
  SvcUids = {"u1", "u2"}
  SvcName <- MCSvcName
  MonitorKeys = {"m"}
  TargetRequests = {"a", "b", "c", "d"}
  AuthRequests = {"c"}
  RequestNode <- MCRequestNode
  MaxNodeTargetETags = 1
  DiscoveryBudgets <- MCBudgets
  Inventories <- MCInventories
  MaxPortsPerPod = 2
  MaxTargetBytesPerPod = 22
  MaxRelabelChainRules = 2
  MaxContributorsPerTarget = 2
  NoSvc = NoSvc
  NoMonitor = NoMonitor
  NoAuth = NoAuth
  RelabelSpecs <- MCRelabelSpecs
  MaxRelabelRules = 2
  MaxRelabelChainBytes = 14
  MaxRelabelChainCost = 3
  MaxTrackedWrites = 1
  MaxRelabelIgnored = 1
INVARIANTS StoreConsistent CacheNeverStale TokenReadsSound AnswersCurrent DiscoverySound
PROPERTY RetainedUntilExpiry
CHECK_DEADLOCK FALSE
