SPECIFICATION Spec
CONSTANTS
  t1 = t1  t2 = t2  cadvisor = cadvisor  p1 = p1  p2 = p2  r1 = r1
  Expositions <- MCExpositions
  BatchPoints = 2
  MaxSamples = 6
  MaxFamilyAcc = 4
  Kubelet = {cadvisor}
  Targets = {t1, t2}
  Offers <- MCOffers
  Hooked = {}
  Failing = {t1}
  Interval = 4
  EarlyDiv = 4
  Timeout = 1
  MinTick = 1
  MaxStale = 2
  Concurrency = 1
  MaxChanges = 2
  Horizon = 6
  Scrapers = {"summary", "cadvisor"}
  Shapes <- MCShapes
  CacheTTL = 2
  Window = 3
  Limit = 1
  Lag = 1
  Mirrored = {2}
  MaxCache = 1
  LowWater = 1
  SweepEvery = 2
  MaxWorld = 2
  MaxTime = 5
  MaxRows = 1
  AuthScrapes = {p1, p2}
  Refs = {r1}
  AuthTargets <- MCAuthTargets
  ServerNames = {"n"}
  AuthTTL = 1
  IdleRelease = 2
  StaleGrace = 2
  MaxAuth = 1
  MaxTLS = 1
  TLSIdle = 2
  Latency = 1
  MaxVersion = 2
  AuthHorizon = 2
  MaxBuilds = 2
  ContainerIds = {"a", "b"}
  IdOrder <- MCIdOrder
  MaxTracked = 1
  MaxPending = 2
  MaxHeldWindows = 1
  MaxDeadWindows = 2
  MaxUnresolvedAge = 1
  AbandonRetryEvery = 2
  ReconsiderEvery = 1
  SampleReads <- MCReads
  CgBudgets <- MCCgBudgets
SYMMETRY ScrapeSymmetry
INVARIANTS ScrapeAccounted Cadence AttributionTrue CredentialsBounded SamplerSound
CHECK_DEADLOCK FALSE
