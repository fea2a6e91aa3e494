SPECIFICATION IngressFairSpec
CONSTANTS
  None = None
  Tenant = {t1}
  Request = {r1, r2, r3}
  Gen = {g1, g2}
  MaxInstances <- TwoEach
  EngineMax = 3
  EpochDelta = 1
  Ticker = TRUE
  Workers = 3
  Concurrency = 2
INVARIANTS
  IngressTypeOK
  PermitsBoundCalls
PROPERTIES
  RequestLeaves
  DrainEnds
  StaleDrains
