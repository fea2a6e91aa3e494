SPECIFICATION FairSpec
CONSTANTS
  t1 = t1
  t2 = t2
  None = None
  Tenant = {t1}
  Request = {r1, r2}
  Gen = {g1, g2}
  MaxInstances <- TwoEach
  EngineMax = 3
  EpochDelta = 1
  Ticker = TRUE
  Workers = 2
PROPERTIES
  RequestEnds
