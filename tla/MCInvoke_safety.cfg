SPECIFICATION Spec
CONSTANTS
  t1 = t1
  t2 = t2
  None = None
  Tenant = {t1, t2}
  Request = {r1, r2, r3}
  Gen = {g1, g2}
  MaxInstances <- OneEach
  EngineMax = 2
  EpochDelta = 1
  Ticker = TRUE
  Workers = 4
INVARIANTS
  TypeOK
  RunsSnapshot
  PoolBounded
  PooledClean
  LockHeldByInstantiation
