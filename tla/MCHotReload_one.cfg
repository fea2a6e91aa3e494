SPECIFICATION FairSpec
CONSTANTS
  t1 = t1
  t2 = t2
  t3 = t3
  d1 = d1
  d2 = d2
  d3 = d3
  d4 = d4
  p1 = p1
  None = None
  Boot = Boot
  Tenant = {t1, t2, t3}
  OciTenant = {t1, t2}
  Digest = {d1, d2, d3, d4}
  Catalog <- ThreeCatalog
  Pin <- SecondPinned
  Valid = {d1, d2, d3, d4}
  Conforming = {d1, d2, d4}
  Compiling = {d1, d2}
  Poller = {p1}
  ConfigOrder <- ThreeTenants
  Orders <- ThreeOrders
  Debounce = 2
  MaxFailedPolls = 1
  FailureBound = 2
INVARIANTS
  TypeOK
  ActiveFit
  ActiveCached
  ServingComplete
PROPERTIES
  SwapsAreSpaced
  Converges
  ImplementsDeployment
