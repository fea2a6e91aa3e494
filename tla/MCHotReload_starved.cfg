SPECIFICATION FairSpec
CONSTANTS
  t1 = t1
  t2 = t2
  t3 = t3
  d1 = d1
  d2 = d2
  d3 = d3
  d4 = d4
  p1 = p1
  None = None
  Boot = Boot
  Tenant = {t1, t2}
  OciTenant = {t1, t2}
  Digest = {d1, d2, d3}
  Catalog <- TagCatalog
  Pin <- NoPins
  Valid = {d1, d2, d3}
  Conforming = {d1, d2}
  Compiling = {d1, d2}
  Poller = {p1}
  ConfigOrder <- TwoTenants
  Orders <- BothOrders
  Debounce = 1
  MaxFailedPolls = 2
  FailureBound = 3
PROPERTIES
  ConvergesDespiteOthers
