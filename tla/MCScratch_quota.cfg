SPECIFICATION Spec
CONSTANTS
  None = None
  Caller = {c1, c2}
  Path = {p1, p2}
  BadPath = {b1}
  Quota = 4
  MaxLen = 3
  Half = 8
INVARIANTS
  TypeOK
  QuotaHeld
  AccountingExact
