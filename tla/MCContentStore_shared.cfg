SPECIFICATION Spec
CONSTANTS
  c1 = c1
  c2 = c2
  n1 = n1
  n2 = n2
  None = None
  Caller = {c1, c2}
  TmpName = {n1, n2}
  TmpOf <- SharedTmp
  Digest = {d1, d2}
  Inode = {i1, i2, i3}
  Chunks = 2
SYMMETRY InodeSymmetry
INVARIANTS
  StoreIntegrity
