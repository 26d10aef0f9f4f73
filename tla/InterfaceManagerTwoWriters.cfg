SPECIFICATION Spec
CONSTANTS
  Threads = {t1, t2}
  Uids = {ua, ub}
  Instances = {i1, i2, i3, i4}
  Ptrs = {p1}
  Locks = {l1, l2, l3}
  MaxSerial = 2
  MaxRefs = 3
  HashMayDiffer = {}
  UnknownTypes = {}
  OpenAfterOom = TRUE
  None = None
INVARIANT SingleWriter
SYMMETRY Alike
