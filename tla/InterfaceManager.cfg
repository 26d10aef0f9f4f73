SPECIFICATION Spec
CONSTANTS
  Threads = {t1, t2}
  Uids = {ua, ub, uc, ud}
  Instances = {i1, i2, i3}
  Ptrs = {p1, p2}
  Locks = {l1, l2, l3}
  MaxSerial = 2
  MaxRefs = 3
  HashMayDiffer = {ub}
  UnknownTypes = {ud}
  OpenAfterOom = FALSE
  None = None
INVARIANTS IInv SingleWriterUnlessOom MemoryAliveUnlessOom HeaderExact SharedLock WriterMapAgrees OwnersAgreeUnlessOom LocksGivenBack
PROPERTY ImplementsBlackBoard
SYMMETRY Alike
