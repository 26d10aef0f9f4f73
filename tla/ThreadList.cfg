SPECIFICATION Spec
CONSTANTS
  Threads = {t1, t2}
  Coord = coord
  Initial = {t1}
  Removable = {t2}
  Barriers = {b1, b2, b3, b4, b5}
  MaxBad = 2
  Null = Null
INVARIANTS TypeOK NoException BarrierAlive AllFinished FlaggedIsListed
PROPERTIES Cycles Reintegrated
