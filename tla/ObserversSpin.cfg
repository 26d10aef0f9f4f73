SPECIFICATION LiveSpec
CONSTANTS
  o1 = o1
  o2 = o2
  Observers = {o1, o2}
  Watched <- WatchedBoth
  Threads = {t1}
  MaxQueue = 3
  Nobody = Nobody
PROPERTY UnregisterReturns
