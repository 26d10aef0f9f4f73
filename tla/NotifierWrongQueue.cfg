SPECIFICATION Spec
CONSTANTS
  Uids = {u1}
  Listeners = {l1}
  Threads = {t1, t2}
  Events = {"data_refresh", "writer_removed"}
  MaxQueue = 2
INVARIANTS NoListenerMissed

