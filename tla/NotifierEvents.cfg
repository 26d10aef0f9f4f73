SPECIFICATION Spec
CONSTANTS
  Uids = {u1}
  Listeners = {l1, l2}
  Threads = {t1, t2}
  Events = {"message_received"}
  MaxQueue = 2
INVARIANTS NotifierInv IteratorsValid DeferredAsImmediate NothingLeftDeferred ListenerAgrees NoListenerMissed
SYMMETRY Interchangeable
