SPECIFICATION Spec
CONSTANTS
  a = a
  as = as
  ae = ae
  bs = bs
  be = be
  main = main
  w1 = w1
  w2 = w2
  w3 = w3
  obs = obs
  SyncPoints = {a, as, ae}
  Components = {main, w1, w2}
  Pred <- MCPred
  None = None
  Main = main
  Hooks = 1
  Start <- MCStart1
  End <- MCEnd1
  In <- MCIn
  Type <- MCType
  Out <- MCOut
  Dynamic = {w1}
  MaxPending = 2
INVARIANT WaitsForEmitters
