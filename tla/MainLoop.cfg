SPECIFICATION Spec
CONSTANTS
  a = a
  as = as
  ae = ae
  bs = bs
  be = be
  main = main
  w1 = w1
  w2 = w2
  w3 = w3
  obs = obs
  SyncPoints = {a, as, ae, bs, be}
  Components = {main, w1, w3, obs}
  Pred <- MCPred
  None = None
  Main = main
  Hooks = 2
  Start <- MCStart
  End <- MCEnd
  In <- MCIn
  Type <- MCType
  Out <- MCOut
  Dynamic = {w1}
  MaxPending = 2
INVARIANTS TypeOK NoException HookOrder WaitingSetsAgree
PROPERTIES MainCycles TurnComes
