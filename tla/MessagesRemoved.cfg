SPECIFICATION Spec
CONSTANTS
  s1 = s1
  s2 = s2
  m1 = m1
  m2 = m2
  m3 = m3
  Senders = {s1, s2}
  Messages = {m1, m2, m3}
  From <- MCFrom
  Kept = {m2}
  Instances = {w1}
  Woken = {w1}
  MayVeto = {}
  MaxRejected = 1
  Null = Null
PROPERTY ImplementsMailbox
CHECK_DEADLOCK FALSE
