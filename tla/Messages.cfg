SPECIFICATION Spec
CONSTANTS
  s1 = s1
  s2 = s2
  m1 = m1
  m2 = m2
  m3 = m3
  Senders = {s1, s2}
  Messages = {m1, m2, m3}
  From <- MCFrom
  Kept = {m2}
  Instances = {w1, w2}
  Woken = {w1}
  MayVeto = {w2}
  MaxRejected = 1
  Null = Null
INVARIANTS TypeOK RefsAccounted CurrentIsFirst
PROPERTIES MailboxUnlessTorn Delivered
CHECK_DEADLOCK FALSE
