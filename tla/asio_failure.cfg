CONSTANTS
  s1 = s1
  r1 = r1
  c1 = c1
  SendOps = {s1}
  RecvOps = {r1}
  Cqs = {c1}
  SendCq = c1
  RecvCq = c1
  MaxSendWr = 1
  MaxRecvWr = 1
  CqDepth = 2
  BatchSize = 1
SPECIFICATION Spec
INVARIANT FailureIsDelivered
CHECK_DEADLOCK FALSE
