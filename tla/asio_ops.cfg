CONSTANTS
  s1 = s1
  s2 = s2
  r1 = r1
  c1 = c1
  SendOps = {s1, s2}
  RecvOps = {r1}
  Cqs = {c1}
  SendCq = c1
  RecvCq = c1
  MaxSendWr = 1
  MaxRecvWr = 1
  CqDepth = 2
  BatchSize = 2
SPECIFICATION FairSpec
INVARIANT CompletedOnce
INVARIANT CallbackLive
INVARIANT PostedNotAbandoned
INVARIANT NoOverrunIfSized
INVARIANT IInv
PROPERTY HonoursContract
PROPERTY SendResolved
PROPERTY CancelledReclaimed
CHECK_DEADLOCK FALSE
