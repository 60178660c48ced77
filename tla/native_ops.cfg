CONSTANTS
  s1 = s1
  s2 = s2
  r1 = r1
  c1 = c1
  SendOps = {s1, s2}
  RecvOps = {r1}
  Cqs = {c1}
  SendCq = c1
  RecvCq = c1
  MaxSendWr = 1
  MaxRecvWr = 1
  CqDepth = 1
  BatchSize = 2
  PlainSends = {s2}
  Writes = {s1}
  Atomics = {}
SPECIFICATION FairSpec
INVARIANT WrIdUsable
INVARIANT SuspendTouchesLive
INVARIANT OwnResult
INVARIANT NativeInv
PROPERTY HonoursContract
PROPERTY SendResolved
PROPERTY ErrorWakesReceivers
CHECK_DEADLOCK FALSE
