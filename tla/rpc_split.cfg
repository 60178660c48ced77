CONSTANTS
  k1 = k1
  k2 = k2
  s1 = s1
  s2 = s2
  c1 = c1
  c2 = c2
  None = None
  w1 = w1
  w2 = w2
  Workers = {w1, w2}
  Callers = {k1, k2}
  Slots = {s1, s2}
  Cqs = {c1, c2}
  SendCq = c1
  RecvCq = c2
  Coroutines = TRUE
  AckFirst = FALSE
  MayFail = FALSE
  MaxCalls = 2
  SeqMod = 3
SPECIFICATION FairSpec
INVARIANT OwnReply
INVARIANT WorkerTouchesLiveCall
INVARIANT RpcInv
PROPERTY CallsReturn
