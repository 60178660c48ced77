CONSTANTS
  k1 = k1
  s1 = s1
  c1 = c1
  None = None
  w1 = w1
  Workers = {w1}
  Callers = {k1}
  Slots = {s1}
  Cqs = {c1}
  SendCq = c1
  RecvCq = c1
  Coroutines = TRUE
  AckFirst = FALSE
  MayFail = FALSE
  MaxCalls = 1
  SeqMod = 2
SPECIFICATION FairSpec
PROPERTY CallsReturn
CHECK_DEADLOCK FALSE
