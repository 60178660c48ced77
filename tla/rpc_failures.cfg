CONSTANTS
  k1 = k1
  k2 = k2
  k3 = k3
  s1 = s1
  s2 = s2
  c1 = c1
  None = None
  w1 = w1
  Workers = {w1}
  Callers = {k1, k2, k3}
  Slots = {s1, s2}
  Cqs = {c1}
  SendCq = c1
  RecvCq = c1
  Coroutines = FALSE
  AckFirst = TRUE
  MayFail = TRUE
  MaxCalls = 1
  SeqMod = 4
SPECIFICATION FairSpec
INVARIANT SlotExclusive
INVARIANT NoBadPacket
INVARIANT AnyFlushInv
PROPERTY StrandedOnlyByFailure
CHECK_DEADLOCK FALSE
