CONSTANTS
  k1 = k1
  k2 = k2
  None = None
  Clients = {k1, k2}
  PsnMod = 3
  MayFail = TRUE
  MayStall = {k1}
SPECIFICATION FairSpec
INVARIANT Paired
INVARIANT AcceptorReadyFirst
INVARIANT FailsAlone
INVARIANT ConnectInv
PROPERTY ConnectReturns
