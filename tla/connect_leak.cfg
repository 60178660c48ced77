CONSTANTS
  k1 = k1
  None = None
  Clients = {k1}
  PsnMod = 3
  MayFail = TRUE
  MayStall = {}
SPECIFICATION Spec
INVARIANT ReleasesResources
