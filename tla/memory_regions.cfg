CONSTANTS
  h1 = h1
  h2 = h2
  r1 = r1
  r2 = r2
  None = None
  Handles = {h1, h2}
  Regions = {r1, r2}
  SizeMod = 5
  WordMod = 2
  Lengths = {1, 3}
SPECIFICATION Spec
INVARIANT OwnedOnce
INVARIANT ReleasedInOrder
INVARIANT NothingLeft
INVARIANT ViewsInside
INVARIANT Ownership
SYMMETRY MrSymmetry
CHECK_DEADLOCK FALSE
