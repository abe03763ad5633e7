SPECIFICATION Spec
CONSTANTS
  Node = {n1, n2}
  Slot = {1, 2}
  Platforms = {TRUE}
  Expires = TRUE
  MaxCrashes = 2
  None = None
  NoRow = NoRow
INVARIANT Exclusive
