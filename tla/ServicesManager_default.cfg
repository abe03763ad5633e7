SPECIFICATION Spec
CONSTANTS
  Admin = {a1}
  Content <- OwnKeys
  Deployed <- Portal
  Overlap = TRUE
  MaxOps = 1
  None = None
INVARIANT DefaultOnlyIfEmpty
CHECK_DEADLOCK FALSE
