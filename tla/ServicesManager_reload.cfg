SPECIFICATION FairSpec
CONSTANTS
  Admin = {a1, a2}
  Content <- OwnKeys
  Deployed <- Portal
  Overlap = TRUE
  MaxOps = 2
  None = None
INVARIANTS ServicesInv ContentsOnce
PROPERTY Converges
CHECK_DEADLOCK FALSE
