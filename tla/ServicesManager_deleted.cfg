SPECIFICATION Spec
CONSTANTS
  Admin = {a1}
  Content <- OwnKeys
  Deployed <- Portal
  Overlap = FALSE
  MaxOps = 2
  None = None
PROPERTY DeletedStaysDeleted
CHECK_DEADLOCK FALSE
