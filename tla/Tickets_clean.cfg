SPECIFICATION FairSpec
CONSTANTS
  TGT = {g1}
  ST = {s1}
  Thread = {t1, t2}
  Cleaner = {c}
  Service = {app}
  Enabled = {app}
  SsoEnabled = {app}
  ProxyAllowed = {}
  NumberOfUses = 1
  None = None
INVARIANTS IInv OneLogoutMessage
PROPERTY ExpiredLeaveRegistry
