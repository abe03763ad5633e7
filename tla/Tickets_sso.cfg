SPECIFICATION Spec
CONSTANTS
  TGT = {g1}
  ST = {s1, s2}
  Thread = {t1, t2}
  Cleaner = {}
  Service = {app, other}
  Enabled = {app, other}
  SsoEnabled = {app}
  ProxyAllowed = {}
  NumberOfUses = 1
  None = None
SYMMETRY Interchangeable
INVARIANTS SingleUse OneNewLoginPerSession SignOutReachesValidated
CHECK_DEADLOCK FALSE
