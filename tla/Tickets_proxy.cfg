SPECIFICATION Spec
CONSTANTS
  TGT = {g1, g2}
  ST = {s1, s2}
  Thread = {t1, t2}
  Cleaner = {}
  Service = {app}
  Enabled = {app}
  SsoEnabled = {app}
  ProxyAllowed = {app}
  NumberOfUses = 1
  None = None
SYMMETRY Interchangeable
INVARIANTS IInv ProxyOnlyAfterValidation
PROPERTIES DestroyInvalidatesDerived ImplementsSession
CHECK_DEADLOCK FALSE
