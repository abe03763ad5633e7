SPECIFICATION WaitsSpec
CONSTANTS
  Node = {n1, n2, n3}
  Slot = {1}
  Platforms = {TRUE, FALSE}
  Expires = TRUE
  MaxCrashes = 2
  None = None
  NoRow = NoRow
  Request = {r1, r2}
  MaxCallbacks = 3
  Unset = Unset
  Fetch = {f1, f2, f3}
  Url = {u1, u2}
  ForceCache = {u1}
  NoFetch = NoFetch
  File = {p1, p2, p3, p4}
  Large = {p1}
  FileUploadLimit = 3
  MaxSelected = 2
  NoFile = NoFile
  MaxCalls = 5
  Target = {t1, t2}
  MaxTipDelays = 3
  NoTarget = NoTarget
INVARIANTS Exclusive OneEnd ActiveCounts NothingWaits OwnAnswer FetchSafe
           WaitsInv TransfersHold EffectsHold
PROPERTIES AbandonedLockIsTaken StepsHold WaitsEnd
