SPECIFICATION PageSpec
CONSTANTS
  Host = {"ServicesManager", "LoginFlow", "ServicesPage", "Settings",
          "Draggable", "Dialog", "Progress", "Slider", "SelectorFilters",
          "Components", "Events", "InlineEdit", "Sizzle", "Selection",
          "ChangeApplier", "Listeners", "ModuleLayout", "Tabs", "Pager",
          "Placement", "RelativeUrl", "Options", "Demands", "Headings"}
  m1 = m1
  m2 = m2
  m3 = m3
  PlainText = PlainText
  Empty = Empty
  Path = {m1, m2}
  Value = {0, 1}
  Transaction = {m3}
  NoChange = NoChange
  Dialog = {m1, m2, m3}
  Modal = {m1, m2}
  Stack = {m3}
  ZIndex = 1
  MaxZ = 6
  MaxTimers = 2
  NoDialog = NoDialog
  Maximum = 10
  Step = 3
  NoHandle = NoHandle
  Editor = {m1, m2}
  Text = {Empty, PlainText, Bad}
  Rejected = {Bad}
  MaxTimeouts = 2
  NoEditor = NoEditor
  Depth = 2
  Fn = {m1}
  Namespace = {m3}
  NoNamespace = NoNamespace
  MaxBindings = 2
  Bad = Bad
  Odd = Odd
  NoNumber = NoNumber
  Object = {0, 1, 2}
  Item = {m1, m2, m3}
  RememberSelectionState = TRUE
  Container = Container
  Elsewhere = Elsewhere
  MaxItems = 3
  Length = 8
  Width = 2
  Low = 1
  High = 6
  Grid = 3
  Neighbour = 3
  Tolerance = 1
  Unplaced = Unplaced
  MaxPutOff = 1
  NoSettings = NoSettings
  Admin = {a1}
  Content <- OwnKeys
  Deployed <- Portal
  Overlap = FALSE
  MaxOps = 4
  None = None
  User = {u1, u2}
  TGT = {g1, g2}
  Tab = {tab1}
  Outside = TRUE
  MaxPending = 2
  Null = Null
  Service = {1, 2, 3}
  InitialOrders <- InOrder
  MaxOrder = 3
  MaxChanges = 2
  Deleted = Deleted
  Really = Really
  NoRow = NoRow
INVARIANTS
  ServedIsNewest TicketIsTheirs AskedAndAnswered Agree OneConfirmation 
  ModelHolds  SliderHolds EditsHold  SettingsHold
   
PROPERTIES MovesHold
CHECK_DEADLOCK FALSE
