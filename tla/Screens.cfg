CONSTANTS
  d1 = d1
  m1 = m1
  p1 = p1
  t1 = t1
  u1 = u1
  l1 = l1
  Screens = {"desktop", "mobile", "oldDesktop", "oldMobile"}
  SettingsSet <- MCSettings
  NetTonnage = 7
  MaxTons = 1
  MaxChanges = 1
  MaxSubmits = 2
  Desktops = {d1, d2}
  Mobiles = {m1}
  CallIds = {v1}
  MaxInvoiceIds = 2
  Members = {p1, p2}
  Nothing = Nothing
  LocalRates = {1, 2}
  LocalScopes <- MCLocalScopes
  MaxRef = 1
  MaxEvents = 1
  Tabs = {t1, t2}
  Users = {u1, u2}
  Lines = {l1, l2}
  Declared = 2
  Finals = {1, 2, 3}
  Tariff <- MCTariff
  Rates = {3}
  Previous = {0, 1}
  Scale = 2
  MaxSheets = 2
  MaxReports = 2
  MaxInvoices = 1
  CloseoutScopes <- MCCloseoutScopes
  Blank = Blank
  NoRate = NoRate
  NoUser = NoUser
  NoInput = NoInput
SPECIFICATION Spec
CHECK_DEADLOCK FALSE
INVARIANT PayableIsSound
PROPERTY HistoryKept
INVARIANT ScreensTypeOK
INVARIANT FiguresAgree
INVARIANT CopiesSound
