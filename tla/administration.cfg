SPECIFICATION Spec
CONSTANTS
  p = p  q = q  a = a  b = b
  Items = {p, q, a, b}
  Above <- MCAbove
  Stored = {p}
  Unread = Unread
  MaxClicks = 2
  Files = {f}
  Keep = 1
  MaxSecond = 2
  Restores = {r}
  Pushes = {p1, p2}
  LastSecond = 1
  Quotas = {1, 2}
  Accounts = {ann, bob, gus}
  Admins = {ann, bob}
  GuestAccounts = {gus}
  UserQuotas = {1500}
  MaxQuotaBytes = 1000000
  NoMax = never
  MaxAdminCalls = 2
  GroupNames = {n1, n2}
  NoName = none
  MaxGroups = 2
  MaxUsers = 1
  MaxPanelCalls = 1
  Tabs = {t1, t2}
  Apps = {a1, a2}
  email = email
  Secrets = {w1, w2}
  Requests = {r1}
  CacheTTL = 1
  Hours = 2
  WeekDays = 2
  MonthDays = 2
  Zones <- MCZones
  Schedules <- MCSchedules
  MaxDays = 2
  Plans = {daily, weekly}
  DEFAULT_SCHED = daily
  Unknown = Unknown
  MaxSaves = 2
  Blobs = {x, y}
  Unscanned = Unscanned
  MaxCalls = 2
  MaxScans = 2
  MaxLeaves = 1
  MaxAside = 1
CONSTRAINT Calm
SYMMETRY Alike
CHECK_DEADLOCK FALSE
INVARIANTS
  ShownIsSaved
  
  AnsweredIsKept
  AccountsAgree
  CreatedAsPicked
  MethodsKept
  RefusedInTime
  SlotsServed
  OtherPanelKept
  ReportHolds
