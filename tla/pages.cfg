SPECIFICATION Spec
CONSTANTS
  x1 = x1  x2 = x2  n1 = n1  n2 = n2  s1 = s1  s2 = s2  a = a  b = b  c = c
  p1 = p1  p2 = p2  t1 = t1  t2 = t2  t3 = t3
  Files = {x1, x2}
  Folders = {here, there}
  Names = {n1, n2}
  NameOf <- MCNameOf
  NoFile = NoFile
  Foreign = Foreign
  MaxBatches = 2
  MaxText = 2
  NoText = NoText
  MaxWrites = 2
  PageTime = PageTime
  Shares = {s1, s2}
  Content <- MCContent
  TargetFolders = {d1, d2}
  NoShare = NoShare
  ShellCache = shell
  ShareCache = share
  OldCache = old
  PathNames = {a, b, c}
  Paths <- MCPaths
  RootId = root
  NoId = none
  MaxRows = 5
  MaxOthers = 1
  Items = {j, k, sub}
  SubFolder = sub
  Root = root
  None = none
  MaxChanges = 1
  Trashed = trashed
  Lists = {p1, p2}
  Absent = Absent
  Tracks = {t1, t2, t3}
  Stored <- MCStored
  NoList = NoList
  NoTrack = NoTrack
  playlistMaxTracks = 2
  MaxEdits = 2
  Shareables = {f1, f2}
  DialogItem = f1
  People = {ann, bob}
  Link = link
  Grants = {grant}
  MaxShares = 3
  MaxCalls = 2
  Trash = {dir, f}
  TrashedFolder = dir
  Inside = {f}
  Unlisted = Unlisted
  MaxTrashCalls = 2
  MaxTrashed = 1
  Browsers = {laptop, phone}
  MaxResets = 1
  MaxTracks = 2
  MaxJoins = 3
SYMMETRY Alike
CONSTRAINT Calm
CHECK_DEADLOCK FALSE
INVARIANTS
  ChoicesKept
  SharesArrive
  PathKept
  FreshListingsTrue
  PlayerAgrees
  SharesAgree
  OnlyTrashDeleted
  SignInHolds
  ScreenIsShared
PROPERTY
  OverwritesOnlyThroughGaps
