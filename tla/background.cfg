SPECIFICATION Spec
CONSTANTS
  Files = {"f1", "f2"}
  Batches = {"b1"}
  Requests <- MCRequests
  Texts = {"hi", "link"}
  GifLink = "link"
  DraftFiles = {"f1"}
  Gif = "gif"
  NoText = NoText
  MaxMessages = 2
  MaxSends = 1
  MaxEvents = 1
  Fields = {"title", "content"}
  MaxEdits = 2
  MaxSaves = 2
  Drafts = {d1}
  MaxRows = 3
  MaxTexts = 1
  MaxCalls = 2
  MaxTokens = 1
  MaxPushes = 2
  Conns = {1, 2}
  MaxFaults = 1
  MaxClicks = 1
CONSTRAINT Calm
CHECK_DEADLOCK FALSE
INVARIANTS
  TransportsAgree
  ConversationKept
  StoredOnce
  FlagIsTrue
  TunnelAgrees
PROPERTIES
  UnsavedSurvives
  QueuedIsStarted
  CaughtUp
  SavedInTheEnd
  PushSeenToEnd
  TunnelComesBack
