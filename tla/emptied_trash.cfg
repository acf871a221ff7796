SPECIFICATION TrashSpec
CONSTANTS
  Trash = {dir, f}
  TrashedFolder = dir
  Inside = {f}
  Unlisted = Unlisted
  MaxTrashCalls = 2
  MaxTrashed = 1
CHECK_DEADLOCK FALSE
INVARIANT TrashAlone
