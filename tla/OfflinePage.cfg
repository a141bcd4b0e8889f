SPECIFICATION OfflineSpec
CONSTANTS
  a = a
  b = b
  x = x
  y = y
  Blank = Blank
  Cell = {a, b}
  Value = {Blank, x, y}
  UserEdits <- OfflineEdits
  CodeCells <- OfflineCode
  CodeResults <- OfflineResult
  RemoteEdits <- OfflineRemote
  Reorder = FALSE
  LocalConflicts = FALSE
  MaxOwn = 2
  MaxRemote = 1
  MaxDisconnects = 1
  MaxInFlight = 1
  MaxReloads = 1
INVARIANTS
  OfflineInv
  NothingFinishedIsLost
  StoredOnce
  ShownOrAwaited
  PageInv
  SettledPageIsInSync
\* Everything is done, saved and announced in the end.
CHECK_DEADLOCK FALSE
