CONSTANTS
  a = a
  b = b
  x = x
  y = y
  z = z
  Blank = Blank
  Cell = {a, b}
  Value = {Blank, x, y, z}
  Reorder = FALSE
  LocalConflicts = FALSE
  MaxOwn = 3
  MaxRemote = 2
  MaxDisconnects = 0
  MaxInFlight = 1
  UserEdits <- EditAndClear
  CodeCells <- PlaceCode
  CodeResults <- CodeOutput
  RemoteEdits <- RemoteTwo
SPECIFICATION FairSpec
INVARIANT ViewIsLogPlusUnsaved
INVARIANT UndoClearsOwnWork
PROPERTY UndoRedoRetrace
PROPERTY ImplementsSharedSheet
PROPERTY OwnTransactionsSettle
