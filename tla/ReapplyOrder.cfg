CONSTANTS
  a = a
  b = b
  x = x
  y = y
  z = z
  Blank = Blank
  Cell = {a, b}
  Value = {Blank, x, y, z}
  Reorder = FALSE
  LocalConflicts = TRUE
  MaxOwn = 2
  MaxRemote = 1
  MaxDisconnects = 0
  MaxInFlight = 1
  UserEdits <- EditTwo
  CodeCells <- Nothing
  CodeResults <- Nothing
  RemoteEdits <- RemoteTwo
SPECIFICATION Spec
INVARIANT InSync
