CONSTANTS
  a = a
  b = b
  x = x
  y = y
  z = z
  Blank = Blank
  Cell = {a, b}
  Value = {Blank, x, y, z}
  Reorder = TRUE
  LocalConflicts = TRUE
  MaxOwn = 1
  MaxRemote = 2
  MaxDisconnects = 1
  MaxInFlight = 1
  UserEdits <- EditTwo
  CodeCells <- PlaceCode
  CodeResults <- CodeOutput
  RemoteEdits <- RemoteApart
SPECIFICATION FairSpec
PROPERTY CaughtUp
