CONSTANTS
  a = a
  b = b
  x = x
  y = y
  z = z
  Blank = Blank
  Cell = {a, b}
  Value = {Blank, x, y, z}
  Reorder = TRUE
  LocalConflicts = TRUE
  MaxOwn = 2
  MaxRemote = 2
  MaxDisconnects = 1
  MaxInFlight = 1
  UserEdits <- EditOne
  CodeCells <- PlaceCode
  CodeResults <- CodeOutput
  RemoteEdits <- RemoteTwo
SPECIFICATION Spec
INVARIANT IndInv
INVARIANT UntouchedCellsFollowLog
INVARIANT StashMatchesLog
INVARIANT UnsentIsUnsaved
INVARIANT AsyncIsUnsaved
PROPERTY SequenceNumberAdvances
