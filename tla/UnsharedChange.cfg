CONSTANTS
  v = v
  r = r
  Blank = Blank
  Code = Code
  Import = Import
  Heading = Heading
  None = None
  Value = {v, r}
  User = {u1, u2}
  Row <- AllRows
  Anchor = {1, 3}
  Typed = {1, 3, 4}
  Result <- Results
  FirstSheets <- Sheets
  MaxRows = 2
  MaxMoves = 2
  Kinds = {"cell", "delete", "code", "run", "add", "flatten", "convert", "meta", "rows"}
  Careful = FALSE
SPECIFICATION Spec
SYMMETRY Users
INVARIANT SheetsAgree
\* The users' moves are used up in the end.
CHECK_DEADLOCK FALSE
