SPECIFICATION Spec
CONSTANTS
  Transactions = {t1, t2}
  a = a
  b = b
  Cells <- TwoCells
  LanguageOf <- QueryAndJavascript
  Reads <- BReadsA
  Loaded = Loaded
  None = None
  MaxCancels = 1
INVARIANTS
  TypeOK
  OneRunPerWait
  ResultIsOfItsCode
PROPERTY
  RerunOrder
\* The user's transactions are used up in the end.
CHECK_DEADLOCK FALSE
