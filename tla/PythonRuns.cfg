SPECIFICATION FairSpec
CONSTANTS
  Transactions = {t1, t2}
  a = a
  b = b
  Cells <- TwoCells
  LanguageOf <- TwoPython
  Reads <- BReadsA
  Loaded = Loaded
  None = None
  MaxCancels = 1
INVARIANTS
  OneRunPerWait
  NoRunIsStranded
PROPERTY
  PythonRunsEnd
\* The user's transactions are used up in the end.
CHECK_DEADLOCK FALSE
