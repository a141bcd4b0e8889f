CONSTANTS
  Tasks = {t1, t2}
  MaxNumber = 2
  Faults = {"read"}
  MaxFaults = 1
SPECIFICATION FairSpec
INVARIANT UntrimmedFilesArePrefixes
PROPERTY ActiveIsSaved
CHECK_DEADLOCK FALSE
