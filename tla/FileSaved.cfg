CONSTANTS
  Tasks = {t1, t2}
  MaxNumber = 3
  Faults = {"task", "crash", "publish"}
  MaxFaults = 2
SPECIFICATION Spec
SYMMETRY TaskSymmetry
INVARIANT TypeOK
INVARIANT FilesArePrefixes
INVARIANT LoadedFileIsComplete
PROPERTY ImplementsSavedFile
CHECK_DEADLOCK FALSE
