SPECIFICATION Spec
CONSTANTS
  n1 = n1
  n2 = n2
  Nodes = {n1, n2}
  Compactors = {n1, n2}
  Sweepers = {n1, n2}
  NoOwner = NoOwner
  LockTtl = 1
  MinAge = 2
  MaxAge = 0
  KeepLast = 1
  InitialFiles = 1
  MaxTime = 3
  MaxFiles = 3
  MaxSnaps = 3
  MaxCycles = 2
  MaxFaults = 1
SYMMETRY Symmetry
INVARIANTS FilesExist RowsSound
CHECK_DEADLOCK FALSE
