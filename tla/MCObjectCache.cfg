SPECIFICATION CachesSpec
SYMMETRY Symmetry
CONSTANTS
  a = a
  b = b
  x = x
  y = y
  caller1 = caller1
  caller2 = caller2
  PutContents = {y}
  Absent = Absent
  Objects = {a, b}
  Contents = {x, y}
  Size <- Sizes
  InitialStore <- FirstStore
  Procs = {caller1, caller2}
  Calls = {"get", "range", "put", "delete", "copy"}
  MaxTotal = 4
  MaxObject = 3
  MaxOps = 3
  MaxFaults = 1
  Faults = {"cancel", "crash"}
  Askers = {caller1, caller2}
  NamesTtls = {0, 2}
  MaxClock = 5
  ListingTime = 2
INVARIANTS CleanReads IndexSound WaitersHaveLeader NamesServed
CHECK_DEADLOCK FALSE
