SPECIFICATION ProcessSpec
CONSTANTS
  Requests = {1, 2}
  HasScheduler = TRUE
  MaxFailures = 1
  BatchSizes = {1, 2}
  MaxBytes = 3
  LastGeneration = 5
  Grace = 1
  Overheads = {0, 2}
  Instants = 2
  Crashes = 1
INVARIANTS StopsClean BufferExact RecoverySucceeds
PROPERTY Exits
CHECK_DEADLOCK FALSE
