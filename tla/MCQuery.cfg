SPECIFICATION Spec
CONSTANTS
  q1 = q1
  q2 = q2
  old = old
  new = new
  Nothing = Nothing
  Queries = {q1, q2}
  Tables = {old, new}
  FirstVersion <- FirstVersions
  Requests <- Asked
  MetadataTtl = 1
  MaxLocks = 1
  LeaseTtl = 0
  NumBatches = 2
  MaxCommits = 1
  MaxTime = 1
  MaxFaults = 1
  Faults = {"load", "pin", "release", "unreachable", "fail", "timeout", "gone", "drop", "crash"}
INVARIANTS PinsSound WholeResult
PROPERTY CacheAdvances
CHECK_DEADLOCK FALSE
