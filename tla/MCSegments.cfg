SPECIFICATION Spec
CONSTANTS
  t1 = t1
  p1 = p1
  p2 = p2
  Tables = {t1}
  Passes = {p1, p2}
  SegmentLimit = 1
  MaxGroup = 2
  RecoveryMode = "fail"
  MaxGen = 2
  MaxInc = 2
  MaxWaiting = 2
  MaxSegment = 3
  MaxPasses = 2
  MaxFaults = 2
  MaxOverlap = 3
  Faults = {"write", "torn", "unlink", "read", "persist", "corrupt", "crash"}
SYMMETRY Symmetry
CONSTRAINT FewFaults
INVARIANTS LiveKept NoResurrection CutoffsBehind
CHECK_DEADLOCK FALSE
