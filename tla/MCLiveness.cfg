CONSTANTS
  MaxGen = 4
  Capacity = 2
  NumRetries = 1
  MaxPeers = 1
  MaxCommits = 7
  MaxFaults = 2
  MaxWriters = 2
  Faults = {"append", "write", "load", "connect", "lost", "crash"}
SPECIFICATION FairSpec
PROPERTY AckedIsPublished
CHECK_DEADLOCK FALSE
