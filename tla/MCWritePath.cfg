CONSTANTS
  MaxGen = 4
  Capacity = 2
  NumRetries = 1
  MaxPeers = 1
  MaxCommits = 3
  MaxFaults = 3
  MaxWriters = 1
  Faults = {"append", "torn", "cancel", "write", "sidecar", "load", "connect", "lost", "delay", "crash"}
SPECIFICATION Spec
INVARIANTS NoAckedLoss PublishedOnce AckedBuffered CompletionAccepted Inductive
PROPERTY ExactlyOncePublication
CHECK_DEADLOCK FALSE
