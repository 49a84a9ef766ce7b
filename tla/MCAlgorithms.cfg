SPECIFICATION AlgorithmsSpec
CONSTANTS
  Null = Null
  Err = Err
  Procs = {p1, p2}
  Clusters = {k1}
  Fresh = Fresh
  NoCluster = NoCluster
  MaxBoots = 3
  MaxSegments = 1
  MaxEpoch = 3
  Nodes = {"a", "b", "c"}
  Slots = {"s1", "s2"}
  SlotOf <- DeployedAs
  MaxAppends = 2
  MaxRange = 2
  Retries = 1
  MaxEvents = 2
  MaxWriters = 1
  Excluding = FALSE
  ByteValues = {0, 1, 2, 3}
  AlignTo = 2
  MaxPayload = 2
INVARIANTS FilesExact AnswersExact CompactionExact LogReadsExact TablesExact CleanupExact RootOwned WritersInOrder
CHECK_DEADLOCK FALSE
