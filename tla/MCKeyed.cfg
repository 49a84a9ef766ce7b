CONSTANTS
  k1 = k1
  k2 = k2
  k3 = k3
  Keys = {k1, k2, k3}
  TTL = 0
  Cap = 2
  MaxRequests = 4
  MaxTime = 1
  MaxDrops = 1
  MaxFaults = 2
  Faults = {"append", "torn", "cancel", "full", "crash"}
  Clients = {1, 2}
  Mixes <- SmallMixes
  MaxShapes = 2
  MaxHandles = 2
  MaxMessages = 3
  Room = 2
SPECIFICATION IngestSpec
SYMMETRY KeySymmetry
INVARIANTS KeyLandsOnce ReceiptHonoured FlightAnswersTrue
CHECK_DEADLOCK FALSE
