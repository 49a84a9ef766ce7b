SPECIFICATION NodeSpec
CONSTANTS
  Tables = {"t"}
  Namespace <- OneNamespace
  s1 = s1
  s2 = s2
  Sessions = {s1, s2}
  Writers = {"w1"}
  Operations = {"create", "drop", "create_ns", "drop_ns"}
  MaxInc = 2
  MaxRows = 2
  MaxStatements = 2
  MaxFaults = 1
  Faults = {"crash", "abandon", "tombstone", "purge"}
  Scripts <- SomeCalls
SYMMETRY Symmetry
INVARIANTS IncarnationsApart AckedServed AnswersTrue
CHECK_DEADLOCK FALSE
