CONSTANTS
  Clients = {c1, c2, c3}
  Nobody = Nobody
  MaxCid = 3
  Contents = {}
  Debug = FALSE
  AgentStart = "waiting"
  Recorded = {"status"}
  Compliant = FALSE
  Inputs = {"INDIFFERENT", "STUDENT", "DOCENT", "request", "reply", "unknown"}
SPECIFICATION Spec
SYMMETRY ClientSymmetry
INVARIANTS ListMatchesThreads PointersValid CountsRight CidsUnique StatusUpToDate
PROPERTIES  QueriedIdsNotReused
CHECK_DEADLOCK FALSE
