CONSTANTS
  Clients = {c1, c2}
  Nobody = Nobody
  MaxCid = 2
  Contents = {}
  Debug = FALSE
  AgentStart = "waiting"
  Recorded = {"status"}
  Compliant = TRUE
  Inputs = {"STUDENT", "DOCENT", "request", "reply", "close"}
SPECIFICATION Spec
INVARIANT NeverCrashes
CHECK_DEADLOCK FALSE
