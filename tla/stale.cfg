CONSTANTS
  Clients = {c1, c2}
  Nobody = Nobody
  MaxCid = 2
  Contents = {text}
  Debug = FALSE
  AgentStart = "waiting"
  Recorded = {"status", "shown"}
  Compliant = TRUE
  Inputs = {"STUDENT", "request", "board"}
SPECIFICATION Spec
INVARIANT BoardUpToDate
CHECK_DEADLOCK FALSE
