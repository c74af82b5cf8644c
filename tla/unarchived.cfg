CONSTANTS
  Clients = {c1, c2}
  Nobody = Nobody
  MaxCid = 2
  Contents = {text}
  Debug = FALSE
  AgentStart = "waiting"
  Recorded = {"status"}
  Compliant = TRUE
  Inputs = {"STUDENT", "DOCENT", "board", "clear", "request"}
SPECIFICATION Spec
PROPERTY ClearedIsArchived
CHECK_DEADLOCK FALSE
