CONSTANTS
  Clients = {c1, c2}
  Nobody = Nobody
  MaxCid = 2
  Contents = {text}
  Debug = FALSE
  AgentStart = "waiting"
  Recorded = {"status"}
  Compliant = TRUE
  Inputs = {"STUDENT", "DOCENT", "board", "request", "reply"}
SPECIFICATION Spec
INVARIANT LateWriterStays
CHECK_DEADLOCK FALSE
