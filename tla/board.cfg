CONSTANTS
  Clients = {c1, c2}
  Nobody = Nobody
  MaxCid = 3
  Contents = {text}
  Debug = TRUE
  AgentStart = "starting"
  Recorded = {}
  Compliant = FALSE
  Inputs = {"DOCENT", "STUDENT", "board", "clear", "request", "reply", "unknown"}
SPECIFICATION Spec
SYMMETRY ClientSymmetry
INVARIANTS NoTornCopy HandshakeBalanced OnlyInversionDeadlocks
CHECK_DEADLOCK FALSE
