CONSTANTS
  Clients = {c1, c2}
  Nobody = Nobody
  MaxCid = 2
  Contents = {text}
  Debug = FALSE
  AgentStart = "waiting"
  Recorded = {}
  Compliant = FALSE
  Inputs = {"STUDENT", "DOCENT", "board", "request", "reply", "shutdown", "close", "abort"}
SPECIFICATION Spec
SYMMETRY ClientSymmetry
INVARIANTS TypeOK ListMatchesThreads LocksMatchSections
 
CHECK_DEADLOCK FALSE
