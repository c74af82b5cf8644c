CONSTANTS
  Clients = {c1, c2}
  Nobody = Nobody
  MaxCid = 2
  Contents = {}
  Debug = FALSE
  AgentStart = "waiting"
  Recorded = {"status"}
  Compliant = TRUE
  Inputs = {"STUDENT", "request"}
SPECIFICATION FairSpec
PROPERTY ChangeAnnounced
CHECK_DEADLOCK FALSE
