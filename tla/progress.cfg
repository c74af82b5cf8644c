CONSTANTS
  Clients = {c1, c2}
  Nobody = Nobody
  MaxCid = 2
  Contents = {text}
  Debug = FALSE
  AgentStart = "starting"
  Recorded = {}
  Compliant = FALSE
  Inputs = {"DOCENT", "clear", "unknown"}
SPECIFICATION FairSpec
PROPERTIES ClearCompletes LogoutCompletes TriggerServed
CHECK_DEADLOCK FALSE
