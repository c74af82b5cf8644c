CONSTANTS
  ResetLimits = {1}
  AlarmThreads = {"main", "listener"}
  Roles = {"STUDENT"}
  Incoming = {"status", "board", "close", "failure"}
  Clicks = {"type", "request", "quit_all"}
SPECIFICATION FairSpec
INVARIANTS TypeOK OnlyKnownHangs BoardUsedAlone EditCarried 
PROPERTIES MissedOnlyAtStart QuitCompletes
CHECK_DEADLOCK FALSE
