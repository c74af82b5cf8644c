CONSTANTS
  Servers = {s1, s2, s3}
  Nobody = Nobody
  QueueSize = 1
  Interruptible = {s1}
SPECIFICATION FairSpec
INVARIANTS TypeOK OneServer ObjectsTogether CleanExit OwnChildren
PROPERTIES InterruptEnds GroupOwned
CHECK_DEADLOCK FALSE
