SPECIFICATION FairSpec
CONSTANTS
  p1 = p1
  p2 = p2
  Proc = {p1, p2}
  Client = {k1}
  Peer = {x1}
  None = None
  Request = {"simple", "dump", "stop"}
  Overlap = FALSE
  Faults = 1
INVARIANTS TypeOK ServingIsReachable Quiesced RightDaemon TidyExit
  
CHECK_DEADLOCK FALSE
