SPECIFICATION FairSpec
CONSTANTS
  q1 = q1
  q2 = q2
  Port = {q1, q2}
  Port1 = q1
  Addr = {a1, a2}
  NoEP = NoEP
  Idle = Idle
  Refresh = 2
  Lease = 5
  Dials = TRUE
  Budget <- Faulty
INVARIANTS TypeOK ForwardSurvives
PROPERTIES ForwardRestored EndpointFollows
CHECK_DEADLOCK FALSE
