SPECIFICATION FairSpec
CONSTANTS
  c1 = c1
  c2 = c2
  bob = bob
  carol = carol
  r1 = r1
  r2 = r2
  r3 = r3
  m1 = m1
  m2 = m2
  Cookie = {c1, c2}
  Name = {bob, carol}
  InviteeOf <- Names
  Run = {r1, r2, r3}
  UrlOf <- Urls
  Machine = {m1, m2}
  On <- Retried
  NoKey = NoKey
  Budget <- OneOfEach
INVARIANTS TypeOK  AcceptedIsRegistered LoadableIsRegistered
PROPERTY JoinEnds
CHECK_DEADLOCK FALSE
