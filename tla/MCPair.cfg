SPECIFICATION FairSpec
CONSTANTS
  a = a
  b = b
  c = c
  ab = ab
  ba = ba
  cb = cb
  a1 = a1
  a2 = a2
  s1 = s1
  Node = {a, b}
  Conn = {ba}
  Dialer <- PairDialer
  Acceptor <- PairAcceptor
  Main = w1
  Worker = {w1}
  Heart = h
  Subnet = {s1}
  Addr = {a1, a2}
  NoAddr = NoAddr
  NoEnv = NoEnv
  Confs <- Moved
  InitConf <- PairConf
  InitHosts <- KnowAll
  QueueCap = 4
  Budget <- PairBudget
INVARIANTS TypeOK ClaimedIsApplied OutboxIsCurrent 
PROPERTIES ImplementsReplication  Convergence AddressReachesPeers 
