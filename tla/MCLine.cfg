SPECIFICATION FairSpec
CONSTANTS
  a = a
  b = b
  c = c
  ab = ab
  ba = ba
  cb = cb
  a1 = a1
  a2 = a2
  s1 = s1
  Node = {a, b, c}
  Conn = {ba, cb}
  Dialer <- LineDialer
  Acceptor <- LineAcceptor
  Main = w1
  Worker = {w1}
  Heart = h
  Subnet = {s1}
  Addr = {a1, a2}
  NoAddr = NoAddr
  NoEnv = NoEnv
  Confs <- NoConfs
  InitConf <- BareConf
  InitHosts <- KnowAll
  QueueCap = 2
  Budget <- NoBudget
PROPERTY ListenerConvergence
