SPECIFICATION Spec
CONSTANTS
  p = p
  q = q
  kp = kp
  kr = kr
  kq = kq
  x1 = x1
  x2 = x2
  y1 = y1
  u1 = u1
  u2 = u2
  Peer = {p}
  Key = {kp, kr, kq}
  NoKey = NoKey
  Bcast = ff
  Addr = {x1, x2, y1, u1, u2}
  NoAddr = NoAddr
  AddrsOf <- OwnAddrs
  Caller = {g1, g2}
  Confs <- NoConfs
  InitConf <- Switch1
  Hosts <- SameHosts
  InitHosts <- FirstHosts
  MaxChange = 2
INVARIANT GossipIsApplied
