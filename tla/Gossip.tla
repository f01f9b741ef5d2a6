------------------------------- MODULE Gossip -------------------------------
(***************************************************************************)
(* The gossip control plane of a network of gsnet daemons                  *)
(* (internal/gossip over internal/transport, driven by internal/daemon).   *)
(*                                                                         *)
(* A node is one daemon.  Its goroutines are threads <<n, g>>: workers     *)
(* that run announceLocal and its callers, the heartbeat, and one reader   *)
(* per connection.  Steps are the code's critical sections: what happens   *)
(* between two acquisitions of Plane.mu, Graph.mu or Server.mu may         *)
(* interleave with every other thread.                                     *)
(***************************************************************************)
EXTENDS Naturals, Sequences, FiniteSets, Topology

CONSTANTS
  Node,       \* daemons, named by their node name
  Conn,       \* connection slots: a TCP connection uses one while it lives
  Dialer,     \* [Conn -> Node], the end that called Dial (ConnectTo)
  Acceptor,   \* [Conn -> Node], the end that accepted
  Worker,     \* goroutines of a daemon that may announce local facts
  Main,       \* the one that executes Run
  Heart,      \* the heartbeat goroutine
  Subnet,     \* subnets a node may own
  Addr,       \* addresses a Hello may carry (endpoint, inner, underlay)
  NoAddr,     \* an absent address
  NoEnv,      \* no envelope
  Confs,      \* configurations a reload may find on disk
  InitConf,   \* [Node -> Conf], the configuration on disk at first start
  InitHosts,  \* [Node -> SUBSET Node], the hosts/ directory of each node
  QueueCap,   \* envelopes the socket buffers of one direction hold
  Budget      \* how often each environment event, and any of them, may happen

Event == {"reload", "discover", "invite", "redial", "announce", "break", "crash",
          "heartbeat", "any"}

Conf == [addr : Addr \cup {NoAddr}, subnets : Seq(Subnet)]

ASSUME GossipAssumption ==
  /\ Dialer \in [Conn -> Node] /\ Acceptor \in [Conn -> Node]
  /\ \A c \in Conn : Dialer[c] # Acceptor[c]
  /\ Main \in Worker /\ Heart \notin Worker
  /\ Conn \cap (Worker \cup {Heart}) = {}
  /\ NoAddr \notin Addr
  /\ Confs \subseteq Conf /\ InitConf \in [Node -> Conf]
  /\ InitHosts \in [Node -> SUBSET Node]
  /\ QueueCap \in Nat \ {0} /\ Budget \in [Event -> Nat]

(***************************************************************************)
(* Facts and envelopes.  A fact has a stable ID <<origin, type, key>>; an  *)
(* envelope is a fact with the time stamp of one announcement of it.  The  *)
(* payload of a Hello is the node it names and its addresses; that of an   *)
(* edge or a subnet is determined by the ID.                               *)
(***************************************************************************)
HelloId(n) == <<n, "hello", n>>
SubnetId(n, s) == <<n, "subnet", s>>
EdgeId(n, m) == <<n, "edge", m>>

FactId == {HelloId(n) : n \in Node}
            \cup {SubnetId(n, s) : n \in Node, s \in Subnet}
            \cup {EdgeId(n, m) : n \in Node, m \in Node}
Origin(id) == id[1]

Hello(n, name, addr) ==
  [id |-> HelloId(n), kind |-> "AddNode", name |-> name, addr |-> addr]
SubnetFact(n, s, kind) ==
  [id |-> SubnetId(n, s), kind |-> kind, name |-> n, addr |-> NoAddr]
EdgeFact(n, m, kind) ==
  [id |-> EdgeId(n, m), kind |-> kind, name |-> n, addr |-> NoAddr]

Fact ==
  {Hello(n, m, x) : n \in Node, m \in Node, x \in Addr \cup {NoAddr}}
    \cup {SubnetFact(n, s, k) : n \in Node, s \in Subnet, k \in {"AddSubnet", "DelSubnet"}}
    \cup {EdgeFact(n, m, k) : n \in Node, m \in Node, k \in {"AddEdge", "DelEdge"}}
Envelope == [fact : Fact, ts : Nat]

(* What announceLocal originates, in order, from one snapshot of the       *)
(* configuration: the Hello, then every configured subnet.                 *)
Announcements(n, conf) ==
  <<Hello(n, n, conf.addr)>>
    \o [i \in 1..Len(conf.subnets) |-> SubnetFact(n, conf.subnets[i], "AddSubnet")]

-----------------------------------------------------------------------------
Thread == Node \X (Worker \cup {Heart} \cup Conn)
Ends(c) == {Dialer[c], Acceptor[c]}
Reader == {t \in Node \X Conn : t[1] \in Ends(t[2])}
Peer(n, c) == IF n = Dialer[c] THEN Acceptor[c] ELSE Dialer[c]

VARIABLES
  conf,     \* the loaded configuration and discovered address of each node
  hosts,    \* nodes whose hosts/<name> file gives their public key
  phase,    \* "down", "boot" (announceLocal before Serve) or "run"
  clock,    \* last reading of each node's clock
  seen,     \* dedup table: TS per fact ID, 0 for no entry
  outbox,   \* locally originated envelope per fact ID, or NoEnv
  topo,     \* the graph
  learned,  \* names in pubKeys
  addrs,    \* address learned from a Hello, per name
  pc, env, todo, resend, out,   \* program counter and locals of each thread
  open,     \* TCP connections established and not broken
  tracked,  \* connections in each node's broadcast pool
  chan,     \* envelopes on the way to the reader <<n, c>>
  budget,   \* environment events left
  minted    \* history: every envelope ever stamped

planeVars == <<seen, outbox, topo, learned, addrs>>
threadVars == <<pc, env, todo, resend, out>>
netVars == <<open, tracked, chan>>
envVars == <<conf, hosts, phase, budget>>
vars == <<planeVars, threadVars, netVars, envVars, clock, minted>>

GraphType == [nodes : SUBSET Node, adj : SUBSET (Node \X Node \X {1}),
              subnets : SUBSET (Node \X Subnet)]

TypeOK ==
  /\ conf \in [Node -> Conf] /\ hosts \in [Node -> SUBSET Node]
  /\ phase \in [Node -> {"down", "boot", "run"}]
  /\ clock \in [Node -> Nat]
  /\ seen \in [Node -> [FactId -> Nat]]
  /\ outbox \in [Node -> [FactId -> Envelope \cup {NoEnv}]]
  /\ topo \in [Node -> GraphType]
  /\ learned \in [Node -> SUBSET Node]
  /\ addrs \in [Node -> [Node -> Addr \cup {NoAddr}]]
  /\ pc \in [Thread -> {"idle", "store", "apply", "bcast", "send"}]
  /\ env \in [Thread -> Envelope \cup {NoEnv}]
  /\ todo \in [Thread -> Seq(Fact)] /\ resend \in [Thread -> SUBSET Envelope]
  /\ out \in [Thread -> SUBSET Conn]
  /\ open \subseteq Conn /\ tracked \in [Node -> SUBSET Conn]
  /\ chan \in [Reader -> Seq(Envelope)]
  /\ budget \in [Event -> Nat]
  /\ minted \subseteq Envelope

Init ==
  /\ conf = InitConf /\ hosts = InitHosts
  /\ phase = [n \in Node |-> "down"]
  /\ clock = [n \in Node |-> 0]
  /\ seen = [n \in Node |-> [i \in FactId |-> 0]]
  /\ outbox = [n \in Node |-> [i \in FactId |-> NoEnv]]
  /\ topo = [n \in Node |-> EmptyGraph]
  /\ learned = [n \in Node |-> {}]
  /\ addrs = [n \in Node |-> [m \in Node |-> NoAddr]]
  /\ pc = [t \in Thread |-> "idle"] /\ env = [t \in Thread |-> NoEnv]
  /\ todo = [t \in Thread |-> <<>>] /\ resend = [t \in Thread |-> {}]
  /\ out = [t \in Thread |-> {}]
  /\ open = {} /\ tracked = [n \in Node |-> {}]
  /\ chan = [t \in Reader |-> <<>>]
  /\ budget = Budget /\ minted = {}

Idle(t) == pc[t] = "idle" /\ todo[t] = <<>> /\ resend[t] = {}
Spend(e) ==
  /\ \A x \in {e, "any"} : budget[x] > 0
  /\ budget' = [x \in Event |-> IF x \in {e, "any"} THEN budget[x] - 1 ELSE budget[x]]

-----------------------------------------------------------------------------
(* originate(), section by section.                                        *)

(* A thread begins an announcement: the facts are fixed here, the time     *)
(* stamps only when each one's turn comes.                                 *)
Begin(t, facts) == todo' = [todo EXCEPT ![t] = facts]

(* Mutant: a clock that does not tick between two announcements.           *)
CoarseTSNow(n) == 1

(* TSNow(): every reading of the nanosecond clock is later than the last.  *)
TSNow(n) == clock[n] + 1

(* The envelope is built, stamped and signed before the lock is taken.     *)
Stamp(t) ==
  LET n == t[1]
      e == [fact |-> Head(todo[t]), ts |-> TSNow(n)]
  IN /\ pc[t] = "idle" /\ todo[t] # <<>>
     /\ clock' = [clock EXCEPT ![n] = TSNow(n)]
     /\ env' = [env EXCEPT ![t] = e] /\ minted' = minted \cup {e}
     /\ todo' = [todo EXCEPT ![t] = Tail(@)]
     /\ pc' = [pc EXCEPT ![t] = "store"]
     /\ UNCHANGED <<planeVars, netVars, envVars, resend, out>>

(* Mutant: the outbox keeps the first version of a fact.                   *)
StoreFirst(t) ==
  LET n == t[1] id == env[t].fact.id
  IN /\ pc[t] = "store"
     /\ outbox' = [outbox EXCEPT ![n][id] = IF @ = NoEnv THEN env[t] ELSE @]
     /\ seen' = [seen EXCEPT ![n][id] = env[t].ts]
     /\ pc' = [pc EXCEPT ![t] = "apply"]
     /\ UNCHANGED <<topo, learned, addrs, netVars, envVars, clock, minted,
                    env, todo, resend, out>>

(* The critical section that files the envelope in outbox and seen.        *)
Store(t) ==
  LET n == t[1] id == env[t].fact.id
  IN /\ pc[t] = "store"
     /\ outbox' = [outbox EXCEPT ![n][id] = env[t]]
     /\ seen' = [seen EXCEPT ![n][id] = env[t].ts]
     /\ pc' = [pc EXCEPT ![t] = "apply"]
     /\ UNCHANGED <<topo, learned, addrs, netVars, envVars, clock, minted,
                    env, todo, resend, out>>

(* Mutants: the arguments of AddSubnet swapped; a subnet of an unknown     *)
(* node ignored; a withdrawn subnet that stays; an address that never      *)
(* changes again.                                                          *)
SwappedSubnet(g, f) ==
  IF f.kind = "AddSubnet" THEN AddSubnet(g, f.id[3], Origin(f.id))
                          ELSE AddNode(g, f.name)
OrphanSubnetIgnored(g, f) ==
  CASE f.kind = "AddNode" -> AddNode(g, f.name)
    [] f.kind = "AddSubnet" /\ f.name \in g.nodes -> AddSubnet(g, f.name, f.id[3])
    [] OTHER -> g
WithdrawalIgnored(g, f) ==
  CASE f.kind = "AddNode" -> AddNode(g, f.name)
    [] f.kind = "AddSubnet" -> AddSubnet(g, Origin(f.id), f.id[3])
    [] OTHER -> g
FirstAddrKept(a, f) ==
  IF f.kind = "AddNode" /\ a[f.name] = NoAddr THEN [a EXCEPT ![f.name] = f.addr] ELSE a

(***************************************************************************)
(* apply(): the effect of a fact on the graph, the learned keys and the    *)
(* learned addresses.  An absent address leaves the old one in place.  No  *)
(* code path originates DelNode; receivers handle it all the same.         *)
(***************************************************************************)
ApplyGraph(g, f) ==
  LET o == Origin(f.id) k == f.id[3]
  IN CASE f.kind = "AddNode" -> AddNode(g, f.name)
       [] f.kind = "DelNode" -> DropEdgesOf(g, f.name)
       [] f.kind = "AddEdge" -> AddEdge(g, o, k, 1)
       [] f.kind = "DelEdge" -> DelEdge(g, o, k)
       [] f.kind = "AddSubnet" -> AddSubnet(g, o, k)
       [] f.kind = "DelSubnet" -> DelSubnet(g, o, k)

ApplyKeys(names, f) ==
  CASE f.kind = "AddNode" -> names \cup {f.name}
    [] f.kind = "DelNode" -> names \ {f.name}
    [] OTHER -> names

ApplyAddrs(a, f) ==
  CASE f.kind = "AddNode" /\ f.addr # NoAddr -> [a EXCEPT ![f.name] = f.addr]
    [] f.kind = "DelNode" -> [a EXCEPT ![f.name] = NoAddr]
    [] OTHER -> a

Apply(t) ==
  LET n == t[1] f == env[t].fact
  IN /\ pc[t] = "apply"
     /\ topo' = [topo EXCEPT ![n] = ApplyGraph(@, f)]
     /\ learned' = [learned EXCEPT ![n] = ApplyKeys(@, f)]
     /\ addrs' = [addrs EXCEPT ![n] = ApplyAddrs(@, f)]
     /\ pc' = [pc EXCEPT ![t] = "bcast"]
     /\ UNCHANGED <<seen, outbox, netVars, envVars, clock, minted,
                    env, todo, resend, out>>

(***************************************************************************)
(* Broadcast(): copy the pool under Server.mu, then write to each          *)
(* connection in turn.  A full socket buffer blocks the writer; a write to *)
(* a broken connection is dropped.  The copy is taken with the first       *)
(* write.  After the last one the thread returns to its loop.              *)
(***************************************************************************)
Pool(t) == IF pc[t] = "bcast" THEN tracked[t[1]] ELSE out[t]

Return(t) ==
  /\ pc' = [pc EXCEPT ![t] = "idle"] /\ env' = [env EXCEPT ![t] = NoEnv]
  /\ out' = [out EXCEPT ![t] = {}]

Send(t, c) ==
  LET to == <<Peer(t[1], c), c>>
  IN /\ pc[t] \in {"bcast", "send"} /\ c \in Pool(t)
     /\ \/ c \in open /\ Len(chan[to]) < QueueCap
           /\ chan' = [chan EXCEPT ![to] = Append(@, env[t])]
        \/ c \notin open /\ UNCHANGED chan
     /\ \/ Pool(t) = {c} /\ Return(t)
        \/ /\ Pool(t) # {c}
           /\ pc' = [pc EXCEPT ![t] = "send"]
           /\ out' = [out EXCEPT ![t] = Pool(t) \ {c}] /\ UNCHANGED env
     /\ UNCHANGED <<planeVars, open, tracked, envVars, clock, minted, todo, resend>>

(* Nobody is connected.                                                    *)
SendNone(t) ==
  /\ pc[t] = "bcast" /\ Pool(t) = {}
  /\ Return(t)
  /\ UNCHANGED <<planeVars, netVars, envVars, clock, minted, todo, resend>>

-----------------------------------------------------------------------------
(***************************************************************************)
(* ResendOutbox(): snapshot under the lock, then one Broadcast each.  The  *)
(* period is 30 s: a round begins when the network has gone quiet, except  *)
(* for as many rounds as the budget lets overlap other traffic.            *)
(***************************************************************************)
Quiet == (\A t \in Thread : Idle(t)) /\ \A t \in Reader : chan[t] = <<>>

(* Mutants: the heartbeat repeats only subnets, or only Hellos.            *)
OutboxSubnets(n) == {outbox[n][SubnetId(n, s)] : s \in Subnet} \ {NoEnv}
OutboxHellos(n) == {outbox[n][HelloId(n)]} \ {NoEnv}

OutboxOf(n) == {outbox[n][i] : i \in FactId} \ {NoEnv}

Heartbeat(n) ==
  LET t == <<n, Heart>>
  IN /\ phase[n] = "run" /\ Idle(t)
     /\ \/ Quiet /\ UNCHANGED budget
        \/ ~Quiet /\ Spend("heartbeat")
     /\ resend' = [resend EXCEPT ![t] = OutboxOf(n)]
     /\ UNCHANGED <<planeVars, netVars, conf, hosts, phase, clock, minted,
                    pc, env, todo, out>>

Resend(n) ==
  LET t == <<n, Heart>>
  IN /\ pc[t] = "idle"
     /\ \E e \in resend[t] :
          /\ env' = [env EXCEPT ![t] = e]
          /\ resend' = [resend EXCEPT ![t] = @ \ {e}]
     /\ pc' = [pc EXCEPT ![t] = "bcast"]
     /\ UNCHANGED <<planeVars, netVars, envVars, clock, minted, todo, out>>

(* Mutants: hosts/ not consulted; any other time stamp wins.               *)
VerifyLearned(n, e) == Origin(e.fact.id) \in learned[n]
OtherWins(n, e) == e.ts # seen[n][e.fact.id]

(* lookupPubKey(): hosts/<origin> gives a key (a node has its own).        *)
LookupPubKey(n, o) == o \in hosts[n]

(* verify(): the origin's key is in hosts/ or was learned from a Hello.    *)
Verify(n, e) == LookupPubKey(n, Origin(e.fact.id)) \/ Origin(e.fact.id) \in learned[n]

(* claim(): a strictly newer time stamp wins.                              *)
Newer(n, e) == e.ts > seen[n][e.fact.id]

(* Receive() by the reader of one connection: verify, then claim or drop.  *)
Receive(t) ==
  LET n == t[1] e == Head(chan[t])
  IN /\ t[2] \in tracked[n] /\ pc[t] = "idle" /\ chan[t] # <<>>
     /\ chan' = [chan EXCEPT ![t] = Tail(@)]
     /\ IF Verify(n, e) /\ Newer(n, e)
        THEN /\ seen' = [seen EXCEPT ![n][e.fact.id] = e.ts]
             /\ env' = [env EXCEPT ![t] = e]
             /\ pc' = [pc EXCEPT ![t] = "apply"]
        ELSE UNCHANGED <<seen, env, pc>>
     /\ UNCHANGED <<outbox, topo, learned, addrs, open, tracked, envVars,
                    clock, minted, todo, resend, out>>

-----------------------------------------------------------------------------
(* Daemon.Run on a configured node, one that has hosts/<self>:             *)
(* announceLocal completes before the transport serves.                    *)
Boot(n) ==
  /\ phase[n] = "down" /\ n \in hosts[n]
  /\ phase' = [phase EXCEPT ![n] = "boot"]
  /\ Begin(<<n, Main>>, Announcements(n, conf[n]))
  /\ UNCHANGED <<planeVars, netVars, conf, hosts, budget, clock, minted,
                 pc, env, resend, out>>

Serve(n) ==
  /\ phase[n] = "boot" /\ Idle(<<n, Main>>)
  /\ phase' = [phase EXCEPT ![n] = "run"]
  /\ UNCHANGED <<planeVars, threadVars, netVars, conf, hosts, budget, clock, minted>>

(* A worker of a serving daemon begins facts computed from configuration.  *)
Announce(n, w, facts) ==
  /\ phase[n] = "run" /\ Idle(<<n, w>>)
  /\ Begin(<<n, w>>, facts)
  /\ UNCHANGED <<planeVars, phase, clock, minted, pc, env, resend, out>>

(* SIGHUP or a control reload: load, then announceLocal.                   *)
Reload(n, w, c) ==
  /\ c # conf[n] /\ Spend("reload")
  /\ conf' = [conf EXCEPT ![n] = c]
  /\ Announce(n, w, Announcements(n, c))
  /\ UNCHANGED <<netVars, hosts>>

(* runDiscovery found a new address: Set reports a change, announceLocal.  *)
Discover(n, w, a) ==
  /\ a # conf[n].addr /\ Spend("discover")
  /\ conf' = [conf EXCEPT ![n].addr = a]
  /\ Announce(n, w, Announcements(n, [conf[n] EXCEPT !.addr = a]))
  /\ UNCHANGED <<netVars, hosts>>

(* The remaining exported announcements of Plane.                          *)
LocalFact(n) ==
  {SubnetFact(n, s, k) : s \in Subnet, k \in {"AddSubnet", "DelSubnet"}}
    \cup {EdgeFact(n, m, k) : m \in Node \ {n}, k \in {"AddEdge", "DelEdge"}}

AnnounceFact(n, w, f) ==
  /\ Spend("announce")
  /\ Announce(n, w, <<f>>)
  /\ UNCHANGED <<netVars, conf, hosts>>

(* Mutant: the inviter puts its own address into the Hello.                *)
InviteHelloWithAddr(n, m) == Hello(n, m, conf[n].addr)

InviteHello(n, m) == Hello(n, m, NoAddr)

(* handleInviteJoin registers m and announces a Hello that names m, under  *)
(* the inviter's own Hello ID.  The invitee's join command then writes its *)
(* own hosts/ directory.                                                   *)
InviteJoin(n, w, m) ==
  /\ m # n /\ m \notin hosts[m] /\ Spend("invite")
  /\ hosts' = [hosts EXCEPT ![n] = @ \cup {m}, ![m] = @ \cup {m, n}]
  /\ Announce(n, w, <<InviteHello(n, m)>>)
  /\ UNCHANGED <<netVars, conf>>

-----------------------------------------------------------------------------
(* hasOutbound(): a connection dialled by n to m is still in the pool.     *)
HasOutbound(n, m) == \E c \in tracked[n] : Dialer[c] = n /\ Acceptor[c] = m

(* No goroutine of either end refers to the slot's previous connection.    *)
Free(c) ==
  /\ c \notin open
  /\ \A n \in Ends(c) : c \notin tracked[n] /\ pc[<<n, c>>] = "idle"
  /\ \A t \in Thread : c \notin out[t]

(* Server.Dial(): a no-op when the outbound connection exists; otherwise   *)
(* connect, say GOSSIP and track.  A peer whose process is down refuses.   *)
Connect(n, c) ==
  \/ /\ HasOutbound(n, Acceptor[c]) /\ Spend("redial")
     /\ UNCHANGED netVars
  \/ /\ ~HasOutbound(n, Acceptor[c]) /\ Free(c)
     /\ phase[Acceptor[c]] # "down"
     /\ open' = open \cup {c}
     /\ tracked' = [tracked EXCEPT ![n] = @ \cup {c}]
     /\ UNCHANGED <<chan, budget>>

(* tryDialPeer: Dial, then announceLocal, whether or not it was a no-op.   *)
Dial(n, w, c) ==
  /\ Dialer[c] = n /\ Acceptor[c] \in hosts[n]
  /\ Connect(n, c)
  /\ Announce(n, w, Announcements(n, conf[n]))
  /\ UNCHANGED <<conf, hosts>>

(* handleInbound reads the GOSSIP line and adds the connection to the pool.*)
Accept(c) ==
  LET m == Acceptor[c]
  IN /\ c \in open /\ c \notin tracked[m] /\ phase[m] = "run"
     /\ tracked' = [tracked EXCEPT ![m] = @ \cup {c}]
     /\ UNCHANGED <<planeVars, threadVars, envVars, open, chan, clock, minted>>

(* A set of connections breaks.  What has arrived stays readable at an end *)
(* that goes on tracking its connection.                                   *)
Disconnect(cs) ==
  /\ open' = open \ cs
  /\ chan' = [t \in Reader |-> IF t[2] \in cs \ tracked'[t[1]] THEN <<>> ELSE chan[t]]

Break(c) ==
  /\ c \in open /\ Spend("break")
  /\ UNCHANGED <<planeVars, threadVars, tracked, conf, hosts, phase, clock, minted>>
  /\ Disconnect({c})

(* The reader of a broken connection gets an error, sooner or later, loses *)
(* what it has not read, and untracks the connection.                      *)
Untrack(t) ==
  /\ t[2] \in tracked[t[1]] /\ t[2] \notin open /\ pc[t] = "idle"
  /\ tracked' = [tracked EXCEPT ![t[1]] = @ \ {t[2]}]
  /\ chan' = [chan EXCEPT ![t] = <<>>]
  /\ UNCHANGED <<planeVars, threadVars, envVars, open, clock, minted>>

(* The process dies: everything but the files and the clock is lost.       *)
Crash(n) ==
  LET Reset(f, v) == [t \in Thread |-> IF t[1] = n THEN v ELSE f[t]]
  IN /\ phase[n] # "down" /\ Spend("crash")
     /\ phase' = [phase EXCEPT ![n] = "down"]
     /\ seen' = [seen EXCEPT ![n] = [i \in FactId |-> 0]]
     /\ outbox' = [outbox EXCEPT ![n] = [i \in FactId |-> NoEnv]]
     /\ topo' = [topo EXCEPT ![n] = EmptyGraph]
     /\ learned' = [learned EXCEPT ![n] = {}]
     /\ addrs' = [addrs EXCEPT ![n] = [m \in Node |-> NoAddr]]
     /\ pc' = Reset(pc, "idle") /\ env' = Reset(env, NoEnv)
     /\ todo' = Reset(todo, <<>>) /\ resend' = Reset(resend, {})
     /\ out' = Reset(out, {})
     /\ tracked' = [tracked EXCEPT ![n] = {}]
     /\ Disconnect({c \in Conn : n \in Ends(c)})
     /\ UNCHANGED <<conf, hosts, clock, minted>>

-----------------------------------------------------------------------------
Step(t) ==
  Stamp(t) \/ Store(t) \/ Apply(t) \/ SendNone(t) \/ \E c \in Conn : Send(t, c)

Operate(n, w) ==
  \/ \E c \in Confs : Reload(n, w, c)
  \/ \E a \in Addr : Discover(n, w, a)
  \/ \E f \in LocalFact(n) : AnnounceFact(n, w, f)
  \/ \E m \in Node : InviteJoin(n, w, m)

Next ==
  \/ \E t \in Thread : Step(t)
  \/ \E t \in Reader : Receive(t) \/ Untrack(t)
  \/ \E n \in Node : Heartbeat(n) \/ Resend(n) \/ Boot(n) \/ Serve(n) \/ Crash(n)
  \/ \E n \in Node, w \in Worker : Operate(n, w) \/ \E c \in Conn : Dial(n, w, c)
  \/ \E c \in Conn : Accept(c) \/ Break(c)

Spec == Init /\ [][Next]_vars

(* Goroutines are scheduled, maintainPeer keeps dialling until it is       *)
(* connected, and a stopped daemon is started again.  Each daemon's ticker *)
(* fires whatever the others do: a quiet network cannot stay quiet, nor be *)
(* taken by one node's rounds alone, so the heartbeat's fairness is strong.*)
Fairness ==
  /\ \A t \in Thread : WF_vars(Step(t))
  /\ \A t \in Reader : WF_vars(Receive(t)) /\ WF_vars(Untrack(t))
  /\ \A n \in Node : SF_vars(Heartbeat(n)) /\ WF_vars(Resend(n))
                      /\ WF_vars(Boot(n)) /\ WF_vars(Serve(n))
  /\ \A c \in Conn : WF_vars(Accept(c))
  /\ \A c \in Conn : WF_vars(~HasOutbound(Dialer[c], Acceptor[c])
                                /\ \E w \in Worker : Dial(Dialer[c], w, c))

FairSpec == Spec /\ Fairness

-----------------------------------------------------------------------------
(***************************************************************************)
(* Every envelope anywhere, on a connection, in an outbox or in the hands  *)
(* of a thread, is one its origin stamped (originate fixes ID, origin and  *)
(* TS once, relays pass them on unchanged), none is ahead of its origin's  *)
(* clock, and an origin speaks for another node only to introduce it,      *)
(* without an address.                                                     *)
(***************************************************************************)
OwnFact(n) == {f \in Fact : Origin(f.id) = n /\ (f.addr # NoAddr => f.name = n)}

TodoOwn == \A t \in Thread : todo[t] \in Seq(OwnFact(t[1]))
HeldMinted ==
  \A t \in Thread : /\ pc[t] # "idle" => env[t] \in minted
                    /\ pc[t] = "store" => Origin(env[t].fact.id) = t[1]
ResendMinted == \A t \in Thread : resend[t] \subseteq minted
OutboxMinted == \A n \in Node, id \in FactId : outbox[n][id] \in minted \cup {NoEnv}
ChanMinted == \A t \in Reader : chan[t] \in Seq(minted)
MintedOwn ==
  \A e \in minted : /\ e.fact \in OwnFact(Origin(e.fact.id))
                    /\ e.ts <= clock[Origin(e.fact.id)]
SeenBehindClock == \A n \in Node, id \in FactId : seen[n][id] <= clock[Origin(id)]

Provenance ==
  TodoOwn /\ HeldMinted /\ ResendMinted /\ OutboxMinted /\ ChanMinted
    /\ MintedOwn /\ SeenBehindClock

(* No two readers of a node work on the same version of a remote fact:     *)
(* Receive's claim makes apply and Broadcast run once per (id, ts), however*)
(* many connections deliver it.                                            *)
ClaimExclusive ==
  \A t, u \in Reader :
    /\ t # u /\ t[1] = u[1]
    /\ pc[t] # "idle" /\ pc[u] # "idle"
    /\ Origin(env[t].fact.id) # t[1]
    => <<env[t].fact.id, env[t].ts>> # <<env[u].fact.id, env[u].ts>>

(* What a node believes of m, its address and its subnets, m announced     *)
(* itself: no relay, crash or invitation on m's behalf puts words into     *)
(* m's mouth (apply() trusts the Hello's name, not the envelope's origin). *)
ViewIsOwn ==
  \A n, m \in Node :
    /\ addrs[n][m] # NoAddr =>
         \E e \in minted : /\ Origin(e.fact.id) = m /\ e.fact.kind = "AddNode"
                           /\ e.fact.name = m /\ e.fact.addr = addrs[n][m]
    /\ \A s \in Subnet : <<m, s>> \in topo[n].subnets =>
         \E e \in minted : e.fact.id = SubnetId(m, s) /\ e.fact.kind = "AddSubnet"

(* A version that the dedup table has recorded is in the graph, or the     *)
(* thread that claimed it is about to apply it, so dropping later copies   *)
(* of it loses nothing.  (Facts that were never withdrawn.)                *)
ClaimedIsApplied ==
  \A n \in Node : \A e \in minted :
    (/\ e.fact.kind = "AddSubnet" /\ seen[n][e.fact.id] = e.ts
     /\ ~ \E d \in minted : d.fact.id = e.fact.id /\ d.fact.kind = "DelSubnet")
    => \/ <<Origin(e.fact.id), e.fact.id[3]>> \in topo[n].subnets
       \/ \E t \in Thread : t[1] = n /\ pc[t] = "apply" /\ env[t].fact = e.fact

(* The plane implements replicated single-writer registers: seen is what   *)
(* each node has recorded and minted what was announced.  In particular    *)
(* every new announcement is newer than what any node has recorded for     *)
(* that fact, so no receiver drops it as a duplicate, across crashes and   *)
(* concurrent announcements; and the dedup table never goes back on a      *)
(* remote fact while the daemon lives.                                     *)
Registers == INSTANCE Replication WITH issued <- minted, known <- seen
ImplementsReplication == Registers!Spec

(* The dedup table never goes back at all, on the node's own facts either. *)
SeenIsHighest ==
  [][\A n \in Node, id \in FactId :
       phase'[n] # "down" => seen'[n][id] >= seen[n][id]]_vars

(* What a node believes says what a fact says: the address of a Hello in   *)
(* which its origin names itself, and whether the origin has a subnet.     *)
Reflects(n, f) ==
  LET m == Origin(f.id)
  IN  /\ f = Hello(m, m, f.addr) /\ f.addr # NoAddr => addrs[n][m] = f.addr
      /\ f.kind \in {"AddSubnet", "DelSubnet"} =>
           (<<m, f.id[3]>> \in topo[n].subnets <=> f.kind = "AddSubnet")

(* When a node is at rest, the addresses and subnets it holds are those of *)
(* the versions its dedup table records (claim and apply take the lock one *)
(* after the other, so another version may come between them).             *)
AtRest(n) == \A t \in Thread : t[1] = n => Idle(t)
ViewIsCurrent ==
  \A n \in Node : AtRest(n) =>
    \A e \in minted : e.ts = seen[n][e.fact.id] => Reflects(n, e.fact)

(* When a node is at rest, the Hello its heartbeat repeats is its own and  *)
(* carries its current address.                                            *)
OutboxIsCurrent ==
  \A n \in Node : phase[n] = "run" /\ AtRest(n) =>
    outbox[n][HelloId(n)].fact = Hello(n, n, conf[n].addr)

-----------------------------------------------------------------------------
(* Every fact in some node's outbox ends up recorded by every other node.  *)
ConvergedOn(n) ==
  \A m \in Node, id \in FactId :
    outbox[n][id] # NoEnv => seen[m][id] >= outbox[n][id].ts
Convergence == <>[](\A n \in Node : ConvergedOn(n))

(* The same for the facts of a node that dials nobody.  Redialling renews  *)
(* every fact of the others; such a node has its heartbeat alone.          *)
ListenerConvergence ==
  \A n \in Node : (\A c \in Conn : Dialer[c] # n) => <>[]ConvergedOn(n)

(* Every member ends up with the current address of every other member.    *)
Member(n) == n \in hosts[n]
AddressReachesPeers ==
  <>[](\A n, m \in Node :
         Member(n) /\ Member(m) /\ conf[n].addr # NoAddr
           => addrs[m][n] = conf[n].addr)

(* Every node ends up with exactly the subnets the others have configured. *)
SubnetsFollowConfig ==
  <>[](\A n, m \in Node, s \in Subnet :
         <<n, s>> \in topo[m].subnets <=> \E i \in DOMAIN conf[n].subnets : conf[n].subnets[i] = s)
=============================================================================
