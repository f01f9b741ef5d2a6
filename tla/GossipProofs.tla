---------------------------- MODULE GossipProofs ----------------------------
(***************************************************************************)
(* Proofs about module Gossip, in three parts: its inductive invariant, and*)
(* what follows from it: types, the provenance of envelopes, that the      *)
(* gossip plane implements Replication, and that views are announced; who  *)
(* works on a fact, and what the dedup table and the outbox hold; and that *)
(* a node at rest has applied the last version of all it has recorded.     *)
(***************************************************************************)
EXTENDS Gossip, SequenceTheorems, TLAPS

-----------------------------------------------------------------------------
(* Facts are well formed: the ID decides which kinds are possible.         *)
LEMMA FactShape ==
  ASSUME NEW f \in Fact
  PROVE  /\ f.id \in FactId /\ Origin(f.id) \in Node
         /\ f.name \in Node /\ f.addr \in Addr \cup {NoAddr}
         /\ \/ f.kind = "AddNode"
            \/ f.kind \in {"AddSubnet", "DelSubnet"} /\ f.id[3] \in Subnet
                 /\ f.id = SubnetId(Origin(f.id), f.id[3])
            \/ f.kind \in {"AddEdge", "DelEdge"} /\ f.id[3] \in Node
BY DEF Fact, Hello, SubnetFact, EdgeFact, FactId, HelloId, SubnetId, EdgeId, Origin

(* The first component of a fact ID is a node.                             *)
LEMMA OriginOfId == ASSUME NEW id \in FactId PROVE Origin(id) \in Node
BY DEF FactId, HelloId, SubnetId, EdgeId, Origin

(* The constructors of facts yield facts, with the origin, name and address*)
(* they were given.                                                        *)
LEMMA FactIntro ==
  /\ \A n, m \in Node, x \in Addr \cup {NoAddr} :
       Hello(n, m, x) \in Fact /\ Origin(Hello(n, m, x).id) = n
         /\ Hello(n, m, x).name = m /\ Hello(n, m, x).addr = x
  /\ \A n \in Node, s \in Subnet, k \in {"AddSubnet", "DelSubnet"} :
       SubnetFact(n, s, k) \in Fact /\ Origin(SubnetFact(n, s, k).id) = n
         /\ SubnetFact(n, s, k).addr = NoAddr
  /\ \A n, m \in Node, k \in {"AddEdge", "DelEdge"} :
       EdgeFact(n, m, k) \in Fact /\ Origin(EdgeFact(n, m, k).id) = n
         /\ EdgeFact(n, m, k).addr = NoAddr
<1>1. ASSUME NEW n \in Node, NEW m \in Node, NEW x \in Addr \cup {NoAddr}
      PROVE  Hello(n, m, x) \in Fact
  BY DEF Fact
<1>2. ASSUME NEW n \in Node, NEW s \in Subnet, NEW k \in {"AddSubnet", "DelSubnet"}
      PROVE  SubnetFact(n, s, k) \in Fact
  BY DEF Fact
<1>3. ASSUME NEW n \in Node, NEW m \in Node, NEW k \in {"AddEdge", "DelEdge"}
      PROVE  EdgeFact(n, m, k) \in Fact
  BY DEF Fact
<1>. QED
  BY <1>1, <1>2, <1>3
  DEF Hello, HelloId, SubnetFact, SubnetId, EdgeFact, EdgeId, Origin

(* announceLocal speaks only for its own node.                             *)
LEMMA AnnouncementsOwn ==
  ASSUME NEW n \in Node, NEW cf \in Conf
  PROVE  Announcements(n, cf) \in Seq(OwnFact(n))
<1> DEFINE s == [i \in 1..Len(cf.subnets) |-> SubnetFact(n, cf.subnets[i], "AddSubnet")]
<1>1. Hello(n, n, cf.addr) \in OwnFact(n)
  BY FactIntro DEF OwnFact, Conf
<1>2. \A x \in Subnet : SubnetFact(n, x, "AddSubnet") \in OwnFact(n)
  BY FactIntro, ZenonT(20) DEF OwnFact
<1>3. cf.subnets \in Seq(Subnet)
  BY ZenonT(20) DEF Conf
<1>4. \A i \in 1..Len(cf.subnets) : cf.subnets[i] \in Subnet
  BY <1>3, ElementOfSeq, ZenonT(20)
<1>5. s \in Seq(OwnFact(n))
  <2>1. Len(cf.subnets) \in Nat
    BY <1>3, LenProperties, ZenonT(20)
  <2>2. s \in [1..Len(cf.subnets) -> OwnFact(n)]
    BY <1>2, <1>4, ZenonT(20)
  <2>. QED  BY <2>1, <2>2
<1>6. <<Hello(n, n, cf.addr)>> \in Seq(OwnFact(n))
  BY <1>1
<1>. QED
  BY <1>5, <1>6, ConcatProperties, ZenonT(20) DEF Announcements

(* What the announcements of Plane and handleInviteJoin originate, the node*)
(* may say of itself: the Hello for an invitee carries no address.         *)
LEMMA LocalFactOwn ==
  ASSUME NEW n \in Node
  PROVE  /\ LocalFact(n) \subseteq OwnFact(n)
         /\ \A m \in Node : InviteHello(n, m) \in OwnFact(n)
<1>1. \A m \in Node : InviteHello(n, m) \in OwnFact(n)
  BY FactIntro DEF OwnFact, InviteHello
<1>2. LocalFact(n) \subseteq OwnFact(n)
  BY FactIntro DEF LocalFact, OwnFact
<1>. QED  BY <1>1, <1>2, ZenonT(20)

(* The graph's operations keep it well formed.                             *)
LEMMA TopologyType ==
  ASSUME NEW g \in GraphType, NEW o \in Node
  PROVE  /\ \A s \in Subnet : AddSubnet(g, o, s) \in GraphType
         /\ \A m \in Node : AddEdge(g, o, m, 1) \in GraphType
<1>1. ASSUME NEW s \in Subnet PROVE AddSubnet(g, o, s) \in GraphType
  <2>1. g.nodes \cup {o} \in SUBSET Node
    BY ZenonT(20) DEF GraphType
  <2>2. g.subnets \cup {<<o, s>>} \in SUBSET (Node \X Subnet)
    BY DEF GraphType
  <2>. QED  BY <2>1, <2>2, ZenonT(20) DEF AddSubnet, GraphType
<1>2. ASSUME NEW m \in Node PROVE AddEdge(g, o, m, 1) \in GraphType
  <2>1. g.nodes \cup {o, m} \in SUBSET Node
    BY ZenonT(20) DEF GraphType
  <2>2. (g.adj \ Halves(g, o, m)) \cup {<<o, m, 1>>, <<m, o, 1>>}
          \in SUBSET (Node \X Node \X {1})
    BY DEF GraphType
  <2>. QED  BY <2>1, <2>2, ZenonT(20) DEF AddEdge, GraphType
<1>. QED  BY <1>1, <1>2, ZenonT(20)

(* apply() keeps the graph and the tables well formed.                     *)
LEMMA ApplyType ==
  ASSUME NEW f \in Fact
  PROVE  /\ \A g \in GraphType : ApplyGraph(g, f) \in GraphType
         /\ \A s \in SUBSET Node : ApplyKeys(s, f) \in SUBSET Node
         /\ \A a \in [Node -> Addr \cup {NoAddr}] :
              ApplyAddrs(a, f) \in [Node -> Addr \cup {NoAddr}]
<1>0. /\ f.id \in FactId /\ Origin(f.id) \in Node
      /\ f.name \in Node /\ f.addr \in Addr \cup {NoAddr}
      /\ \/ f.kind = "AddNode"
         \/ f.kind \in {"AddSubnet", "DelSubnet"} /\ f.id[3] \in Subnet
         \/ f.kind \in {"AddEdge", "DelEdge"} /\ f.id[3] \in Node
  BY FactShape, ZenonT(20)
<1>1. ASSUME NEW g \in GraphType PROVE ApplyGraph(g, f) \in GraphType
  <2>1. CASE f.kind = "AddNode"
    BY <1>0, <2>1, ZenonT(20) DEF ApplyGraph, AddNode, GraphType
  <2>2. CASE f.kind = "AddSubnet" /\ f.id[3] \in Subnet
    <3>1. ApplyGraph(g, f) = AddSubnet(g, Origin(f.id), f.id[3])
      BY <2>2, ZenonT(20) DEF ApplyGraph
    <3>. QED  BY <1>0, <2>2, <3>1, TopologyType, ZenonT(20)
  <2>3. CASE f.kind = "DelSubnet"
    BY <1>0, <2>3, ZenonT(20) DEF ApplyGraph, DelSubnet, GraphType
  <2>4. CASE f.kind = "AddEdge" /\ f.id[3] \in Node
    <3>1. ApplyGraph(g, f) = AddEdge(g, Origin(f.id), f.id[3], 1)
      BY <2>4, ZenonT(20) DEF ApplyGraph
    <3>. QED  BY <1>0, <2>4, <3>1, TopologyType, ZenonT(20)
  <2>5. CASE f.kind = "DelEdge"
    <3>1. ApplyGraph(g, f) = DelEdge(g, Origin(f.id), f.id[3])
      BY <2>5, ZenonT(20) DEF ApplyGraph
    <3>. QED  BY <1>0, <3>1, ZenonT(20) DEF DelEdge, Halves, GraphType
  <2>. QED  BY <1>0, <2>1, <2>2, <2>3, <2>4, <2>5, ZenonT(20)
<1>2. \A s \in SUBSET Node : ApplyKeys(s, f) \in SUBSET Node
  BY <1>0, ZenonT(20) DEF ApplyKeys
<1>3. \A a \in [Node -> Addr \cup {NoAddr}] :
        ApplyAddrs(a, f) \in [Node -> Addr \cup {NoAddr}]
  BY <1>0, ZenonT(20) DEF ApplyAddrs
<1>. QED  BY <1>1, <1>2, <1>3, ZenonT(20)

-----------------------------------------------------------------------------
IInv == TypeOK /\ Provenance

(* The invariant holds of daemons that have not been started.              *)
LEMMA InitInv == Init => IInv
<1> SUFFICES ASSUME Init PROVE IInv
  BY ZenonT(20)
<1> USE GossipAssumption
<1>1. TypeOK
  BY DEF Init, TypeOK, EmptyGraph, GraphType
<1>2. Provenance
  BY OriginOfId, EmptySeq
  DEF Init, Provenance, TodoOwn, HeldMinted, ResendMinted, OutboxMinted,
      ChanMinted, MintedOwn, SeenBehindClock
<1>. QED  BY <1>1, <1>2, ZenonT(20) DEF IInv

(* originate stamps a fact the node may announce with a clock reading beyond*)
(* all earlier ones, so the new envelope is minted and ahead of none.      *)
LEMMA StampInv ==
  ASSUME IInv, NEW t \in Thread, Stamp(t)
  PROVE  IInv'
<1> DEFINE n == t[1]
           f == Head(todo[t])
           e == [fact |-> f, ts |-> clock[n] + 1]
<1> USE DEF planeVars, netVars, envVars
<1>0. TypeOK /\ Provenance
  BY ZenonT(20) DEF IInv
<1>1. n \in Node /\ clock \in [Node -> Nat] /\ clock[n] \in Nat
  BY <1>0, ZenonT(20) DEF Thread, TypeOK
<1>2. f \in OwnFact(n) /\ Tail(todo[t]) \in Seq(OwnFact(n))
  BY <1>0, HeadTailProperties, ZenonT(20) DEF Provenance, TodoOwn, Stamp
<1>3. f \in Fact /\ Origin(f.id) = n
  BY <1>2, ZenonT(20) DEF OwnFact
<1>4. e \in Envelope /\ e.fact = f /\ e.ts = clock[n] + 1
  BY <1>1, <1>3 DEF Envelope
<1>5. /\ minted' = minted \cup {e} /\ clock' = [clock EXCEPT ![n] = @ + 1]
      /\ env' = [env EXCEPT ![t] = e] /\ pc' = [pc EXCEPT ![t] = "store"]
      /\ todo' = [todo EXCEPT ![t] = Tail(@)]
  BY ZenonT(20) DEF Stamp, TSNow
<1>6. \A m \in Node : clock'[m] \in Nat /\ clock[m] <= clock'[m]
  BY <1>1, <1>5
<1>7. TypeOK'
  <2>1. Tail(todo[t]) \in Seq(Fact)
    BY <1>0, HeadTailProperties, ZenonT(20) DEF TypeOK, Stamp
  <2>. QED  BY <1>0, <1>1, <1>4, <1>5, <2>1 DEF TypeOK, Stamp
<1>8. Provenance'
  <2>1. TodoOwn'
    BY <1>0, <1>2, <1>5, ZenonT(20) DEF Provenance, TodoOwn, TypeOK
  <2>2. HeldMinted'
    BY <1>0, <1>3, <1>4, <1>5, ZenonT(20) DEF Provenance, HeldMinted, TypeOK
  <2>3. ResendMinted' /\ OutboxMinted'
    BY <1>0, <1>5, ZenonT(20) DEF Provenance, ResendMinted, OutboxMinted, Stamp
  <2>4. ChanMinted'
    BY <1>0, <1>5, SeqMonotonic, ZenonT(20) DEF Provenance, ChanMinted, Stamp
  <2>5. MintedOwn'
    <3> SUFFICES ASSUME NEW d \in minted'
                 PROVE  /\ d.fact \in OwnFact(Origin(d.fact.id))
                        /\ d.ts <= clock'[Origin(d.fact.id)]
      BY DEF MintedOwn, OwnFact, Fact, Origin
    <3>1. CASE d = e
      BY <1>1, <1>2, <1>3, <1>4, <1>5, <3>1
    <3>2. CASE d \in minted
      <4>1. /\ d.fact \in OwnFact(Origin(d.fact.id)) /\ d.ts \in Nat
            /\ d.ts <= clock[Origin(d.fact.id)] /\ Origin(d.fact.id) \in Node
        BY <1>0, <3>2, FactShape, ZenonT(20) DEF Provenance, MintedOwn, TypeOK, Envelope
      <4>. QED  BY <1>1, <1>6, <4>1
    <3>. QED  BY <1>5, <3>1, <3>2, ZenonT(20)
  <2>6. SeenBehindClock'
    <3> SUFFICES ASSUME NEW m \in Node, NEW id \in FactId
                 PROVE  seen'[m][id] <= clock'[Origin(id)]
      BY ZenonT(20) DEF SeenBehindClock
    <3>1. seen'[m][id] \in Nat /\ seen'[m][id] <= clock[Origin(id)]
      BY <1>0, ZenonT(20) DEF TypeOK, Provenance, SeenBehindClock, Stamp
    <3>. QED  BY <1>1, <1>6, <3>1, OriginOfId
  <2>. QED  BY <2>1, <2>2, <2>3, <2>4, <2>5, <2>6, ZenonT(20) DEF Provenance
<1>. QED  BY <1>7, <1>8, ZenonT(20) DEF IInv

(* The facts a busy thread works on.                                       *)
LEMMA HeldFact ==
  ASSUME IInv, NEW t \in Thread, pc[t] # "idle"
  PROVE  /\ t[1] \in Node
         /\ env[t] \in minted /\ env[t] \in Envelope /\ env[t].fact \in Fact
         /\ env[t].ts \in Nat /\ env[t].fact.id \in FactId
         /\ env[t].ts <= clock[Origin(env[t].fact.id)]
<1>1. env[t] \in minted /\ env[t] \in Envelope
  BY ZenonT(20) DEF IInv, TypeOK, Provenance, HeldMinted
<1>2. env[t].fact \in Fact /\ env[t].ts \in Nat
  BY <1>1, ZenonT(20) DEF Envelope
<1>3. env[t].fact.id \in FactId
  BY <1>2, FactShape, ZenonT(20)
<1>4. env[t].ts <= clock[Origin(env[t].fact.id)]
  BY <1>1, ZenonT(20) DEF IInv, Provenance, MintedOwn
<1>. QED  BY <1>1, <1>2, <1>3, <1>4, ZenonT(20) DEF Thread

(* originate files an envelope of its own node, stamped before.            *)
LEMMA StoreInv ==
  ASSUME IInv, NEW t \in Thread, Store(t)
  PROVE  IInv'
<1> USE DEF netVars, envVars
<1>0. TypeOK /\ Provenance
  BY ZenonT(20) DEF IInv
<1>1. /\ t[1] \in Node
      /\ env[t] \in minted /\ env[t] \in Envelope /\ env[t].fact \in Fact
      /\ env[t].ts \in Nat /\ env[t].fact.id \in FactId
      /\ env[t].ts <= clock[Origin(env[t].fact.id)]
  BY HeldFact, ZenonT(20) DEF Store
<1>2. TypeOK'
  BY <1>0, <1>1, ZenonT(20) DEF TypeOK, Store
<1>3. Provenance'
  <2>1. TodoOwn' /\ ResendMinted' /\ ChanMinted' /\ MintedOwn'
    BY <1>0, ZenonT(20) DEF Provenance, TodoOwn, ResendMinted, ChanMinted, MintedOwn, Store
  <2>2. HeldMinted'
    BY <1>0, ZenonT(20) DEF TypeOK, Provenance, HeldMinted, Store
  <2>3. OutboxMinted'
    BY <1>0, <1>1, ZenonT(20) DEF TypeOK, Provenance, OutboxMinted, Store
  <2>4. SeenBehindClock'
    BY <1>0, <1>1, ZenonT(20) DEF TypeOK, Provenance, SeenBehindClock, Store
  <2>. QED  BY <2>1, <2>2, <2>3, <2>4, ZenonT(20) DEF Provenance
<1>. QED  BY <1>2, <1>3, ZenonT(20) DEF IInv

(* apply changes the graph, the keys and the addresses within their types. *)
LEMMA ApplyInv ==
  ASSUME IInv, NEW t \in Thread, Apply(t)
  PROVE  IInv'
<1> USE DEF netVars, envVars
<1>0. TypeOK /\ Provenance
  BY ZenonT(20) DEF IInv
<1>1. t[1] \in Node /\ env[t].fact \in Fact
  BY HeldFact, ZenonT(20) DEF Apply
<1>2. TypeOK'
  <2>1. /\ topo' \in [Node -> GraphType] /\ learned' \in [Node -> SUBSET Node]
        /\ addrs' \in [Node -> [Node -> Addr \cup {NoAddr}]]
    BY <1>0, <1>1, ApplyType, ZenonT(20) DEF TypeOK, Apply
  <2>. QED  BY <1>0, <2>1, ZenonT(20) DEF TypeOK, Apply
<1>3. Provenance'
  BY <1>0, ZenonT(20) DEF TypeOK, Provenance, TodoOwn, HeldMinted, ResendMinted, OutboxMinted,
              ChanMinted, MintedOwn, SeenBehindClock, Apply
<1>. QED  BY <1>2, <1>3, ZenonT(20) DEF IInv

(* Broadcast puts the envelope the thread holds, which is minted, in a queue.*)
LEMMA SendInv ==
  ASSUME IInv, NEW t \in Thread, NEW c \in Conn, Send(t, c)
  PROVE  IInv'
<1> DEFINE to == <<Peer(t[1], c), c>>
<1> USE DEF planeVars, envVars
<1>0. TypeOK /\ Provenance
  BY ZenonT(20) DEF IInv
<1>1. env[t] \in minted /\ env[t] \in Envelope
  BY HeldFact, ZenonT(20) DEF Send
<1>2. to \in Reader
  BY GossipAssumption, ZenonT(20) DEF Reader, Peer, Ends
<1>3. chan' \in [Reader -> Seq(Envelope)]
  <2>1. chan[to] \in Seq(Envelope)
    BY <1>0, <1>2, ZenonT(20) DEF TypeOK
  <2>2. Append(chan[to], env[t]) \in Seq(Envelope)
    BY <1>1, <2>1, AppendProperties, ZenonT(20)
  <2>3. chan' = chan \/ chan' = [chan EXCEPT ![to] = Append(chan[to], env[t])]
    BY ZenonT(20) DEF Send
  <2>. QED  BY <1>0, <2>2, <2>3, ZenonT(20) DEF TypeOK
<1>4. /\ pc' \in [Thread -> {"idle", "store", "apply", "bcast", "send"}]
      /\ env' \in [Thread -> Envelope \cup {NoEnv}] /\ out' \in [Thread -> SUBSET Conn]
  <2>1. t[1] \in Node /\ Pool(t) \in SUBSET Conn
    BY <1>0, ZenonT(20) DEF TypeOK, Pool, Thread
  <2>2. CASE Return(t)
    BY <1>0, <2>2, ZenonT(20) DEF TypeOK, Return
  <2>3. CASE /\ pc' = [pc EXCEPT ![t] = "send"] /\ out' = [out EXCEPT ![t] = Pool(t) \ {c}]
             /\ UNCHANGED env
    BY <1>0, <2>1, <2>3, ZenonT(20) DEF TypeOK
  <2>. QED  BY <2>2, <2>3, ZenonT(20) DEF Send
<1>5. TypeOK'
  BY <1>0, <1>3, <1>4, ZenonT(20) DEF TypeOK, Send
<1>6. Provenance'
  <2>1. TodoOwn' /\ ResendMinted' /\ OutboxMinted' /\ MintedOwn' /\ SeenBehindClock'
    BY <1>0, ZenonT(20) DEF Provenance, TodoOwn, ResendMinted, OutboxMinted, MintedOwn,
                SeenBehindClock, Send
  <2>2. HeldMinted'
    BY <1>0, ZenonT(20) DEF TypeOK, Provenance, HeldMinted, Send, Return
  <2>3. ChanMinted'
    <3>1. chan[to] \in Seq(minted)
      BY <1>0, <1>2, ZenonT(20) DEF Provenance, ChanMinted
    <3>2. Append(chan[to], env[t]) \in Seq(minted)
      BY <1>1, <3>1, AppendProperties, ZenonT(20)
    <3>3. chan' = chan \/ chan' = [chan EXCEPT ![to] = Append(chan[to], env[t])]
      BY ZenonT(20) DEF Send
    <3>4. \A r \in Reader : chan'[r] \in Seq(minted)
      BY <1>0, <3>2, <3>3, ZenonT(20) DEF TypeOK, Provenance, ChanMinted
    <3>. QED  BY <3>4, ZenonT(20) DEF ChanMinted, Send
  <2>. QED  BY <2>1, <2>2, <2>3, ZenonT(20) DEF Provenance
<1>. QED  BY <1>5, <1>6, ZenonT(20) DEF IInv

(* Broadcast to nobody only ends the announcement.                         *)
LEMMA SendNoneInv ==
  ASSUME IInv, NEW t \in Thread, SendNone(t)
  PROVE  IInv'
<1> USE DEF planeVars, netVars, envVars
<1>0. TypeOK /\ Provenance
  BY ZenonT(20) DEF IInv
<1>1. TypeOK'
  BY <1>0, ZenonT(20) DEF TypeOK, SendNone, Return
<1>2. Provenance'
  BY <1>0, ZenonT(20) DEF TypeOK, Provenance, TodoOwn, HeldMinted, ResendMinted, OutboxMinted,
              ChanMinted, MintedOwn, SeenBehindClock, SendNone, Return
<1>. QED  BY <1>1, <1>2, ZenonT(20) DEF IInv

(* Using up one event keeps the budget a budget.                           *)
LEMMA SpendType ==
  ASSUME budget \in [Event -> Nat], NEW e \in Event, Spend(e)
  PROVE  budget' \in [Event -> Nat]
<1>1. \A x \in Event : x \in {e, "any"} => budget[x] - 1 \in Nat
  BY DEF Spend
<1>. QED  BY <1>1, ZenonT(20) DEF Spend

(* The snapshot ResendOutbox takes of the outbox holds minted envelopes.   *)
LEMMA HeartbeatInv ==
  ASSUME IInv, NEW n \in Node, Heartbeat(n)
  PROVE  IInv'
<1> USE DEF planeVars, netVars
<1>0. TypeOK /\ Provenance
  BY ZenonT(20) DEF IInv
<1>1. OutboxOf(n) \subseteq minted /\ OutboxOf(n) \subseteq Envelope
  BY <1>0 DEF TypeOK, Provenance, OutboxMinted, OutboxOf
<1>2. budget' \in [Event -> Nat]
  <2>1. "heartbeat" \in Event
    BY ZenonT(20) DEF Event
  <2>2. UNCHANGED budget \/ Spend("heartbeat")
    BY ZenonT(20) DEF Heartbeat
  <2>. QED  BY <1>0, <2>1, <2>2, SpendType, ZenonT(20) DEF TypeOK
<1>3. TypeOK'
  BY <1>0, <1>1, <1>2, ZenonT(20) DEF TypeOK, Heartbeat
<1>4. Provenance'
  <2>1. ResendMinted'
    BY <1>0, <1>1, ZenonT(20) DEF TypeOK, Provenance, ResendMinted, Heartbeat
  <2>. QED
    BY <1>0, <2>1, ZenonT(20) DEF Provenance, TodoOwn, HeldMinted, OutboxMinted, ChanMinted,
                      MintedOwn, SeenBehindClock, Heartbeat
<1>. QED  BY <1>3, <1>4, ZenonT(20) DEF IInv

(* The heartbeat takes up one envelope of its snapshot.                    *)
LEMMA ResendInv ==
  ASSUME IInv, NEW n \in Node, Resend(n)
  PROVE  IInv'
<1> DEFINE t == <<n, Heart>>
<1> USE DEF planeVars, netVars, envVars
<1>0. TypeOK /\ Provenance
  BY ZenonT(20) DEF IInv
<1>1. t \in Thread
  BY ZenonT(20) DEF Thread
<1>2. PICK e \in resend[t] : /\ env' = [env EXCEPT ![t] = e]
                             /\ resend' = [resend EXCEPT ![t] = @ \ {e}]
  BY ZenonT(20) DEF Resend
<1>3. e \in minted /\ e \in Envelope
  BY <1>0, <1>1, ZenonT(20) DEF TypeOK, Provenance, ResendMinted
<1>4. TypeOK'
  BY <1>0, <1>1, <1>2, <1>3, ZenonT(20) DEF TypeOK, Resend
<1>5. Provenance'
  <2>1. ResendMinted'
    BY <1>0, <1>1, <1>2, ZenonT(20) DEF TypeOK, Provenance, ResendMinted, Resend
  <2>2. HeldMinted'
    BY <1>0, <1>1, <1>2, <1>3, ZenonT(20) DEF TypeOK, Provenance, HeldMinted, Resend
  <2>. QED
    BY <1>0, <2>1, <2>2, ZenonT(20) DEF Provenance, TodoOwn, OutboxMinted, ChanMinted,
                      MintedOwn, SeenBehindClock, Resend
<1>. QED  BY <1>4, <1>5, ZenonT(20) DEF IInv

(* Receive takes a minted envelope from a queue; recording its time stamp  *)
(* keeps the dedup table behind the clock of the origin.                   *)
LEMMA ReceiveInv ==
  ASSUME IInv, NEW t \in Reader, Receive(t)
  PROVE  IInv'
<1> DEFINE n == t[1]
           e == Head(chan[t])
<1> USE DEF envVars
<1>0. TypeOK /\ Provenance
  BY ZenonT(20) DEF IInv
<1>1. t \in Thread /\ n \in Node
  BY ZenonT(20) DEF Reader, Thread
<1>2. e \in minted /\ Tail(chan[t]) \in Seq(minted)
  BY <1>0, HeadTailProperties, ZenonT(20) DEF Provenance, ChanMinted, Receive
<1>3. Tail(chan[t]) \in Seq(Envelope)
  BY <1>0, HeadTailProperties, ZenonT(20) DEF TypeOK, Receive
<1>4. /\ e \in Envelope /\ e.fact \in Fact /\ e.ts \in Nat /\ e.fact.id \in FactId
      /\ e.ts <= clock[Origin(e.fact.id)]
  BY <1>0, <1>2, FactShape, ZenonT(20) DEF TypeOK, Envelope, Provenance, MintedOwn
<1>5. /\ chan' = [chan EXCEPT ![t] = Tail(@)]
      /\ \/ /\ seen' = [seen EXCEPT ![n][e.fact.id] = e.ts]
            /\ env' = [env EXCEPT ![t] = e] /\ pc' = [pc EXCEPT ![t] = "apply"]
         \/ UNCHANGED <<seen, env, pc>>
  BY ZenonT(20) DEF Receive
<1>6. TypeOK'
  <2>1. chan' \in [Reader -> Seq(Envelope)]
    BY <1>0, <1>3, <1>5, ZenonT(20) DEF TypeOK
  <2>2. /\ seen' \in [Node -> [FactId -> Nat]]
        /\ env' \in [Thread -> Envelope \cup {NoEnv}]
        /\ pc' \in [Thread -> {"idle", "store", "apply", "bcast", "send"}]
    <3>1. CASE UNCHANGED <<seen, env, pc>>
      BY <1>0, <3>1, ZenonT(20) DEF TypeOK
    <3>2. CASE /\ seen' = [seen EXCEPT ![n][e.fact.id] = e.ts]
               /\ env' = [env EXCEPT ![t] = e] /\ pc' = [pc EXCEPT ![t] = "apply"]
      <4>1. seen' \in [Node -> [FactId -> Nat]]
        BY <1>0, <1>1, <1>4, <3>2, ZenonT(20) DEF TypeOK
      <4>. QED  BY <1>0, <1>1, <1>4, <3>2, <4>1, ZenonT(20) DEF TypeOK
    <3>. QED  BY <1>5, <3>1, <3>2, ZenonT(20)
  <2>. QED  BY <1>0, <2>1, <2>2, ZenonT(20) DEF TypeOK, Receive
<1>7. Provenance'
  <2>1. TodoOwn' /\ ResendMinted' /\ OutboxMinted' /\ MintedOwn'
    BY <1>0, ZenonT(20) DEF Provenance, TodoOwn, ResendMinted, OutboxMinted, MintedOwn, Receive
  <2>2. HeldMinted'
    <3>1. minted' = minted
      BY ZenonT(20) DEF Receive
    <3>. QED
      BY <1>0, <1>1, <1>2, <1>5, <3>1, ZenonT(20) DEF TypeOK, Provenance, HeldMinted
  <2>3. ChanMinted'
    <3>1. minted' = minted
      BY ZenonT(20) DEF Receive
    <3>. QED  BY <1>0, <1>2, <1>5, <3>1, ZenonT(20) DEF TypeOK, Provenance, ChanMinted
  <2>4. SeenBehindClock'
    <3>1. clock' = clock
      BY ZenonT(20) DEF Receive
    <3>2. CASE UNCHANGED seen
      BY <1>0, <3>1, <3>2, ZenonT(20) DEF Provenance, SeenBehindClock
    <3>3. CASE seen' = [seen EXCEPT ![n][e.fact.id] = e.ts]
      BY <1>0, <1>1, <1>4, <3>1, <3>3, ZenonT(20) DEF TypeOK, Provenance, SeenBehindClock
    <3>. QED  BY <1>5, <3>2, <3>3, ZenonT(20)
  <2>. QED  BY <2>1, <2>2, <2>3, <2>4, ZenonT(20) DEF Provenance
<1>. QED  BY <1>6, <1>7, ZenonT(20) DEF IInv

-----------------------------------------------------------------------------
(* The steps that are not of threads.                                      *)


(* A worker beginning an announcement of facts of its own node.            *)
LEMMA BeginInv ==
  ASSUME IInv, NEW n \in Node, NEW w \in Worker, NEW facts \in Seq(OwnFact(n)),
         Begin(<<n, w>>, facts),
         UNCHANGED <<planeVars, clock, minted, pc, env, resend, out, chan>>,
         conf' \in [Node -> Conf], hosts' \in [Node -> SUBSET Node],
         phase' \in [Node -> {"down", "boot", "run"}], budget' \in [Event -> Nat],
         open' \subseteq Conn, tracked' \in [Node -> SUBSET Conn]
  PROVE  IInv'
<1> USE DEF planeVars
<1>0. TypeOK /\ Provenance
  BY ZenonT(20) DEF IInv
<1>1. <<n, w>> \in Thread /\ <<n, w>>[1] = n
  BY ZenonT(20) DEF Thread
<1>2. facts \in Seq(Fact)
  BY SeqMonotonic DEF OwnFact
<1>3. TypeOK'
  BY <1>0, <1>1, <1>2, ZenonT(20) DEF TypeOK, Begin
<1>4. Provenance'
  <2>1. TodoOwn'
    BY <1>0, <1>1, ZenonT(20) DEF TypeOK, Provenance, TodoOwn, Begin
  <2>. QED
    BY <1>0, <2>1, ZenonT(20) DEF Provenance, HeldMinted, ResendMinted, OutboxMinted, ChanMinted,
                      MintedOwn, SeenBehindClock
<1>. QED  BY <1>3, <1>4, ZenonT(20) DEF IInv

(* A daemon that starts begins to announce what it is configured to.       *)
LEMMA BootInv ==
  ASSUME IInv, NEW n \in Node, Boot(n)
  PROVE  IInv'
<1>1. Announcements(n, conf[n]) \in Seq(OwnFact(n))
  BY AnnouncementsOwn, ZenonT(20) DEF IInv, TypeOK
<1>2. Main \in Worker
  BY GossipAssumption, ZenonT(20)
<1>. QED
  BY <1>1, <1>2, BeginInv, ZenonT(20) DEF IInv, TypeOK, Boot, netVars

(* Starting to serve changes the phase only.                               *)
LEMMA ServeInv ==
  ASSUME IInv, NEW n \in Node, Serve(n)
  PROVE  IInv'
<1> USE DEF planeVars, threadVars, netVars
<1>1. TypeOK'
  BY ZenonT(20) DEF IInv, TypeOK, Serve
<1>2. Provenance'
  BY ZenonT(20) DEF IInv, Provenance, TodoOwn, HeldMinted, ResendMinted, OutboxMinted, ChanMinted,
         MintedOwn, SeenBehindClock, Serve
<1>. QED  BY <1>1, <1>2, ZenonT(20) DEF IInv

(* A reload, a discovered address, an announcement and an invitation each  *)
(* begin facts the node may announce.                                      *)
LEMMA OperateInv ==
  ASSUME IInv, NEW n \in Node, NEW w \in Worker, Operate(n, w)
  PROVE  IInv'
<1> USE DEF netVars
<1>0. TypeOK /\ conf[n] \in Conf
  BY ZenonT(20) DEF IInv, TypeOK
<1>1. ASSUME NEW cf \in Confs, Reload(n, w, cf) PROVE IInv'
  <2>1. cf \in Conf
    BY GossipAssumption, ZenonT(20)
  <2>2. Announcements(n, cf) \in Seq(OwnFact(n))
    BY <2>1, AnnouncementsOwn, ZenonT(20)
  <2>3. budget' \in [Event -> Nat]
    BY <1>0, <1>1, SpendType, ZenonT(20) DEF TypeOK, Reload, Event
  <2>4. conf' \in [Node -> Conf]
    BY <1>0, <1>1, <2>1, ZenonT(20) DEF TypeOK, Reload
  <2>. QED
    BY <1>0, <1>1, <2>2, <2>3, <2>4, BeginInv, ZenonT(20) DEF TypeOK, Reload, Announce
<1>2. ASSUME NEW a \in Addr, Discover(n, w, a) PROVE IInv'
  <2>1. [conf[n] EXCEPT !.addr = a] \in Conf
    BY <1>0, ZenonT(20) DEF Conf
  <2>2. Announcements(n, [conf[n] EXCEPT !.addr = a]) \in Seq(OwnFact(n))
    BY <2>1, AnnouncementsOwn, ZenonT(20)
  <2>3. budget' \in [Event -> Nat]
    BY <1>0, <1>2, SpendType, ZenonT(20) DEF TypeOK, Discover, Event
  <2>4. conf' \in [Node -> Conf]
    BY <1>0, <1>2, <2>1, ZenonT(20) DEF TypeOK, Discover
  <2>. QED
    BY <1>0, <1>2, <2>2, <2>3, <2>4, BeginInv, ZenonT(20) DEF TypeOK, Discover, Announce
<1>3. ASSUME NEW f \in LocalFact(n), AnnounceFact(n, w, f) PROVE IInv'
  <2>1. <<f>> \in Seq(OwnFact(n))
    BY LocalFactOwn
  <2>2. budget' \in [Event -> Nat]
    BY <1>0, <1>3, SpendType, ZenonT(20) DEF TypeOK, AnnounceFact, Event
  <2>. QED
    BY <1>0, <1>3, <2>1, <2>2, BeginInv, ZenonT(20) DEF TypeOK, AnnounceFact, Announce
<1>4. ASSUME NEW m \in Node, InviteJoin(n, w, m) PROVE IInv'
  <2>1. <<InviteHello(n, m)>> \in Seq(OwnFact(n))
    BY LocalFactOwn
  <2>2. budget' \in [Event -> Nat]
    BY <1>0, <1>4, SpendType, ZenonT(20) DEF TypeOK, InviteJoin, Event
  <2>3. hosts' \in [Node -> SUBSET Node]
    BY <1>0, <1>4, ZenonT(20) DEF TypeOK, InviteJoin
  <2>. QED
    BY <1>0, <1>4, <2>1, <2>2, <2>3, BeginInv, ZenonT(20) DEF TypeOK, InviteJoin, Announce
<1>. QED  BY <1>1, <1>2, <1>3, <1>4, ZenonT(20) DEF Operate

(* A dial opens at most one connection and begins announceLocal.           *)
LEMMA DialInv ==
  ASSUME IInv, NEW n \in Node, NEW w \in Worker, NEW c \in Conn, Dial(n, w, c)
  PROVE  IInv'
<1> USE DEF netVars
<1>0. TypeOK /\ conf[n] \in Conf
  BY ZenonT(20) DEF IInv, TypeOK
<1>1. Announcements(n, conf[n]) \in Seq(OwnFact(n))
  BY <1>0, AnnouncementsOwn, ZenonT(20)
<1>2. budget' \in [Event -> Nat]
  <2>1. Spend("redial") \/ UNCHANGED budget
    BY ZenonT(20) DEF Dial, Connect
  <2>2. "redial" \in Event
    BY ZenonT(20) DEF Event
  <2>. QED  BY <1>0, <2>1, <2>2, SpendType, ZenonT(20) DEF TypeOK
<1>3. open' \subseteq Conn /\ tracked' \in [Node -> SUBSET Conn] /\ chan' = chan
  <2>1. \/ UNCHANGED netVars
        \/ /\ open' = open \cup {c} /\ tracked' = [tracked EXCEPT ![n] = @ \cup {c}]
           /\ chan' = chan
    BY ZenonT(20) DEF Dial, Connect
  <2>2. open \subseteq Conn /\ tracked \in [Node -> SUBSET Conn] /\ tracked[n] \in SUBSET Conn
    BY <1>0, ZenonT(20) DEF TypeOK
  <2>3. tracked[n] \cup {c} \in SUBSET Conn
    BY <2>2, ZenonT(20)
  <2>. QED  BY <2>1, <2>2, <2>3, ZenonT(20)
<1>. QED
  BY <1>0, <1>1, <1>2, <1>3, BeginInv, ZenonT(20) DEF TypeOK, Dial, Announce

(* Connections come and go: threads, tables and clocks are untouched and   *)
(* queues can only be emptied.                                             *)
LEMMA LinkInv ==
  ASSUME IInv, UNCHANGED <<planeVars, threadVars, conf, hosts, phase, clock, minted>>,
         budget' \in [Event -> Nat],
         open' \subseteq Conn, tracked' \in [Node -> SUBSET Conn],
         \E lost \in SUBSET Reader :
           chan' = [t \in Reader |-> IF t \in lost THEN <<>> ELSE chan[t]]
  PROVE  IInv'
<1> USE DEF planeVars, threadVars
<1>0. TypeOK /\ Provenance
  BY ZenonT(20) DEF IInv
<1>1. /\ chan' \in [Reader -> Seq(Envelope)]
      /\ \A t \in Reader : chan'[t] \in Seq(minted)
  <2>1. PICK lost \in SUBSET Reader :
          chan' = [t \in Reader |-> IF t \in lost THEN <<>> ELSE chan[t]]
    BY ZenonT(20)
  <2>. QED  BY <1>0, <2>1, EmptySeq, ZenonT(20) DEF TypeOK, Provenance, ChanMinted
<1>2. TypeOK'
  BY <1>0, <1>1, ZenonT(20) DEF TypeOK
<1>3. Provenance'
  <2>1. ChanMinted'
    BY <1>1, ZenonT(20) DEF ChanMinted
  <2>. QED
    BY <1>0, <2>1, ZenonT(20) DEF Provenance, TodoOwn, HeldMinted, ResendMinted, OutboxMinted,
                      MintedOwn, SeenBehindClock
<1>. QED  BY <1>2, <1>3, ZenonT(20) DEF IInv

(* Accepting a connection loses nothing; breaking one may empty its queues.*)
LEMMA ConnInv ==
  ASSUME IInv, NEW c \in Conn, Accept(c) \/ Break(c)
  PROVE  IInv'
<1> USE DEF envVars
<1>0. TypeOK /\ Acceptor[c] \in Node
  BY GossipAssumption, ZenonT(20) DEF IInv
<1>1. CASE Accept(c)
  <2>1. \E lost \in SUBSET Reader :
          chan' = [t \in Reader |-> IF t \in lost THEN <<>> ELSE chan[t]]
    <3> DEFINE none == {t \in Reader : FALSE}
    <3>1. chan' = [t \in Reader |-> IF t \in none THEN <<>> ELSE chan[t]]
      BY <1>0, <1>1, ZenonT(20) DEF TypeOK, Accept
    <3>. QED  BY <3>1, ZenonT(20)
  <2>. QED  BY <1>0, <1>1, <2>1, LinkInv, ZenonT(20) DEF TypeOK, Accept
<1>2. CASE Break(c)
  <2>1. budget' \in [Event -> Nat]
    BY <1>0, <1>2, SpendType, ZenonT(20) DEF TypeOK, Break, Event
  <2>2. open' \subseteq Conn /\ tracked' = tracked
    BY <1>0, <1>2, ZenonT(20) DEF TypeOK, Break, Disconnect
  <2>3. \E lost \in SUBSET Reader :
          chan' = [t \in Reader |-> IF t \in lost THEN <<>> ELSE chan[t]]
    <3> DEFINE lost == {t \in Reader : t[2] \in {c} \ tracked'[t[1]]}
    <3>1. chan' = [t \in Reader |-> IF t \in lost THEN <<>> ELSE chan[t]]
      BY <1>2, ZenonT(20) DEF Break, Disconnect
    <3>. QED  BY <3>1, ZenonT(20)
  <2>. QED  BY <1>0, <1>2, <2>1, <2>2, <2>3, LinkInv, ZenonT(20) DEF TypeOK, Break
<1>. QED  BY <1>1, <1>2, ZenonT(20)

(* A reader that gives up its connection empties its own queue.            *)
LEMMA UntrackInv ==
  ASSUME IInv, NEW t \in Reader, Untrack(t)
  PROVE  IInv'
<1> USE DEF envVars
<1>0. TypeOK /\ t[1] \in Node
  BY ZenonT(20) DEF IInv, Reader
<1>1. chan' = [u \in Reader |-> IF u \in {t} THEN <<>> ELSE chan[u]]
  BY <1>0, ZenonT(20) DEF TypeOK, Untrack
<1>2. \E lost \in SUBSET Reader :
        chan' = [u \in Reader |-> IF u \in lost THEN <<>> ELSE chan[u]]
  BY <1>1, ZenonT(20)
<1>. QED  BY <1>0, <1>2, LinkInv, ZenonT(20) DEF TypeOK, Untrack

(* A crash resets the tables and threads of one node; what others hold stays*)
(* minted, and the clock does not go back.                                 *)
LEMMA CrashInv ==
  ASSUME IInv, NEW n \in Node, Crash(n)
  PROVE  IInv'
<1>0. TypeOK /\ Provenance
  BY ZenonT(20) DEF IInv
<1>1. budget' \in [Event -> Nat]
  BY <1>0, SpendType, ZenonT(20) DEF TypeOK, Crash, Event
<1>2. /\ chan' \in [Reader -> Seq(Envelope)]
      /\ \A t \in Reader : chan'[t] \in Seq(minted)
  BY <1>0, EmptySeq, ZenonT(20) DEF TypeOK, Provenance, ChanMinted, Crash, Disconnect
<1>3. /\ pc' = [t \in Thread |-> IF t[1] = n THEN "idle" ELSE pc[t]]
      /\ env' = [t \in Thread |-> IF t[1] = n THEN NoEnv ELSE env[t]]
      /\ todo' = [t \in Thread |-> IF t[1] = n THEN <<>> ELSE todo[t]]
      /\ resend' = [t \in Thread |-> IF t[1] = n THEN {} ELSE resend[t]]
      /\ out' = [t \in Thread |-> IF t[1] = n THEN {} ELSE out[t]]
  BY ZenonT(20) DEF Crash
<1>4. UNCHANGED <<conf, hosts, clock, minted>>
  BY ZenonT(20) DEF Crash
<1>5. TypeOK'
  <2>1. /\ pc' \in [Thread -> {"idle", "store", "apply", "bcast", "send"}]
        /\ env' \in [Thread -> Envelope \cup {NoEnv}]
        /\ todo' \in [Thread -> Seq(Fact)] /\ resend' \in [Thread -> SUBSET Envelope]
        /\ out' \in [Thread -> SUBSET Conn]
    BY <1>0, <1>3, EmptySeq, ZenonT(20) DEF TypeOK
  <2>2. /\ seen' \in [Node -> [FactId -> Nat]]
        /\ outbox' \in [Node -> [FactId -> Envelope \cup {NoEnv}]]
        /\ topo' \in [Node -> GraphType] /\ learned' \in [Node -> SUBSET Node]
        /\ addrs' \in [Node -> [Node -> Addr \cup {NoAddr}]]
    BY <1>0, ZenonT(20) DEF TypeOK, Crash, EmptyGraph, GraphType
  <2>3. /\ phase' \in [Node -> {"down", "boot", "run"}]
        /\ open' \subseteq Conn /\ tracked' \in [Node -> SUBSET Conn]
    BY <1>0, ZenonT(20) DEF TypeOK, Crash, Disconnect
  <2>. QED  BY <1>0, <1>1, <1>2, <1>4, <2>1, <2>2, <2>3, ZenonT(20) DEF TypeOK
<1>6. Provenance'
  <2>1. TodoOwn' /\ HeldMinted' /\ ResendMinted'
    BY <1>0, <1>3, <1>4, EmptySeq, ZenonT(20)
    DEF TypeOK, Provenance, TodoOwn, HeldMinted, ResendMinted
  <2>2. OutboxMinted'
    BY <1>0, <1>4, ZenonT(20) DEF TypeOK, Provenance, OutboxMinted, Crash
  <2>3. ChanMinted' /\ MintedOwn'
    BY <1>0, <1>2, <1>4, ZenonT(20) DEF Provenance, ChanMinted, MintedOwn
  <2>4. SeenBehindClock'
    BY <1>0, <1>4, OriginOfId DEF TypeOK, Provenance, SeenBehindClock, Crash
  <2>. QED  BY <2>1, <2>2, <2>3, <2>4, ZenonT(20) DEF Provenance
<1>. QED  BY <1>5, <1>6, ZenonT(20) DEF IInv

(* Every step, and stuttering, preserves the invariant.                    *)
LEMMA NextInv == IInv /\ [Next]_vars => IInv'
<1> SUFFICES ASSUME IInv, [Next]_vars PROVE IInv'
  BY ZenonT(20)
<1>1. CASE Next
  BY <1>1, StampInv, StoreInv, ApplyInv, SendInv, SendNoneInv, HeartbeatInv, ResendInv,
     ReceiveInv, BootInv, ServeInv, OperateInv, DialInv, ConnInv, UntrackInv, CrashInv
  DEF Next, Step
<1>2. CASE UNCHANGED vars
  BY <1>2, ZenonT(20) DEF vars, planeVars, threadVars, netVars, envVars, IInv, TypeOK, Provenance,
     TodoOwn, HeldMinted, ResendMinted, OutboxMinted, ChanMinted, MintedOwn,
     SeenBehindClock
<1>. QED  BY <1>1, <1>2, ZenonT(20)

(* The plane's state is always well formed.                                *)
THEOREM TypeCorrect == Spec => []TypeOK
<1>1. IInv => TypeOK
  BY ZenonT(20) DEF IInv
<1>. QED  BY <1>1, InitInv, NextInv, PTL DEF Spec

(* Every envelope in the network was stamped by its origin, no later than  *)
(* the origin's clock, whatever is relayed, lost, repeated or restarted.   *)
THEOREM ProvenanceHolds == Spec => []Provenance
<1>1. IInv => Provenance
  BY ZenonT(20) DEF IInv
<1>. QED  BY <1>1, InitInv, NextInv, PTL DEF Spec

-----------------------------------------------------------------------------
(* Only Stamp issues versions, only Store and Receive record them and only *)
(* Crash forgets them.                                                     *)
LEMMA OtherSteps ==
  ASSUME [Next]_vars,
         \A t \in Thread : ~Stamp(t) /\ ~Store(t), \A t \in Reader : ~Receive(t),
         \A n \in Node : ~Crash(n)
  PROVE  UNCHANGED <<seen, minted>>
<1> USE DEF planeVars
<1>1. ASSUME NEW t \in Thread, Step(t) PROVE UNCHANGED <<seen, minted>>
  BY <1>1, ZenonT(20) DEF Step, Apply, SendNone, Send
<1>2. ASSUME NEW t \in Reader, Untrack(t) PROVE UNCHANGED <<seen, minted>>
  BY <1>2, ZenonT(20) DEF Untrack
<1>3. ASSUME NEW n \in Node, Heartbeat(n) \/ Resend(n) \/ Boot(n) \/ Serve(n)
      PROVE  UNCHANGED <<seen, minted>>
  BY <1>3, ZenonT(20) DEF Heartbeat, Resend, Boot, Serve
<1>4. ASSUME NEW n \in Node, NEW w \in Worker,
             Operate(n, w) \/ \E c \in Conn : Dial(n, w, c)
      PROVE  UNCHANGED <<seen, minted>>
  BY <1>4, ZenonT(20) DEF Operate, Reload, Discover, AnnounceFact, InviteJoin, Dial, Announce
<1>5. ASSUME NEW c \in Conn, Accept(c) \/ Break(c) PROVE UNCHANGED <<seen, minted>>
  BY <1>5, ZenonT(20) DEF Accept, Break
<1>6. CASE UNCHANGED vars
  BY <1>6, ZenonT(20) DEF vars
<1>. QED  BY <1>1, <1>2, <1>3, <1>4, <1>5, <1>6, ZenonT(20) DEF Next

(* The plane implements replicated single-writer registers.                *)
THEOREM Refinement == Spec => ImplementsReplication
<1>1. Init => Registers!Init
  BY ZenonT(20) DEF Init, Registers!Init
<1>2. IInv /\ [Next]_vars => [Registers!Next]_<<minted, seen>>
  <2> SUFFICES ASSUME IInv, [Next]_vars
               PROVE  Registers!Next \/ UNCHANGED <<minted, seen>>
    BY ZenonT(20)
  <2>0. TypeOK /\ Provenance
    BY ZenonT(20) DEF IInv
  <2>1. ASSUME NEW t \in Thread, Stamp(t) PROVE Registers!Next
    <3> DEFINE n == t[1]
               f == Head(todo[t])
               e == [fact |-> f, ts |-> clock[n] + 1]
    <3>1. minted' = minted \cup {e} /\ seen' = seen /\ e.fact = f /\ e.ts = clock[n] + 1
      BY <2>1, ZenonT(20) DEF Stamp, TSNow, planeVars
    <3>2. n \in Node /\ clock[n] \in Nat
      BY <2>0, ZenonT(20) DEF Thread, TypeOK
    <3>3. f \in Fact /\ Origin(f.id) = n /\ f.id \in FactId
      <4>1. f \in OwnFact(n)
        BY <2>0, <2>1, HeadTailProperties, ZenonT(20) DEF Provenance, TodoOwn, Stamp
      <4>. QED  BY <4>1, FactShape, ZenonT(20) DEF OwnFact
    <3>4. ASSUME NEW d \in minted, d.fact.id = f.id PROVE d.ts < e.ts
      <4>1. d.ts \in Nat
        BY <2>0, ZenonT(20) DEF TypeOK, Envelope
      <4>2. d.ts <= clock[n]
        BY <2>0, <3>3, <3>4, ZenonT(20) DEF Provenance, MintedOwn
      <4>. QED  BY <3>1, <3>2, <4>1, <4>2
    <3>5. \A m \in Node : seen[m][f.id] < e.ts
      BY <2>0, <3>1, <3>2, <3>3 DEF TypeOK, Provenance, SeenBehindClock
    <3>6. Registers!Issue(e)
      BY <3>1, <3>4, <3>5, ZenonT(20) DEF Registers!Issue
    <3>. QED  BY <3>1, <3>6, ZenonT(20) DEF Registers!Next
  <2>2. ASSUME NEW t \in Thread, Store(t) PROVE Registers!Next
    <3>1. t[1] \in Node /\ env[t] \in minted /\ Origin(env[t].fact.id) = t[1]
      BY <2>0, <2>2, HeldFact, ZenonT(20) DEF Store, Provenance, HeldMinted
    <3>2. Registers!Record(t[1], env[t])
      BY <2>2, <3>1, ZenonT(20) DEF Store, Registers!Record, Registers!Writer, Origin
    <3>. QED  BY <3>1, <3>2, ZenonT(20) DEF Registers!Next
  <2>3. ASSUME NEW t \in Reader, Receive(t)
        PROVE  Registers!Next \/ UNCHANGED <<minted, seen>>
    <3> DEFINE e == Head(chan[t])
    <3>1. t[1] \in Node /\ e \in minted
      BY <2>0, <2>3, HeadTailProperties, ZenonT(20) DEF Provenance, ChanMinted, Receive, Reader
    <3>2. CASE Verify(t[1], e) /\ Newer(t[1], e)
      <4>1. e.ts \in Nat /\ e.fact.id \in FactId
        BY <2>0, <3>1, FactShape, ZenonT(20) DEF TypeOK, Envelope
      <4>2. seen[t[1]][e.fact.id] < e.ts
        BY <2>0, <3>1, <3>2, <4>1, ZenonT(20) DEF Newer, TypeOK
      <4>3. Registers!Record(t[1], e)
        BY <2>3, <3>2, <4>2, ZenonT(20) DEF Receive, Registers!Record
      <4>. QED  BY <3>1, <4>3, ZenonT(20) DEF Registers!Next
    <3>3. CASE ~(Verify(t[1], e) /\ Newer(t[1], e))
      BY <2>3, <3>3, ZenonT(20) DEF Receive
    <3>. QED  BY <3>2, <3>3, ZenonT(20)
  <2>4. ASSUME NEW n \in Node, Crash(n) PROVE Registers!Next
    <3>1. Registers!Forget(n)
      BY <2>4, ZenonT(20) DEF Crash, Registers!Forget
    <3>. QED  BY <3>1, ZenonT(20) DEF Registers!Next
  <2>. QED  BY <2>1, <2>2, <2>3, <2>4, OtherSteps, ZenonT(20)
<1>. QED
  BY <1>1, <1>2, InitInv, NextInv, PTL DEF Spec, ImplementsReplication, Registers!Spec

-----------------------------------------------------------------------------
(* Only Apply and Crash touch the view, and minted only grows.             *)
LEMMA ViewSteps ==
  ASSUME [Next]_vars, \A t \in Thread : ~Apply(t), \A n \in Node : ~Crash(n)
  PROVE  UNCHANGED <<topo, addrs>>
<1> USE DEF planeVars
<1>1. ASSUME NEW t \in Thread, Step(t) PROVE UNCHANGED <<topo, addrs>>
  BY <1>1, ZenonT(20) DEF Step, Stamp, Store, SendNone, Send
<1>2. ASSUME NEW t \in Reader, Receive(t) \/ Untrack(t) PROVE UNCHANGED <<topo, addrs>>
  BY <1>2, ZenonT(20) DEF Receive, Untrack
<1>3. ASSUME NEW n \in Node, Heartbeat(n) \/ Resend(n) \/ Boot(n) \/ Serve(n)
      PROVE  UNCHANGED <<topo, addrs>>
  BY <1>3, ZenonT(20) DEF Heartbeat, Resend, Boot, Serve
<1>4. ASSUME NEW n \in Node, NEW w \in Worker,
             Operate(n, w) \/ \E c \in Conn : Dial(n, w, c)
      PROVE  UNCHANGED <<topo, addrs>>
  BY <1>4, ZenonT(20) DEF Operate, Reload, Discover, AnnounceFact, InviteJoin, Dial, Announce
<1>5. ASSUME NEW c \in Conn, Accept(c) \/ Break(c) PROVE UNCHANGED <<topo, addrs>>
  BY <1>5, ZenonT(20) DEF Accept, Break
<1>6. CASE UNCHANGED vars
  BY <1>6, ZenonT(20) DEF vars
<1>. QED  BY <1>1, <1>2, <1>3, <1>4, <1>5, <1>6, ZenonT(20) DEF Next

(* No step forgets that an envelope was stamped.                           *)
LEMMA MintedGrows ==
  ASSUME [Next]_vars
  PROVE  minted \subseteq minted'
<1>1. ASSUME NEW t \in Thread, Stamp(t) \/ Store(t) PROVE minted \subseteq minted'
  BY <1>1, ZenonT(20) DEF Stamp, Store
<1>2. ASSUME NEW t \in Reader, Receive(t) PROVE minted \subseteq minted'
  BY <1>2, ZenonT(20) DEF Receive
<1>3. ASSUME NEW n \in Node, Crash(n) PROVE minted \subseteq minted'
  BY <1>3, ZenonT(20) DEF Crash
<1>. QED  BY <1>1, <1>2, <1>3, OtherSteps, ZenonT(20)

(* What apply() can put into a view: the fact's own address and subnet.    *)
LEMMA ApplyView ==
  ASSUME NEW f \in Fact, NEW g \in GraphType, NEW a \in [Node -> Addr \cup {NoAddr}],
         NEW m \in Node
  PROVE  /\ \/ ApplyAddrs(a, f)[m] \in {a[m], NoAddr}
            \/ f.kind = "AddNode" /\ f.name = m /\ f.addr = ApplyAddrs(a, f)[m]
                 /\ f.addr # NoAddr
         /\ \A s \in Subnet : <<m, s>> \in ApplyGraph(g, f).subnets =>
              \/ <<m, s>> \in g.subnets
              \/ f.kind = "AddSubnet" /\ f.id = SubnetId(m, s)
<1>0. /\ f.name \in Node
      /\ \/ f.kind = "AddNode"
         \/ f.kind \in {"AddSubnet", "DelSubnet"} /\ f.id[3] \in Subnet
              /\ f.id = SubnetId(Origin(f.id), f.id[3])
         \/ f.kind \in {"AddEdge", "DelEdge"}
  BY FactShape, ZenonT(20)
<1>1. \/ ApplyAddrs(a, f)[m] \in {a[m], NoAddr}
      \/ f.kind = "AddNode" /\ f.name = m /\ f.addr = ApplyAddrs(a, f)[m] /\ f.addr # NoAddr
  BY <1>0, ZenonT(20) DEF ApplyAddrs
<1>2. ASSUME NEW s \in Subnet, <<m, s>> \in ApplyGraph(g, f).subnets
      PROVE  \/ <<m, s>> \in g.subnets
             \/ f.kind = "AddSubnet" /\ f.id = SubnetId(m, s)
  <2>1. CASE f.kind = "AddNode"
    BY <1>2, <2>1, ZenonT(20) DEF ApplyGraph, AddNode, GraphType
  <2>2. CASE f.kind = "DelSubnet"
    BY <1>2, <2>2, ZenonT(20) DEF ApplyGraph, DelSubnet, GraphType
  <2>3. CASE f.kind = "AddEdge"
    <3>1. ApplyGraph(g, f) = AddEdge(g, Origin(f.id), f.id[3], 1)
      BY <2>3, ZenonT(20) DEF ApplyGraph
    <3>. QED  BY <1>2, <3>1, ZenonT(20) DEF AddEdge, GraphType
  <2>4. CASE f.kind = "DelEdge"
    <3>1. ApplyGraph(g, f) = DelEdge(g, Origin(f.id), f.id[3])
      BY <2>4, ZenonT(20) DEF ApplyGraph
    <3>. QED  BY <1>2, <3>1, ZenonT(20) DEF DelEdge, GraphType
  <2>5. CASE f.kind = "AddSubnet"
    <3>1. ApplyGraph(g, f) = AddSubnet(g, Origin(f.id), f.id[3])
      BY <2>5, ZenonT(20) DEF ApplyGraph
    <3>2. AddSubnet(g, Origin(f.id), f.id[3]).subnets
            = g.subnets \cup {<<Origin(f.id), f.id[3]>>}
      BY ZenonT(20) DEF AddSubnet, GraphType
    <3>3. <<m, s>> \in g.subnets \/ (m = Origin(f.id) /\ s = f.id[3])
      BY <1>2, <3>1, <3>2
    <3>4. f.id = SubnetId(Origin(f.id), f.id[3])
      BY <1>0, <2>5, ZenonT(20)
    <3>. QED  BY <2>5, <3>3, <3>4, ZenonT(20)
  <2>. QED  BY <1>0, <2>1, <2>2, <2>3, <2>4, <2>5, ZenonT(20)
<1>. QED  BY <1>1, <1>2, ZenonT(20)

(* The address and the subnets a node holds for m come from m itself.      *)
THEOREM ViewIsOwnHolds == Spec => []ViewIsOwn
<1>1. Init => ViewIsOwn
  BY DEF Init, ViewIsOwn, EmptyGraph
<1>2. IInv /\ ViewIsOwn /\ [Next]_vars => ViewIsOwn'
  <2> SUFFICES ASSUME IInv, ViewIsOwn, [Next]_vars,
                      NEW n \in Node, NEW m \in Node
               PROVE  /\ addrs'[n][m] # NoAddr =>
                           \E e \in minted' :
                             /\ Origin(e.fact.id) = m /\ e.fact.kind = "AddNode"
                             /\ e.fact.name = m /\ e.fact.addr = addrs'[n][m]
                      /\ \A s \in Subnet : <<m, s>> \in topo'[n].subnets =>
                           \E e \in minted' : /\ e.fact.id = SubnetId(m, s)
                                              /\ e.fact.kind = "AddSubnet"
    BY ZenonT(20) DEF ViewIsOwn
  <2>0. TypeOK /\ Provenance /\ minted \subseteq minted'
    BY MintedGrows, ZenonT(20) DEF IInv
  <2>1. CASE UNCHANGED <<topo[n], addrs[n]>>
    BY <2>0, <2>1 DEF ViewIsOwn
  <2>2. ASSUME NEW k \in Node, Crash(k), k = n
        PROVE  addrs'[n][m] = NoAddr /\ topo'[n].subnets = {}
    BY <2>0, <2>2, ZenonT(20) DEF Crash, TypeOK, EmptyGraph
  <2>3. ASSUME NEW k \in Node, Crash(k), k # n PROVE UNCHANGED <<topo[n], addrs[n]>>
    BY <2>0, <2>3, ZenonT(20) DEF Crash, TypeOK
  <2>4. ASSUME NEW t \in Thread, Apply(t), t[1] # n PROVE UNCHANGED <<topo[n], addrs[n]>>
    BY <2>0, <2>4, ZenonT(20) DEF Apply, TypeOK
  <2>5. ASSUME NEW t \in Thread, Apply(t), t[1] = n
        PROVE  /\ addrs'[n][m] # NoAddr =>
                    \E e \in minted' :
                      /\ Origin(e.fact.id) = m /\ e.fact.kind = "AddNode"
                      /\ e.fact.name = m /\ e.fact.addr = addrs'[n][m]
               /\ \A s \in Subnet : <<m, s>> \in topo'[n].subnets =>
                    \E e \in minted' : /\ e.fact.id = SubnetId(m, s)
                                       /\ e.fact.kind = "AddSubnet"
    <3> DEFINE f == env[t].fact
    <3>1. env[t] \in minted' /\ f \in Fact /\ f \in OwnFact(Origin(f.id))
      BY <2>0, <2>5, HeldFact, ZenonT(20) DEF Apply, Provenance, MintedOwn
    <3>2. /\ topo'[n] = ApplyGraph(topo[n], f) /\ addrs'[n] = ApplyAddrs(addrs[n], f)
          /\ topo[n] \in GraphType /\ addrs[n] \in [Node -> Addr \cup {NoAddr}]
      BY <2>0, <2>5, ZenonT(20) DEF Apply, TypeOK
    <3>3. ASSUME addrs'[n][m] # NoAddr
          PROVE  \E e \in minted' :
                   /\ Origin(e.fact.id) = m /\ e.fact.kind = "AddNode"
                   /\ e.fact.name = m /\ e.fact.addr = addrs'[n][m]
      <4>1. CASE addrs'[n][m] = addrs[n][m]
        BY <2>0, <3>3, <4>1 DEF ViewIsOwn
      <4>2. CASE f.kind = "AddNode" /\ f.name = m /\ f.addr = addrs'[n][m] /\ f.addr # NoAddr
        <5>1. Origin(f.id) = m
          BY <3>1, <4>2, ZenonT(20) DEF OwnFact
        <5>. QED  BY <3>1, <4>2, <5>1, ZenonT(20)
      <4>. QED  BY <3>1, <3>2, <3>3, <4>1, <4>2, ApplyView
    <3>4. ASSUME NEW s \in Subnet, <<m, s>> \in topo'[n].subnets
          PROVE  \E e \in minted' : e.fact.id = SubnetId(m, s) /\ e.fact.kind = "AddSubnet"
      <4>1. CASE <<m, s>> \in topo[n].subnets
        BY <2>0, <4>1 DEF ViewIsOwn
      <4>2. CASE f.kind = "AddSubnet" /\ f.id = SubnetId(m, s)
        BY <3>1, <4>2, ZenonT(20)
      <4>. QED  BY <3>1, <3>2, <3>4, <4>1, <4>2, ApplyView
    <3>. QED  BY <3>3, <3>4, ZenonT(20)
  <2>. QED  BY <2>1, <2>2, <2>3, <2>4, <2>5, ViewSteps, ZenonT(20)
<1>. QED  BY <1>1, <1>2, InitInv, NextInv, PTL DEF Spec

-----------------------------------------------------------------------------
(***************************************************************************)
(* Of the readers of a node one at most works on a version of a fact, and  *)
(* what a node has recorded of another it has applied or is applying.  If  *)
(* one goroutine of a daemon announces, the dedup table never goes back,   *)
(* and without invitations the outbox holds the current Hello.             *)
(***************************************************************************)

(* A fact under the ID of a subnet's is its addition or its withdrawal.    *)
LEMMA SameSubnet ==
  ASSUME NEW f \in Fact, NEW g \in Fact, f.kind = "AddSubnet", g.id = f.id,
         g.kind # "DelSubnet"
  PROVE  g = f
BY DEF Fact, Hello, SubnetFact, EdgeFact, HelloId, SubnetId, EdgeId

(* apply() adds the subnet of an addition, and takes one away only for its *)
(* withdrawal.                                                             *)
LEMMA ApplySubnets ==
  ASSUME NEW f \in Fact, NEW g \in GraphType, NEW e \in Fact, e.kind = "AddSubnet"
  PROVE  /\ /\ <<Origin(e.id), e.id[3]>> \in g.subnets
            /\ ~(f.kind = "DelSubnet" /\ f.id = e.id)
            => <<Origin(e.id), e.id[3]>> \in ApplyGraph(g, f).subnets
         /\ f = e => <<Origin(e.id), e.id[3]>> \in ApplyGraph(g, f).subnets
<1>1. e.id = SubnetId(Origin(e.id), e.id[3])
  BY FactShape
<1>2. CASE f.kind = "AddNode"
  BY <1>2 DEF ApplyGraph, AddNode, GraphType
<1>3. CASE f.kind = "AddEdge"
  BY <1>3, ZenonT(20) DEF ApplyGraph, AddEdge, GraphType
<1>4. CASE f.kind = "DelEdge"
  BY <1>4 DEF ApplyGraph, DelEdge, GraphType
<1>5. CASE f.kind = "AddSubnet"
  BY <1>5, ZenonT(20) DEF ApplyGraph, AddSubnet, GraphType
<1>6. CASE f.kind = "DelSubnet"
  <2>1. f.id = SubnetId(Origin(f.id), f.id[3])
    BY <1>6, FactShape
  <2>2. ApplyGraph(g, f).subnets = g.subnets \ {<<Origin(f.id), f.id[3]>>}
    BY <1>6 DEF ApplyGraph, DelSubnet, GraphType
  <2>. QED  BY <1>1, <1>6, <2>1, <2>2
<1>. QED  BY <1>2, <1>3, <1>4, <1>5, <1>6, FactShape

(* A version recorded for one fact leaves the entries of the others alone. *)
LEMMA SeenElsewhere ==
  ASSUME NEW s \in [Node -> [FactId -> Nat]], NEW m, NEW i, NEW v, NEW n \in Node,
         NEW j \in FactId, ~(m = n /\ i = j)
  PROVE  [s EXCEPT ![m][i] = v][n][j] = s[n][j]
OBVIOUS

-----------------------------------------------------------------------------
(* A reader announces nothing of its own, and what it works on is never    *)
(* ahead of the dedup table: that is why a second reader cannot claim it.  *)
ReaderInv ==
  \A t \in Reader :
    /\ todo[t] = <<>> /\ pc[t] # "store"
    /\ pc[t] # "idle" /\ Origin(env[t].fact.id) # t[1]
         => env[t].ts <= seen[t[1]][env[t].fact.id]

RInv == ReaderInv /\ ClaimExclusive

(* A step under which a reader at most returns to its loop and its node's  *)
(* dedup table does not go back on remote facts.                           *)
Tame(t) ==
  /\ todo'[t] = todo[t]
  /\ \/ pc'[t] = "idle"
     \/ /\ pc[t] # "idle" /\ pc'[t] # "store" /\ env'[t] = env[t]
        /\ \A id \in FactId : Origin(id) # t[1] => seen[t[1]][id] <= seen'[t[1]][id]

(* If every reader is left alone or starts on a version newer than what the*)
(* table had, no two readers come to hold the same version.                *)
LEMMA TameInv ==
  ASSUME IInv, IInv', RInv, \A t \in Reader : Tame(t)
  PROVE  RInv'
<1>1. Reader \subseteq Thread /\ \A t \in Reader : t[1] \in Node
  BY ZenonT(20) DEF Reader, Thread
<1>2. ReaderInv'
  <2> SUFFICES ASSUME NEW t \in Reader
               PROVE  /\ todo'[t] = <<>> /\ pc'[t] # "store"
                      /\ pc'[t] # "idle" /\ Origin(env'[t].fact.id) # t[1]
                           => env'[t].ts <= seen'[t[1]][env'[t].fact.id]
    BY ZenonT(20) DEF ReaderInv
  <2>1. todo'[t] = <<>> /\ pc'[t] # "store"
    BY ZenonT(20) DEF RInv, ReaderInv, Tame
  <2>2. ASSUME pc'[t] # "idle", Origin(env'[t].fact.id) # t[1]
        PROVE  env'[t].ts <= seen'[t[1]][env'[t].fact.id]
    <3>1. pc[t] # "idle" /\ env'[t] = env[t]
      BY <2>2, ZenonT(20) DEF Tame
    <3>2. env[t].ts \in Nat /\ env[t].fact.id \in FactId
      BY <1>1, <3>1, HeldFact, ZenonT(20)
    <3>3. env[t].ts <= seen[t[1]][env[t].fact.id]
      BY <2>2, <3>1, ZenonT(20) DEF RInv, ReaderInv
    <3>4. seen[t[1]][env[t].fact.id] <= seen'[t[1]][env[t].fact.id]
      BY <2>2, <3>1, <3>2, ZenonT(20) DEF Tame
    <3>5. seen[t[1]][env[t].fact.id] \in Nat /\ seen'[t[1]][env[t].fact.id] \in Nat
      BY <1>1, <3>2 DEF IInv, TypeOK
    <3>. QED  BY <3>1, <3>2, <3>3, <3>4, <3>5
  <2>. QED  BY <2>1, <2>2, ZenonT(20)
<1>3. ClaimExclusive'
  <2> SUFFICES ASSUME NEW t \in Reader, NEW u \in Reader, t # u, t[1] = u[1],
                      pc'[t] # "idle", pc'[u] # "idle", Origin(env'[t].fact.id) # t[1]
               PROVE  <<env'[t].fact.id, env'[t].ts>> # <<env'[u].fact.id, env'[u].ts>>
    BY ZenonT(20) DEF ClaimExclusive
  <2>1. pc[t] # "idle" /\ pc[u] # "idle" /\ env'[t] = env[t] /\ env'[u] = env[u]
    BY ZenonT(20) DEF Tame
  <2>. QED  BY <2>1, ZenonT(20) DEF RInv, ClaimExclusive
<1>. QED  BY <1>2, <1>3, ZenonT(20) DEF RInv

(* The claim: the reader's version was newer than any other reader's.      *)
LEMMA ClaimInv ==
  ASSUME IInv, IInv', RInv, NEW r \in Reader, Receive(r)
  PROVE  RInv'
<1> DEFINE n == r[1]
           e == Head(chan[r])
<1>0. TypeOK /\ TypeOK' /\ Provenance
  BY ZenonT(20) DEF IInv
<1>1. Reader \subseteq Thread /\ \A t \in Reader : t[1] \in Node
  BY ZenonT(20) DEF Reader, Thread
<1>2. CASE UNCHANGED <<seen, env, pc>>
  <2>1. \A t \in Reader : Tame(t)
    <3> SUFFICES ASSUME NEW t \in Reader PROVE Tame(t)
      BY ZenonT(20)
    <3>1. todo'[t] = todo[t] /\ pc'[t] = pc[t] /\ env'[t] = env[t] /\ pc[t] # "store"
      BY <1>2, ZenonT(20) DEF Receive, RInv, ReaderInv
    <3>2. \A id \in FactId : seen[t[1]][id] <= seen'[t[1]][id]
      BY <1>0, <1>1, <1>2 DEF TypeOK
    <3>. QED  BY <3>1, <3>2, ZenonT(20) DEF Tame
  <2>. QED  BY <2>1, TameInv, ZenonT(20)
<1>3. CASE /\ seen' = [seen EXCEPT ![n][e.fact.id] = e.ts] /\ Newer(n, e)
           /\ env' = [env EXCEPT ![r] = e] /\ pc' = [pc EXCEPT ![r] = "apply"]
  <2>1. e \in Envelope /\ e.ts \in Nat /\ e.fact.id \in FactId
    <3>1. e \in Envelope
      BY <1>0, HeadTailProperties, ZenonT(20) DEF TypeOK, Receive
    <3>. QED  BY <3>1, FactShape, ZenonT(20) DEF Envelope
  <2>2. /\ pc'[r] = "apply" /\ env'[r] = e /\ seen'[n][e.fact.id] = e.ts
        /\ seen[n][e.fact.id] \in Nat /\ seen[n][e.fact.id] < e.ts
    <3>1. n \in Node /\ r \in Thread
      BY <1>1, ZenonT(20)
    <3>2. pc'[r] = "apply" /\ env'[r] = e
      BY <1>0, <1>3, <3>1, ZenonT(20) DEF TypeOK
    <3>3. seen[n][e.fact.id] \in Nat /\ seen'[n][e.fact.id] = e.ts
      <4>1. seen[n] \in [FactId -> Nat] /\ n \in DOMAIN seen
        BY <1>0, <3>1, ZenonT(20) DEF TypeOK
      <4>2. seen'[n] = [seen[n] EXCEPT ![e.fact.id] = e.ts]
        BY <1>3, <4>1, ZenonT(20)
      <4>. QED  BY <2>1, <4>1, <4>2, ZenonT(20)
    <3>4. seen[n][e.fact.id] < e.ts
      BY <1>3, <2>1, <3>3, ZenonT(20) DEF Newer
    <3>. QED  BY <3>2, <3>3, <3>4, ZenonT(20)
  <2>3. \A t \in Reader : t # r => pc'[t] = pc[t] /\ env'[t] = env[t]
    BY <1>0, <1>1, <1>3, ZenonT(20) DEF TypeOK
  <2> HIDE DEF e
  <2>4. \A m \in Node, id \in FactId :
          seen[m][id] \in Nat /\ seen'[m][id] \in Nat /\ seen[m][id] <= seen'[m][id]
    <3> SUFFICES ASSUME NEW m \in Node, NEW id \in FactId
                 PROVE  /\ seen[m][id] \in Nat /\ seen'[m][id] \in Nat
                        /\ seen[m][id] <= seen'[m][id]
      BY ZenonT(20)
    <3>1. seen[m][id] \in Nat /\ seen'[m][id] \in Nat
      BY <1>0, ZenonT(20) DEF TypeOK
    <3>2. CASE m = n /\ id = e.fact.id
      <4>1. seen'[m][id] = e.ts /\ seen[m][id] < e.ts
        BY <2>2, <3>2, ZenonT(20)
      <4>. QED  BY <2>1, <3>1, <4>1
    <3>3. CASE ~(m = n /\ id = e.fact.id)
      <4>1. seen'[m][id] = seen[m][id]
        BY <1>0, <1>1, <1>3, <3>3 DEF TypeOK
      <4>. QED  BY <3>1, <4>1
    <3>. QED  BY <3>2, <3>3, ZenonT(20)
  <2>5. \A t \in Reader : todo'[t] = <<>> /\ pc'[t] # "store"
    BY <2>2, <2>3, ZenonT(20) DEF Receive, RInv, ReaderInv
  <2>6. ASSUME NEW t \in Reader, pc'[t] # "idle", t # r, Origin(env[t].fact.id) # t[1]
        PROVE  /\ env[t].ts \in Nat /\ env[t].fact.id \in FactId
               /\ env[t].ts <= seen[t[1]][env[t].fact.id]
    BY <1>1, <2>3, <2>6, HeldFact, ZenonT(20) DEF RInv, ReaderInv
  <2>7. ReaderInv'
    <3> SUFFICES ASSUME NEW t \in Reader, pc'[t] # "idle", Origin(env'[t].fact.id) # t[1]
                 PROVE  env'[t].ts <= seen'[t[1]][env'[t].fact.id]
      BY <2>5, ZenonT(20) DEF ReaderInv
    <3>1. CASE t = r
      BY <2>1, <2>2, <3>1
    <3>2. CASE t # r
      <4>1. env'[t] = env[t] /\ Origin(env[t].fact.id) # t[1]
        BY <2>3, <3>2, ZenonT(20)
      <4>2. /\ env[t].ts \in Nat /\ env[t].fact.id \in FactId
            /\ env[t].ts <= seen[t[1]][env[t].fact.id]
        BY <2>6, <3>2, <4>1, ZenonT(20)
      <4>. QED  BY <1>1, <2>4, <4>1, <4>2
    <3>. QED  BY <3>1, <3>2, ZenonT(20)
  <2>8. ClaimExclusive'
    <3> SUFFICES ASSUME NEW t \in Reader, NEW u \in Reader, t # u, t[1] = u[1],
                        pc'[t] # "idle", pc'[u] # "idle", Origin(env'[t].fact.id) # t[1]
                 PROVE  ~(env'[t].fact.id = env'[u].fact.id /\ env'[t].ts = env'[u].ts)
      BY ZenonT(20) DEF ClaimExclusive
    <3>1. CASE t = r
      <4>1. env'[t] = e /\ u # r /\ u[1] = n /\ env'[u] = env[u]
        BY <2>2, <2>3, <3>1, ZenonT(20)
      <4>2. ASSUME env[u].fact.id = e.fact.id PROVE env[u].ts < e.ts
        <5>1. Origin(env[u].fact.id) # u[1]
          BY <3>1, <4>1, <4>2, ZenonT(20)
        <5>2. env[u].ts \in Nat /\ env[u].ts <= seen[n][e.fact.id]
          BY <2>6, <4>1, <4>2, <5>1, ZenonT(20)
        <5>. QED  BY <2>1, <2>2, <5>2
      <4>. QED  BY <2>1, <4>1, <4>2
    <3>2. CASE u = r
      <4>1. t # r /\ t[1] = n /\ env'[t] = env[t] /\ Origin(env[t].fact.id) # t[1]
        BY <2>3, <3>2, ZenonT(20)
      <4>2. env[t].ts \in Nat /\ env[t].ts <= seen[n][env[t].fact.id]
        BY <2>6, <4>1, ZenonT(20)
      <4>3. env[t].fact.id = e.fact.id => env[t].ts < e.ts
        BY <2>1, <2>2, <4>2
      <4>4. env'[u] = e
        BY <2>2, <3>2, ZenonT(20)
      <4>. QED  BY <2>1, <4>1, <4>2, <4>3, <4>4
    <3>3. CASE t # r /\ u # r
      BY <2>3, <3>3 DEF RInv, ClaimExclusive
    <3>. QED  BY <3>1, <3>2, <3>3, ZenonT(20)
  <2>. QED  BY <2>7, <2>8, ZenonT(20) DEF RInv
<1>. QED  BY <1>2, <1>3, ZenonT(20) DEF Receive

(* Every other step is tame for every reader.                              *)
LEMMA OtherStepsTame ==
  ASSUME IInv, RInv, [Next]_vars, \A r \in Reader : ~Receive(r), NEW t \in Reader
  PROVE  Tame(t)
<1> USE DEF planeVars, threadVars, envVars
<1>0. TypeOK /\ Provenance /\ todo[t] = <<>> /\ pc[t] # "store"
  BY ZenonT(20) DEF IInv, RInv, ReaderInv
<1>1. t \in Thread /\ t[1] \in Node /\ t[2] \in Conn
  BY ZenonT(20) DEF Reader, Thread
<1>2. \A id \in FactId : seen[t[1]][id] \in Nat
  BY <1>0, <1>1, ZenonT(20) DEF TypeOK
<1>3. \A n : t # <<n, Heart>> /\ \A w \in Worker : t # <<n, w>>
  BY <1>1, GossipAssumption
<1>4. ASSUME todo'[t] = todo[t], pc'[t] = pc[t], env'[t] = env[t], seen' = seen
      PROVE  Tame(t)
  BY <1>0, <1>2, <1>4 DEF Tame
<1>5. ASSUME NEW u \in Thread, Stamp(u) PROVE Tame(t)
  <2>1. u # t
    BY <1>0, <1>5, ZenonT(20) DEF Stamp
  <2>. QED  BY <1>0, <1>1, <1>4, <1>5, <2>1, ZenonT(20) DEF Stamp, TypeOK
<1>6. ASSUME NEW u \in Thread, Store(u) PROVE Tame(t)
  <2>1. u # t
    BY <1>0, <1>6, ZenonT(20) DEF Store
  <2>2. Origin(env[u].fact.id) = u[1] /\ u[1] \in Node /\ env[u].fact.id \in FactId
    BY <1>0, <1>6, HeldFact, ZenonT(20) DEF Store, Provenance, HeldMinted
  <2>3. ASSUME NEW id \in FactId, Origin(id) # t[1]
        PROVE  seen'[t[1]][id] = seen[t[1]][id]
    BY <1>0, <1>1, <1>6, <2>2, <2>3, ZenonT(20) DEF Store, TypeOK
  <2>4. todo'[t] = todo[t] /\ pc'[t] = pc[t] /\ env'[t] = env[t]
    BY <1>0, <1>1, <1>6, <2>1, ZenonT(20) DEF Store, TypeOK
  <2>. QED  BY <1>0, <1>2, <2>3, <2>4 DEF Tame
<1>7. ASSUME NEW u \in Thread, Apply(u) PROVE Tame(t)
  <2>1. CASE u = t
    BY <1>0, <1>1, <1>2, <1>7, <2>1 DEF Apply, TypeOK, Tame
  <2>2. CASE u # t
    BY <1>0, <1>1, <1>4, <1>7, <2>2, ZenonT(20) DEF Apply, TypeOK
  <2>. QED  BY <2>1, <2>2, ZenonT(20)
<1>8. ASSUME NEW u \in Thread, SendNone(u) \/ \E c \in Conn : Send(u, c) PROVE Tame(t)
  <2>0. /\ seen' = seen /\ todo' = todo
        /\ \/ Return(u)
           \/ pc[u] # "idle" /\ pc' = [pc EXCEPT ![u] = "send"] /\ env' = env
    BY <1>8, ZenonT(20) DEF SendNone, Send
  <2>1. CASE u = t
    BY <1>0, <1>1, <1>2, <2>0, <2>1 DEF Return, TypeOK, Tame
  <2>2. CASE u # t
    BY <1>0, <1>1, <1>4, <2>0, <2>2, ZenonT(20) DEF Return, TypeOK
  <2>. QED  BY <2>1, <2>2, ZenonT(20)
<1>9. ASSUME NEW n \in Node, Heartbeat(n) \/ Resend(n) \/ Boot(n) \/ Serve(n)
      PROVE  Tame(t)
  <2>1. CASE Heartbeat(n) \/ Serve(n)
    BY <1>4, <2>1, ZenonT(20) DEF Heartbeat, Serve
  <2>2. CASE Resend(n)
    BY <1>0, <1>1, <1>3, <1>4, <2>2 DEF Resend, TypeOK
  <2>3. CASE Boot(n)
    BY <1>0, <1>1, <1>3, <1>4, <2>3, GossipAssumption, ZenonT(20) DEF Boot, Begin, TypeOK
  <2>. QED  BY <1>9, <2>1, <2>2, <2>3, ZenonT(20)
<1>10. ASSUME NEW n \in Node, NEW w \in Worker,
              Operate(n, w) \/ \E c \in Conn : Dial(n, w, c)
       PROVE  Tame(t)
  <2>1. \E facts : Announce(n, w, facts)
    BY <1>10, ZenonT(20) DEF Operate, Reload, Discover, AnnounceFact, InviteJoin, Dial
  <2>. QED  BY <1>0, <1>1, <1>3, <1>4, <2>1 DEF Announce, Begin, TypeOK
<1>11. ASSUME NEW n \in Node, Crash(n) PROVE Tame(t)
  <2>0. /\ pc' = [u \in Thread |-> IF u[1] = n THEN "idle" ELSE pc[u]]
        /\ env' = [u \in Thread |-> IF u[1] = n THEN NoEnv ELSE env[u]]
        /\ todo' = [u \in Thread |-> IF u[1] = n THEN <<>> ELSE todo[u]]
        /\ seen' = [seen EXCEPT ![n] = [i \in FactId |-> 0]]
    BY <1>11, ZenonT(20) DEF Crash
  <2>1. CASE t[1] = n
    BY <1>0, <1>1, <2>0, <2>1, ZenonT(20) DEF Tame
  <2>2. CASE t[1] # n
    <3>1. /\ todo'[t] = todo[t] /\ pc'[t] = pc[t] /\ env'[t] = env[t]
          /\ seen'[t[1]] = seen[t[1]]
      BY <1>0, <1>1, <2>0, <2>2, ZenonT(20) DEF TypeOK
    <3>. QED  BY <1>0, <1>2, <3>1 DEF Tame
  <2>. QED  BY <2>1, <2>2, ZenonT(20)
<1>12. ASSUME NEW c \in Conn, Accept(c) \/ Break(c) PROVE Tame(t)
  BY <1>4, <1>12, ZenonT(20) DEF Accept, Break
<1>13. ASSUME NEW r \in Reader, Untrack(r) PROVE Tame(t)
  BY <1>4, <1>13, ZenonT(20) DEF Untrack
<1>14. CASE UNCHANGED vars
  BY <1>4, <1>14, ZenonT(20) DEF vars
<1>. QED
  BY <1>5, <1>6, <1>7, <1>8, <1>9, <1>10, <1>11, <1>12, <1>13, <1>14, ZenonT(20) DEF Next, Step

(* However many connections deliver a version, one reader works on it.     *)
THEOREM ClaimExclusiveHolds == Spec => []ClaimExclusive
<1>1. Init => RInv
  BY DEF Init, RInv, ReaderInv, ClaimExclusive, Reader, Thread
<1>2. IInv /\ IInv' /\ RInv /\ [Next]_vars => RInv'
  BY ClaimInv, TameInv, OtherStepsTame, ZenonT(20)
<1>3. RInv => ClaimExclusive
  BY ZenonT(20) DEF RInv
<1>. QED  BY <1>1, <1>2, <1>3, InitInv, NextInv, PTL DEF Spec

-----------------------------------------------------------------------------
(***************************************************************************)
(* What was claimed is applied.                                            *)
(***************************************************************************)
(* The subnet of an envelope is in the graph, or a thread is about to put  *)
(* it there.  Every time stamp is above the 0 of a table just emptied.     *)
Done(n, e) ==
  \/ <<Origin(e.fact.id), e.fact.id[3]>> \in topo[n].subnets
  \/ \E t \in Thread : t[1] = n /\ pc[t] = "apply" /\ env[t].fact = e.fact

PInv == (\A e \in minted : e.ts > 0) /\ ClaimedIsApplied

(* A thread about to apply an envelope goes on to, unless it crashes.      *)
LEMMA Applying ==
  ASSUME TypeOK, [Next]_vars, NEW t \in Thread, pc[t] = "apply", ~Apply(t), ~Crash(t[1])
  PROVE  pc'[t] = "apply" /\ env'[t] = env[t]
<1> USE DEF planeVars, threadVars, envVars
<1>0. pc \in [Thread -> {"idle", "store", "apply", "bcast", "send"}]
      /\ env \in [Thread -> Envelope \cup {NoEnv}]
  BY DEF TypeOK
<1>1. ASSUME NEW u \in Thread, NEW v, NEW x, u # t, pc' = [pc EXCEPT ![u] = v],
             env' = [env EXCEPT ![u] = x] \/ env' = env
      PROVE  pc'[t] = pc[t] /\ env'[t] = env[t]
  BY <1>0, <1>1, ZenonT(20)
<1>2. ASSUME NEW u \in Thread, Step(u) PROVE pc'[t] = "apply" /\ env'[t] = env[t]
  <2>1. u # t
    BY <1>2, ZenonT(20) DEF Step, Stamp, Store, SendNone, Send
  <2>2. CASE Stamp(u) \/ Store(u) \/ Apply(u)
    BY <1>1, <2>1, <2>2, ZenonT(20) DEF Stamp, Store, Apply
  <2>3. CASE SendNone(u) \/ \E c \in Conn : Send(u, c)
    BY <1>1, <2>1, <2>3, ZenonT(20) DEF SendNone, Send, Return
  <2>. QED  BY <1>2, <2>2, <2>3, ZenonT(20) DEF Step
<1>3. ASSUME NEW u \in Reader, Receive(u) PROVE pc'[t] = "apply" /\ env'[t] = env[t]
  <2>1. u # t /\ u \in Thread
    BY <1>3, ZenonT(20) DEF Receive, Reader, Thread
  <2>. QED  BY <1>1, <1>3, <2>1, ZenonT(20) DEF Receive
<1>4. ASSUME NEW n \in Node, Resend(n) PROVE pc'[t] = "apply" /\ env'[t] = env[t]
  <2>1. <<n, Heart>> # t /\ <<n, Heart>> \in Thread
    BY <1>4, ZenonT(20) DEF Resend, Thread
  <2>. QED  BY <1>1, <1>4, <2>1, ZenonT(20) DEF Resend
<1>5. ASSUME NEW n \in Node, Crash(n) PROVE pc'[t] = "apply" /\ env'[t] = env[t]
  BY <1>5, ZenonT(20) DEF Crash
<1>6. ASSUME NEW n \in Node, Heartbeat(n) \/ Boot(n) \/ Serve(n) PROVE UNCHANGED <<pc, env>>
  BY <1>6, ZenonT(20) DEF Heartbeat, Boot, Serve
<1>7. ASSUME NEW n \in Node, NEW w \in Worker, Operate(n, w) \/ \E c \in Conn : Dial(n, w, c)
      PROVE  UNCHANGED <<pc, env>>
  BY <1>7, ZenonT(20) DEF Operate, Reload, Discover, AnnounceFact, InviteJoin, Dial, Announce
<1>8. ASSUME NEW c \in Conn, Accept(c) \/ Break(c) PROVE UNCHANGED <<pc, env>>
  BY <1>8, ZenonT(20) DEF Accept, Break
<1>9. ASSUME NEW u \in Reader, Untrack(u) PROVE UNCHANGED <<pc, env>>
  BY <1>9, ZenonT(20) DEF Untrack
<1>10. CASE UNCHANGED vars
  BY <1>10, ZenonT(20) DEF vars
<1>. QED
  BY <1>2, <1>3, <1>4, <1>5, <1>6, <1>7, <1>8, <1>9, <1>10, ZenonT(20) DEF Next

(* Two versions of a subnet fact that was never withdrawn are the same.    *)
LEMMA Unwithdrawn ==
  ASSUME IInv, NEW e \in minted, NEW d \in minted, e.fact.kind = "AddSubnet",
         d.fact.id = e.fact.id,
         ~ \E x \in minted : x.fact.id = e.fact.id /\ x.fact.kind = "DelSubnet"
  PROVE  d.fact = e.fact
<1>1. e.fact \in Fact /\ d.fact \in Fact
  BY ZenonT(20) DEF IInv, TypeOK, Envelope
<1>2. d.fact.kind # "DelSubnet"
  BY ZenonT(20)
<1>. QED  BY <1>1, <1>2, SameSubnet, ZenonT(20)

(* Every step keeps the subnet of a version that is recorded.              *)
LEMMA ClaimedStep ==
  ASSUME IInv, IInv', PInv, [Next]_vars, NEW n \in Node, NEW e \in minted',
         e.fact.kind = "AddSubnet", seen'[n][e.fact.id] = e.ts,
         ~ \E d \in minted' : d.fact.id = e.fact.id /\ d.fact.kind = "DelSubnet"
  PROVE  Done(n, e)'
<1> DEFINE id == e.fact.id
<1>0. TypeOK /\ Provenance /\ minted \subseteq minted'
  BY MintedGrows, ZenonT(20) DEF IInv
<1>1. e.fact \in Fact /\ e.ts \in Nat /\ id \in FactId /\ Origin(id) \in Node
  <2>1. e.fact \in Fact /\ e.ts \in Nat
    BY ZenonT(20) DEF IInv, TypeOK, Envelope
  <2>. QED  BY <2>1, FactShape, ZenonT(20)
<1>2. ASSUME e \in minted, seen[n][id] = e.ts PROVE Done(n, e)
  <2>1. ~ \E d \in minted : d.fact.id = e.fact.id /\ d.fact.kind = "DelSubnet"
    BY <1>0, ZenonT(20)
  <2>2. ClaimedIsApplied
    BY DEF PInv
  <2>. QED  BY <1>2, <2>1, <2>2, ZenonT(20) DEF ClaimedIsApplied, Done
<1>3. ASSUME NEW u \in Thread, Apply(u) PROVE Done(n, e)'
  <2>1. UNCHANGED <<seen, minted, env>> /\ u[1] \in Node
    BY <1>3, ZenonT(20) DEF Apply, Thread
  <2>2. Done(n, e)
    BY <1>2, <2>1, ZenonT(20)
  <2>3. env[u] \in minted /\ env[u].fact \in Fact
    BY <1>3, HeldFact, ZenonT(20) DEF Apply
  <2>4. /\ u[1] # n => topo'[n] = topo[n]
        /\ u[1] = n => topo'[n] = ApplyGraph(topo[n], env[u].fact)
    BY <1>0, <1>3, ZenonT(20) DEF TypeOK, Apply
  <2>5. topo[n] \in GraphType
    BY <1>0, ZenonT(20) DEF TypeOK
  <2>6. ASSUME <<Origin(id), id[3]>> \in topo[n].subnets
        PROVE  <<Origin(id), id[3]>> \in topo'[n].subnets
    <3>1. ~(env[u].fact.kind = "DelSubnet" /\ env[u].fact.id = id)
      BY <2>1, <2>3, ZenonT(20)
    <3>. QED  BY <1>1, <2>3, <2>4, <2>5, <2>6, <3>1, ApplySubnets, ZenonT(20)
  <2>7. ASSUME NEW t \in Thread, t[1] = n, pc[t] = "apply", env[t].fact = e.fact
        PROVE  Done(n, e)'
    <3>1. CASE t = u
      BY <1>1, <2>4, <2>5, <2>7, <3>1, ApplySubnets, ZenonT(20) DEF Done
    <3>2. CASE t # u
      <4>1. pc'[t] = pc[t]
        BY <1>0, <1>3, <3>2, ZenonT(20) DEF TypeOK, Apply
      <4>. QED  BY <2>1, <2>7, <4>1, ZenonT(20) DEF Done
    <3>. QED  BY <3>1, <3>2
  <2>. QED  BY <2>2, <2>6, <2>7, ZenonT(20) DEF Done
<1>4. ASSUME NEW k \in Node, Crash(k) PROVE Done(n, e)'
  <2>1. /\ minted' = minted
        /\ seen' = [seen EXCEPT ![k] = [i \in FactId |-> 0]]
        /\ topo' = [topo EXCEPT ![k] = EmptyGraph]
        /\ pc' = [t \in Thread |-> IF t[1] = k THEN "idle" ELSE pc[t]]
        /\ env' = [t \in Thread |-> IF t[1] = k THEN NoEnv ELSE env[t]]
    BY <1>4, ZenonT(20) DEF Crash
  <2>2. k # n
    <3>1. e.ts > 0
      BY <2>1, ZenonT(20) DEF PInv
    <3>2. ASSUME k = n PROVE seen'[n][id] = 0
      BY <1>0, <1>1, <2>1, <3>2, ZenonT(20) DEF TypeOK
    <3>. QED  BY <1>1, <3>1, <3>2
  <2>3. seen'[n] = seen[n] /\ topo'[n] = topo[n]
    BY <1>0, <2>1, <2>2, ZenonT(20) DEF TypeOK
  <2>4. Done(n, e)
    BY <1>2, <2>1, <2>3, ZenonT(20)
  <2>. QED  BY <2>1, <2>2, <2>3, <2>4, ZenonT(20) DEF Done
<1>5. ASSUME \A t \in Thread : ~Apply(t), \A k \in Node : ~Crash(k) PROVE Done(n, e)'
  <2>1. topo' = topo
    BY <1>5, ViewSteps, ZenonT(20)
  <2>2. ASSUME NEW t \in Thread, pc[t] = "apply" PROVE pc'[t] = "apply" /\ env'[t] = env[t]
    <3>1. t[1] \in Node
      BY ZenonT(20) DEF Thread
    <3>. QED  BY <1>0, <1>5, <2>2, <3>1, Applying, ZenonT(20)
  <2>3. ASSUME e \in minted, seen[n][id] = e.ts PROVE Done(n, e)'
    BY <1>2, <2>1, <2>2, <2>3, ZenonT(20) DEF Done
  <2>4. ASSUME NEW u \in Thread, Stamp(u) PROVE Done(n, e)'
    <3> DEFINE d == [fact |-> Head(todo[u]), ts |-> clock[u[1]] + 1]
    <3>1. seen' = seen /\ minted' = minted \cup {d}
      BY <2>4, ZenonT(20) DEF Stamp, TSNow, planeVars
    <3>2. e # d
      <4>1. u[1] \in Node /\ Head(todo[u]) \in OwnFact(u[1])
        BY <1>0, <2>4, HeadTailProperties, ZenonT(20)
           DEF Thread, Provenance, TodoOwn, Stamp
      <4>2. ASSUME e = d PROVE Origin(id) = u[1] /\ e.ts = clock[u[1]] + 1
        BY <4>1, <4>2, ZenonT(20) DEF OwnFact
      <4>3. seen[n][id] <= clock[Origin(id)] /\ clock[Origin(id)] \in Nat
        BY <1>0, <1>1, ZenonT(20) DEF Provenance, SeenBehindClock, TypeOK
      <4>. QED  BY <1>1, <3>1, <4>2, <4>3
    <3>. QED  BY <2>3, <3>1, <3>2, ZenonT(20)
  <2>5. ASSUME NEW u \in Thread, NEW d \in minted, minted' = minted,
               seen' = [seen EXCEPT ![u[1]][d.fact.id] = d.ts],
               pc'[u] = "apply", env'[u] = d
        PROVE  Done(n, e)'
    <3>1. CASE u[1] = n /\ d.fact.id = id
      BY <2>5, <3>1, Unwithdrawn, ZenonT(20) DEF Done
    <3>2. CASE ~(u[1] = n /\ d.fact.id = id)
      <4>1. seen'[n][id] = seen[n][id]
        <5>1. seen \in [Node -> [FactId -> Nat]]
          BY <1>0, ZenonT(20) DEF TypeOK
        <5>2. [seen EXCEPT ![u[1]][d.fact.id] = d.ts][n][id] = seen[n][id]
          BY <1>1, <3>2, <5>1, SeenElsewhere
        <5>. QED  BY <2>5, <5>2, ZenonT(20)
      <4>. QED  BY <2>3, <2>5, <4>1, ZenonT(20)
    <3>. QED  BY <3>1, <3>2
  <2>6. ASSUME NEW u \in Thread, Store(u) PROVE Done(n, e)'
    <3>1. env[u] \in minted
      BY <2>6, HeldFact, ZenonT(20) DEF Store
    <3>2. pc'[u] = "apply"
      BY <1>0, <2>6, ZenonT(20) DEF Store, TypeOK
    <3>. QED  BY <2>5, <2>6, <3>1, <3>2, ZenonT(20) DEF Store
  <2>7. ASSUME NEW u \in Reader, Receive(u) PROVE Done(n, e)'
    <3>1. u \in Thread /\ minted' = minted
      BY <2>7, ZenonT(20) DEF Receive, Reader, Thread
    <3>2. CASE seen' = seen
      BY <2>3, <3>1, <3>2, ZenonT(20)
    <3>3. CASE seen' # seen
      <4>1. Head(chan[u]) \in minted
        BY <1>0, <2>7, HeadTailProperties, ZenonT(20) DEF Provenance, ChanMinted, Receive
      <4>2. pc'[u] = "apply" /\ env'[u] = Head(chan[u])
        BY <1>0, <2>7, <3>1, <3>3, ZenonT(20) DEF Receive, TypeOK
      <4>. QED  BY <2>5, <2>7, <3>1, <3>3, <4>1, <4>2, ZenonT(20) DEF Receive
    <3>. QED  BY <3>2, <3>3
  <2>8. ASSUME UNCHANGED <<seen, minted>> PROVE Done(n, e)'
    BY <2>3, <2>8, ZenonT(20)
  <2>. QED  BY <1>5, <2>4, <2>6, <2>7, <2>8, OtherSteps, ZenonT(20)
<1>. QED  BY <1>3, <1>4, <1>5, ZenonT(20)

(* Every step keeps it, and stamps something later than nothing.           *)
LEMMA PStep == IInv /\ IInv' /\ PInv /\ [Next]_vars => PInv'
<1> SUFFICES ASSUME IInv, IInv', PInv, [Next]_vars PROVE PInv'
  OBVIOUS
<1>1. ClaimedIsApplied'
  BY ClaimedStep, ZenonT(20) DEF ClaimedIsApplied, Done
<1>2. \A e \in minted' : e.ts > 0
  <2>1. ASSUME NEW t \in Thread, Stamp(t) PROVE <1>2
    <3>1. minted' = minted \cup {[fact |-> Head(todo[t]), ts |-> clock[t[1]] + 1]}
      BY <2>1, ZenonT(20) DEF Stamp, TSNow
    <3>2. [fact |-> Head(todo[t]), ts |-> clock[t[1]] + 1].ts > 0
      <4>1. clock[t[1]] \in Nat
        BY ZenonT(20) DEF IInv, TypeOK, Thread
      <4>. QED  BY <4>1
    <3>. QED  BY <3>1, <3>2, ZenonT(20) DEF PInv
  <2>2. CASE minted' = minted
    BY <2>2, ZenonT(20) DEF PInv
  <2>3. (\E t \in Thread : Stamp(t)) \/ minted' = minted
    BY OtherSteps, ZenonT(20) DEF Store, Receive, Crash
  <2>. QED  BY <2>1, <2>2, <2>3, ZenonT(20)
<1>. QED  BY <1>1, <1>2, ZenonT(20) DEF PInv

(* A version that the dedup table has recorded is in the graph, or the     *)
(* thread that claimed it is about to apply it (Receive, originate).       *)
THEOREM ClaimedIsAppliedHolds == Spec => []ClaimedIsApplied
<1>1. Init => PInv
  BY DEF Init, PInv, ClaimedIsApplied
<1>2. PInv => ClaimedIsApplied
  BY DEF PInv
<1>. QED  BY <1>1, <1>2, InitInv, NextInv, PStep, PTL DEF Spec

-----------------------------------------------------------------------------
(***************************************************************************)
(* One announcing goroutine: the dedup table and the outbox.               *)
(***************************************************************************)
(* One goroutine of a daemon announces, and nobody is invited.             *)
OneAnnouncer == Worker = {Main}
NoInvitation == Budget["invite"] = 0

(* A daemon that is down announces nothing; the stamp in hand is the last  *)
(* reading of the clock; nobody but Main stamps.                           *)
Stamping(n) ==
  LET t == <<n, Main>>
  IN  /\ phase[n] = "down" => pc[t] = "idle" /\ todo[t] = <<>>
      /\ pc[t] = "store" => env[t].ts = clock[n]
MainOnly == \A t \in Thread : t[2] # Main => todo[t] = <<>> /\ pc[t] # "store"
AInv == MainOnly /\ \A n \in Node : Stamping(n)

(* A Hello to be announced is the current one, and unless the current one  *)
(* is in the outbox it is the next to come there.                          *)
Own(n) == Hello(n, n, conf[n].addr)
Current(f, h) == f.id = h.id => f = h
Greeting(n) ==
  LET t == <<n, Main>>
  IN  /\ \A i \in DOMAIN todo[t] : Current(todo[t][i], Own(n))
      /\ pc[t] = "store" => Current(env[t].fact, Own(n))
      /\ \/ phase[n] = "down"
         \/ pc[t] = "idle" /\ todo[t] # <<>> /\ Head(todo[t]) = Own(n)
         \/ pc[t] = "store" /\ env[t].fact.id = HelloId(n)
         \/ outbox[n][HelloId(n)].fact = Own(n)
HInv == budget["invite"] = 0 /\ \A n \in Node : Greeting(n)

(* The ID of a Hello is one of a fact.                                     *)
LEMMA HelloIds == \A n \in Node : HelloId(n) \in FactId
BY DEF FactId

(* An index of a sequence is the first or follows another.                 *)
LEMMA FirstOrLater ==
  \A k \in Nat : \A i \in 1..(1 + k) : (i = 1 /\ i <= 1) \/ (i - 1 \in 1..k /\ ~(i <= 1))
OBVIOUS

(* announceLocal begins with the Hello, and the rest is subnets.           *)
LEMMA HelloFirst ==
  ASSUME NEW n \in Node, NEW c \in Conf
  PROVE  /\ Announcements(n, c) # <<>> /\ Head(Announcements(n, c)) = Hello(n, n, c.addr)
         /\ \A i \in DOMAIN Announcements(n, c) :
              Current(Announcements(n, c)[i], Hello(n, n, c.addr))
<1> DEFINE h == <<Hello(n, n, c.addr)>>
           s == [i \in 1..Len(c.subnets) |-> SubnetFact(n, c.subnets[i], "AddSubnet")]
           F == Fact
<1>1. \A x : SubnetFact(n, x, "AddSubnet").id # HelloId(n)
  BY DEF SubnetFact, SubnetId, HelloId
<1>2. c.subnets \in Seq(Subnet) /\ Hello(n, n, c.addr) \in Fact
  BY FactIntro DEF Conf
<1>3. Len(c.subnets) \in Nat /\ \A i \in 1..Len(c.subnets) : c.subnets[i] \in Subnet
  BY <1>2, LenProperties, ElementOfSeq, ZenonT(20)
<1>4. s \in [1..Len(c.subnets) -> F] /\ h \in Seq(F)
  BY <1>2, <1>3, FactIntro
<1>5. \A i \in DOMAIN s : s[i].id # HelloId(n)
  BY <1>1, ZenonT(20)
<1>6. Len(h) = 1 /\ h[1] = Hello(n, n, c.addr)
  OBVIOUS
<1> HIDE DEF h, s, F
<1>7. s \in Seq(F) /\ DOMAIN s = 1..Len(s) /\ Len(s) \in Nat
  BY <1>3, <1>4
<1>8. /\ h \o s # <<>> /\ Head(h \o s) = h[1]
      /\ \A i \in DOMAIN (h \o s) : (h \o s)[i] = h[1] \/ \E j \in DOMAIN s : (h \o s)[i] = s[j]
  <2>1. /\ h \o s \in Seq(F) /\ Len(h \o s) = Len(h) + Len(s)
        /\ \A i \in 1..(Len(h) + Len(s)) :
             (h \o s)[i] = IF i <= Len(h) THEN h[i] ELSE s[i - Len(h)]
    BY <1>4, <1>7, ConcatProperties, ZenonT(20)
  <2> DEFINE hs == h \o s
  <2>2. /\ hs \in Seq(F) /\ Len(hs) = 1 + Len(s)
        /\ \A i \in 1..(1 + Len(s)) : hs[i] = IF i <= 1 THEN h[i] ELSE s[i - 1]
    BY <1>6, <2>1, ZenonT(20)
  <2> HIDE DEF hs
  <2>3. hs # <<>> /\ Head(hs) = h[1] /\ DOMAIN hs = 1..(1 + Len(s))
    BY <1>7, <2>2
  <2>4. ASSUME NEW i \in 1..(1 + Len(s)) PROVE hs[i] = h[1] \/ \E j \in DOMAIN s : hs[i] = s[j]
    <3>1. (i = 1 /\ i <= 1) \/ (i - 1 \in 1..Len(s) /\ ~(i <= 1))
      BY <1>7, FirstOrLater, ZenonT(20)
    <3>2. hs[i] = IF i <= 1 THEN h[i] ELSE s[i - 1]
      BY <2>2, ZenonT(20)
    <3>. QED  BY <1>7, <3>1, <3>2, ZenonT(20)
  <2>. QED  BY <2>3, <2>4, ZenonT(20) DEF hs
<1>9. Announcements(n, c) = h \o s
  BY DEF Announcements, h, s
<1>10. Hello(n, n, c.addr).id = HelloId(n)
  BY DEF Hello
<1>. QED  BY <1>5, <1>6, <1>8, <1>9, <1>10, ZenonT(20) DEF Current

(* What a step of others leaves of n's announcing goroutine.               *)
Kept(n) ==
  LET t == <<n, Main>>
  IN  /\ clock'[n] = clock[n] /\ conf'[n] = conf[n] /\ outbox'[n] = outbox[n]
      /\ todo'[t] = todo[t] /\ (phase'[n] = "down" <=> phase[n] = "down")
      /\ \/ pc'[t] = pc[t] /\ env'[t] = env[t]
         \/ pc[t] \notin {"idle", "store"} /\ pc'[t] # "store"

(* No other goroutine begins to announce.                                  *)
LEMMA MainOnlyStep ==
  ASSUME OneAnnouncer, TypeOK, MainOnly, [Next]_vars PROVE MainOnly'
<1> SUFFICES ASSUME NEW t \in Thread, t[2] # Main PROVE todo'[t] = <<>> /\ pc'[t] # "store"
  BY ZenonT(20) DEF MainOnly
<1> USE DEF planeVars, threadVars, envVars
<1>0. /\ pc \in [Thread -> {"idle", "store", "apply", "bcast", "send"}]
      /\ todo \in [Thread -> Seq(Fact)]
      /\ todo[t] = <<>> /\ pc[t] # "store"
  BY ZenonT(20) DEF TypeOK, MainOnly
<1>1. ASSUME NEW u \in Thread, NEW v, pc' = [pc EXCEPT ![u] = v], u # t \/ v # "store",
             todo' = todo
      PROVE  todo'[t] = <<>> /\ pc'[t] # "store"
  BY <1>0, <1>1, ZenonT(20)
<1>2. ASSUME NEW u \in Thread, Stamp(u) PROVE todo'[t] = <<>> /\ pc'[t] # "store"
  <2>1. u # t
    BY <1>0, <1>2, ZenonT(20) DEF Stamp
  <2>. QED  BY <1>0, <1>2, <2>1, ZenonT(20) DEF Stamp
<1>3. ASSUME NEW u \in Thread, Store(u) \/ Apply(u) \/ SendNone(u) \/ \E c \in Conn : Send(u, c)
      PROVE  todo'[t] = <<>> /\ pc'[t] # "store"
  BY <1>1, <1>3, ZenonT(20) DEF Store, Apply, SendNone, Send, Return
<1>4. ASSUME NEW u \in Reader, Receive(u) \/ Untrack(u)
      PROVE  todo'[t] = <<>> /\ pc'[t] # "store"
  <2>1. u \in Thread
    BY ZenonT(20) DEF Reader, Thread
  <2>2. todo' = todo /\ (pc' = pc \/ pc' = [pc EXCEPT ![u] = "apply"])
    BY <1>4, ZenonT(20) DEF Receive, Untrack
  <2>. QED  BY <1>0, <1>1, <2>1, <2>2, ZenonT(20)
<1>5. ASSUME NEW n \in Node, Heartbeat(n) \/ Serve(n) PROVE UNCHANGED <<pc, todo>>
  BY <1>5, ZenonT(20) DEF Heartbeat, Serve
<1>6. ASSUME NEW n \in Node, Resend(n) PROVE todo'[t] = <<>> /\ pc'[t] # "store"
  <2>1. <<n, Heart>> \in Thread
    BY ZenonT(20) DEF Thread
  <2>2. todo' = todo /\ pc' = [pc EXCEPT ![<<n, Heart>>] = "bcast"]
    BY <1>6, ZenonT(20) DEF Resend
  <2>. QED  BY <1>1, <2>1, <2>2, ZenonT(20)
<1>7. ASSUME NEW n \in Node, NEW facts, Begin(<<n, Main>>, facts), pc' = pc
      PROVE  todo'[t] = <<>> /\ pc'[t] # "store"
  <2>1. t # <<n, Main>>
    OBVIOUS
  <2>. QED  BY <1>0, <1>7, <2>1, ZenonT(20) DEF Begin
<1>8. ASSUME NEW n \in Node, Boot(n) PROVE todo'[t] = <<>> /\ pc'[t] # "store"
  BY <1>7, <1>8, ZenonT(20) DEF Boot
<1>9. ASSUME NEW n \in Node, NEW w \in Worker, Operate(n, w) \/ \E c \in Conn : Dial(n, w, c)
      PROVE  todo'[t] = <<>> /\ pc'[t] # "store"
  <2>1. w = Main
    BY ZenonT(20) DEF OneAnnouncer
  <2>2. \E facts : Announce(n, w, facts)
    BY <1>9, ZenonT(20) DEF Operate, Reload, Discover, AnnounceFact, InviteJoin, Dial
  <2>. QED  BY <1>7, <2>1, <2>2, ZenonT(20) DEF Announce
<1>10. ASSUME NEW n \in Node, Crash(n) PROVE todo'[t] = <<>> /\ pc'[t] # "store"
  <2>1. /\ pc' = [u \in Thread |-> IF u[1] = n THEN "idle" ELSE pc[u]]
        /\ todo' = [u \in Thread |-> IF u[1] = n THEN <<>> ELSE todo[u]]
    BY <1>10, ZenonT(20) DEF Crash
  <2>. QED  BY <1>0, <2>1, ZenonT(20)
<1>11. ASSUME NEW c \in Conn, Accept(c) \/ Break(c) PROVE UNCHANGED <<pc, todo>>
  BY <1>11, ZenonT(20) DEF Accept, Break
<1>12. CASE UNCHANGED <<pc, todo>>
  BY <1>0, <1>12, ZenonT(20)
<1>13. CASE UNCHANGED vars
  BY <1>12, <1>13, ZenonT(20) DEF vars
<1>. QED
  BY <1>2, <1>3, <1>4, <1>5, <1>6, <1>8, <1>9, <1>10, <1>11, <1>12, <1>13, ZenonT(20)
  DEF Next, Step

(* The steps of n's announcing goroutine, and of n; every other leaves it. *)
LEMMA MainStep ==
  ASSUME OneAnnouncer, TypeOK, MainOnly, [Next]_vars, NEW n \in Node,
         ~Stamp(<<n, Main>>), ~Store(<<n, Main>>), ~Crash(n), ~Boot(n),
         ~Operate(n, Main), \A c \in Conn : ~Dial(n, Main, c)
  PROVE  Kept(n)
<1> DEFINE t == <<n, Main>>
<1> USE DEF planeVars, threadVars, netVars, envVars
<1>t. t \in Thread /\ t[1] = n /\ t[2] = Main
  BY GossipAssumption DEF Thread
<1> HIDE DEF t
<1>0. /\ pc \in [Thread -> {"idle", "store", "apply", "bcast", "send"}]
      /\ env \in [Thread -> Envelope \cup {NoEnv}] /\ todo \in [Thread -> Seq(Fact)]
      /\ conf \in [Node -> Conf] /\ clock \in [Node -> Nat]
      /\ outbox \in [Node -> [FactId -> Envelope \cup {NoEnv}]]
      /\ phase \in [Node -> {"down", "boot", "run"}]
  BY ZenonT(20) DEF TypeOK
<1>1. ASSUME clock'[n] = clock[n], conf'[n] = conf[n], outbox'[n] = outbox[n], todo'[t] = todo[t],
             phase'[n] = "down" <=> phase[n] = "down",
             \/ pc'[t] = pc[t] /\ env'[t] = env[t]
             \/ pc[t] \notin {"idle", "store"} /\ pc'[t] # "store"
      PROVE  Kept(n)
  BY <1>1, ZenonT(20) DEF Kept, t
<1>2. ASSUME NEW u \in Thread, Stamp(u) \/ Store(u) PROVE Kept(n)
  <2>1. u # t /\ u[1] # n
    <3>1. u[2] = Main
      BY <1>2, ZenonT(20) DEF MainOnly, Stamp, Store
    <3>2. u # t
      BY <1>2, ZenonT(20) DEF t
    <3>. QED  BY <3>1, <3>2 DEF Thread, t
  <2>2. /\ clock' = clock \/ \E v : clock' = [clock EXCEPT ![u[1]] = v]
        /\ outbox' = outbox \/ \E i, v : outbox' = [outbox EXCEPT ![u[1]][i] = v]
        /\ conf' = conf /\ phase' = phase
        /\ todo' = todo \/ \E v : todo' = [todo EXCEPT ![u] = v]
        /\ \E v : pc' = [pc EXCEPT ![u] = v]
        /\ env' = env \/ \E v : env' = [env EXCEPT ![u] = v]
    BY <1>2, ZenonT(20) DEF Stamp, Store
  <2>3. clock'[n] = clock[n] /\ outbox'[n] = outbox[n]
    BY <1>0, <2>1, <2>2, ZenonT(20)
  <2>4. todo'[t] = todo[t] /\ pc'[t] = pc[t] /\ env'[t] = env[t]
    BY <1>0, <1>t, <2>1, <2>2, ZenonT(20)
  <2>. QED  BY <1>1, <2>2, <2>3, <2>4, ZenonT(20)
<1>3. ASSUME NEW u \in Thread, NEW v, NEW x,
             u # t \/ (pc[t] \notin {"idle", "store"} /\ v # "store"),
             pc' = [pc EXCEPT ![u] = v], env' = [env EXCEPT ![u] = x] \/ env' = env,
             UNCHANGED <<clock, conf, outbox, todo, phase>>
      PROVE  Kept(n)
  <2>1. u # t => pc'[t] = pc[t] /\ env'[t] = env[t]
    BY <1>0, <1>3, <1>t, ZenonT(20)
  <2>2. u = t => pc'[t] # "store"
    BY <1>0, <1>3, <1>t, ZenonT(20)
  <2>. QED  BY <1>1, <1>3, <2>1, <2>2, ZenonT(20)
<1>4. ASSUME NEW u \in Thread, Apply(u) PROVE Kept(n)
  <2>1. pc[u] \notin {"idle", "store"}
    BY <1>4, ZenonT(20) DEF Apply
  <2>. QED  BY <1>3, <1>4, <2>1, ZenonT(20) DEF Apply
<1>5. ASSUME NEW u \in Thread, SendNone(u) \/ \E c \in Conn : Send(u, c) PROVE Kept(n)
  <2>1. pc[u] \notin {"idle", "store"}
    BY <1>5, ZenonT(20) DEF SendNone, Send
  <2>. QED  BY <1>3, <1>5, <2>1, ZenonT(20) DEF SendNone, Send, Return
<1>6. ASSUME NEW u \in Reader, Receive(u) PROVE Kept(n)
  <2>1. u \in Thread /\ u # t
    BY <1>t, GossipAssumption DEF Reader, Thread
  <2>. QED  BY <1>1, <1>3, <1>6, <2>1, ZenonT(20) DEF Receive
<1>7. ASSUME NEW m \in Node, Resend(m) PROVE Kept(n)
  <2>1. <<m, Heart>> \in Thread /\ <<m, Heart>> # t
    BY <1>t, GossipAssumption DEF Thread
  <2>. QED  BY <1>3, <1>7, <2>1, ZenonT(20) DEF Resend
<1>8. CASE UNCHANGED <<clock, conf, outbox, todo, phase, pc, env>>
  BY <1>1, <1>8, ZenonT(20)
<1>9. ASSUME NEW m \in Node, Heartbeat(m) PROVE Kept(n)
  BY <1>8, <1>9, ZenonT(20) DEF Heartbeat
<1>10. ASSUME NEW m \in Node, Serve(m) PROVE Kept(n)
  <2>1. phase'[n] = "down" <=> phase[n] = "down"
    BY <1>0, <1>10 DEF Serve
  <2>. QED  BY <1>1, <1>10, <2>1, ZenonT(20) DEF Serve
<1>11. ASSUME NEW m \in Node, m # n, NEW facts, Begin(<<m, Main>>, facts),
              phase'[n] = phase[n], conf'[n] = conf[n], UNCHANGED <<clock, outbox, pc, env>>
       PROVE  Kept(n)
  <2>1. <<m, Main>> # t
    BY <1>11 DEF t
  <2>2. todo'[t] = todo[t]
    BY <1>0, <1>11, <1>t, <2>1, ZenonT(20) DEF Begin
  <2>. QED  BY <1>1, <1>11, <2>2, ZenonT(20)
<1>12. ASSUME NEW m \in Node, Boot(m) PROVE Kept(n)
  <2>1. m # n
    BY <1>12
  <2>2. phase'[n] = phase[n]
    BY <1>0, <1>12, <2>1, ZenonT(20) DEF Boot
  <2>. QED  BY <1>11, <1>12, <2>1, <2>2, ZenonT(20) DEF Boot
<1>13. ASSUME NEW m \in Node, NEW w \in Worker, Operate(m, w) \/ \E c \in Conn : Dial(m, w, c)
       PROVE  Kept(n)
  <2>1. w = Main
    BY ZenonT(20) DEF OneAnnouncer
  <2>2. m # n
    BY <1>13, <2>1, ZenonT(20)
  <2>3. \E facts : Announce(m, w, facts)
    BY <1>13, ZenonT(20) DEF Operate, Reload, Discover, AnnounceFact, InviteJoin, Dial
  <2>4. conf' = conf \/ (\E v : conf' = [conf EXCEPT ![m] = v])
          \/ \E v : conf' = [conf EXCEPT ![m].addr = v]
    BY <1>13, ZenonT(20) DEF Operate, Reload, Discover, AnnounceFact, InviteJoin, Dial
  <2>5. conf'[n] = conf[n]
    BY <1>0, <2>2, <2>4, ZenonT(20)
  <2>. QED  BY <1>11, <2>1, <2>2, <2>3, <2>5, ZenonT(20) DEF Announce
<1>14. ASSUME NEW m \in Node, Crash(m) PROVE Kept(n)
  <2>1. m # n
    BY <1>14
  <2>2. /\ pc' = [u \in Thread |-> IF u[1] = m THEN "idle" ELSE pc[u]]
        /\ env' = [u \in Thread |-> IF u[1] = m THEN NoEnv ELSE env[u]]
        /\ todo' = [u \in Thread |-> IF u[1] = m THEN <<>> ELSE todo[u]]
    BY <1>14, ZenonT(20) DEF Crash
  <2>3. pc'[t] = pc[t] /\ env'[t] = env[t] /\ todo'[t] = todo[t]
    BY <1>0, <1>t, <2>1, <2>2, ZenonT(20)
  <2>4. outbox'[n] = outbox[n] /\ phase'[n] = phase[n]
    BY <1>0, <1>14, <2>1, ZenonT(20) DEF Crash
  <2>. QED  BY <1>1, <1>14, <2>3, <2>4, ZenonT(20) DEF Crash
<1>15. ASSUME NEW c \in Conn, Accept(c) \/ Break(c) PROVE Kept(n)
  BY <1>8, <1>15, ZenonT(20) DEF Accept, Break
<1>16. ASSUME NEW u \in Reader, Untrack(u) PROVE Kept(n)
  BY <1>8, <1>16, ZenonT(20) DEF Untrack
<1>17. CASE UNCHANGED vars
  BY <1>8, <1>17, ZenonT(20) DEF vars
<1>. QED
  BY <1>2, <1>4, <1>5, <1>6, <1>7, <1>9, <1>10, <1>12, <1>13, <1>14, <1>15, <1>16, <1>17,
     ZenonT(20)
  DEF Next, Step

(* Nothing is announced by a daemon that is down, and what is stamped last *)
(* is as new as the clock.                                                 *)
LEMMA StampingStep ==
  ASSUME OneAnnouncer, TypeOK, AInv, [Next]_vars PROVE AInv'
<1>1. MainOnly'
  BY MainOnlyStep, ZenonT(20) DEF AInv
<1>2. ASSUME NEW n \in Node PROVE Stamping(n)'
  <2> DEFINE t == <<n, Main>>
  <2>t. t \in Thread /\ t[1] = n
    BY GossipAssumption DEF Thread
  <2> HIDE DEF t
  <2>0. /\ phase[n] = "down" => pc[t] = "idle" /\ todo[t] = <<>>
        /\ pc[t] = "store" => env[t].ts = clock[n]
    BY ZenonT(20) DEF AInv, Stamping, t
  <2>1. SUFFICES /\ phase'[n] = "down" => pc'[t] = "idle" /\ todo'[t] = <<>>
                 /\ pc'[t] = "store" => env'[t].ts = clock'[n]
    BY <2>1, ZenonT(20) DEF Stamping, t
  <2>2. CASE Stamp(t)
    <3>1. phase'[n] # "down"
      BY <2>0, <2>2, ZenonT(20) DEF Stamp, envVars
    <3>2. env'[t].ts = clock'[n]
      BY <2>t, <2>2 DEF Stamp, TSNow, TypeOK
    <3>. QED  BY <3>1, <3>2, ZenonT(20)
  <2>3. CASE Store(t)
    <3>1. phase'[n] # "down"
      BY <2>0, <2>3, ZenonT(20) DEF Store, envVars
    <3>2. pc'[t] = "apply"
      BY <2>t, <2>3, ZenonT(20) DEF Store, TypeOK
    <3>. QED  BY <3>1, <3>2, ZenonT(20)
  <2>4. CASE Crash(n)
    BY <2>t, <2>4, ZenonT(20) DEF Crash
  <2>5. ASSUME UNCHANGED pc, pc[t] = "idle", phase'[n] # "down" PROVE <2>1!1
    BY <2>5, ZenonT(20)
  <2>6. CASE Boot(n)
    <3>1. phase'[n] = "boot"
      BY <2>6, ZenonT(20) DEF Boot, TypeOK
    <3>. QED  BY <2>0, <2>5, <2>6, <3>1, ZenonT(20) DEF Boot
  <2>7. CASE Operate(n, Main) \/ \E c \in Conn : Dial(n, Main, c)
    <3>1. \E facts : Announce(n, Main, facts)
      BY <2>7, ZenonT(20) DEF Operate, Reload, Discover, AnnounceFact, InviteJoin, Dial
    <3>2. phase'[n] = "run" /\ pc' = pc /\ pc[t] = "idle"
      BY <3>1, ZenonT(20) DEF Announce, Idle, t
    <3>. QED  BY <2>5, <3>2, ZenonT(20)
  <2>8. CASE Kept(n)
    <3>1. /\ clock'[n] = clock[n] /\ todo'[t] = todo[t]
          /\ (phase'[n] = "down" <=> phase[n] = "down")
          /\ \/ pc'[t] = pc[t] /\ env'[t] = env[t]
             \/ pc[t] \notin {"idle", "store"} /\ pc'[t] # "store"
      BY <2>8, ZenonT(20) DEF Kept, t
    <3>. QED  BY <2>0, <3>1, ZenonT(20)
  <2>. QED  BY <2>2, <2>3, <2>4, <2>6, <2>7, <2>8, MainStep, ZenonT(20) DEF AInv, t
<1>. QED  BY <1>1, <1>2, ZenonT(20) DEF AInv

(* Whatever a step records, it is no older than what was recorded.         *)
LEMMA SeenStep ==
  ASSUME IInv, AInv, [Next]_vars, NEW n \in Node, NEW id \in FactId, ~Crash(n)
  PROVE  seen'[n][id] >= seen[n][id]
<1>0. TypeOK /\ Provenance /\ seen \in [Node -> [FactId -> Nat]]
  BY ZenonT(20) DEF IInv, TypeOK
<1>1. seen[n][id] \in Nat
  BY <1>0, ZenonT(20)
<1>2. CASE seen' = seen
  BY <1>1, <1>2
<1>3. ASSUME NEW m \in Node, NEW i \in FactId, NEW ts \in Nat, ts >= seen[m][i],
             seen' = [seen EXCEPT ![m][i] = ts]
      PROVE  seen'[n][id] >= seen[n][id]
  BY <1>0, <1>1, <1>3
<1>4. ASSUME NEW t \in Thread, Store(t) PROVE seen'[n][id] >= seen[n][id]
  <2> DEFINE i == env[t].fact.id
  <2>1. /\ t[1] \in Node /\ t = <<t[1], Main>> /\ i \in FactId /\ env[t].ts \in Nat
        /\ Origin(i) = t[1]
    <3>1. t[1] \in Node /\ t = <<t[1], t[2]>>
      BY DEF Thread
    <3>2. t[2] = Main
      BY <1>4, ZenonT(20) DEF AInv, MainOnly, Store
    <3>3. i \in FactId /\ env[t].ts \in Nat
      BY <1>4, HeldFact, ZenonT(20) DEF Store
    <3>4. Origin(i) = t[1]
      BY <1>0, <1>4, ZenonT(20) DEF Provenance, HeldMinted, Store
    <3>. QED  BY <3>1, <3>2, <3>3, <3>4, ZenonT(20)
  <2>2. env[t].ts = clock[t[1]]
    BY <1>4, <2>1, ZenonT(20) DEF AInv, Stamping, Store
  <2>3. seen[t[1]][i] <= clock[t[1]] /\ seen[t[1]][i] \in Nat
    BY <1>0, <2>1, ZenonT(20) DEF Provenance, SeenBehindClock
  <2>4. env[t].ts >= seen[t[1]][i]
    BY <2>1, <2>2, <2>3
  <2>5. seen' = [seen EXCEPT ![t[1]][i] = env[t].ts]
    BY <1>4, ZenonT(20) DEF Store
  <2>. QED  BY <1>3, <2>1, <2>4, <2>5, ZenonT(20)
<1>5. ASSUME NEW t \in Reader, Receive(t), seen' # seen PROVE seen'[n][id] >= seen[n][id]
  <2> DEFINE e == Head(chan[t])
  <2>1. t[1] \in Node
    BY ZenonT(20) DEF Reader
  <2>2. e \in Envelope
    BY <1>0, <1>5, HeadTailProperties, ZenonT(20) DEF TypeOK, Receive
  <2>3. e.ts \in Nat /\ e.fact.id \in FactId
    BY <2>2, FactShape, ZenonT(20) DEF Envelope
  <2>4. seen' = [seen EXCEPT ![t[1]][e.fact.id] = e.ts] /\ e.ts > seen[t[1]][e.fact.id]
    BY <1>5, ZenonT(20) DEF Receive, Newer
  <2>5. e.ts >= seen[t[1]][e.fact.id]
    <3>1. seen[t[1]][e.fact.id] \in Nat
      BY <1>0, <2>1, <2>3, ZenonT(20)
    <3>. QED  BY <2>3, <2>4, <3>1
  <2>. QED  BY <1>3, <2>1, <2>3, <2>4, <2>5, ZenonT(20)
<1>6. ASSUME NEW m \in Node, Crash(m) PROVE seen'[n][id] = seen[n][id]
  <2>1. m # n
    BY <1>6, ZenonT(20)
  <2>. QED  BY <1>0, <1>6, <2>1, ZenonT(20) DEF Crash
<1>7. ASSUME NEW t \in Thread, Stamp(t) PROVE seen' = seen
  BY <1>7, ZenonT(20) DEF Stamp, planeVars
<1>8. seen'[n][id] = seen[n][id] => seen'[n][id] >= seen[n][id]
  BY <1>1
<1>. QED  BY <1>2, <1>4, <1>5, <1>6, <1>7, <1>8, OtherSteps, ZenonT(20)

(* With one announcing goroutine per node the dedup table never goes back  *)
(* at all, on the node's own facts either (originate, claim).              *)
THEOREM SeenIsHighestHolds == ASSUME OneAnnouncer PROVE Spec => SeenIsHighest
<1>1. Init => AInv
  BY GossipAssumption DEF Init, AInv, MainOnly, Stamping, Thread
<1>2. IInv /\ AInv /\ [Next]_vars => AInv'
  BY StampingStep, ZenonT(20) DEF IInv
<1>3. IInv /\ AInv /\ [Next]_vars =>
        [\A n \in Node, id \in FactId : phase'[n] # "down" => seen'[n][id] >= seen[n][id]]_vars
  <2> SUFFICES ASSUME IInv, AInv, [Next]_vars, NEW n \in Node, NEW id \in FactId,
                      phase'[n] # "down"
               PROVE  seen'[n][id] >= seen[n][id]
    BY ZenonT(20)
  <2>1. ~Crash(n)
    BY ZenonT(20) DEF IInv, TypeOK, Crash
  <2>. QED  BY <2>1, SeenStep, ZenonT(20)
<1>. QED  BY <1>1, <1>2, <1>3, InitInv, NextInv, PTL DEF Spec, SeenIsHighest

(* Whoever is not invited at the start is never.                           *)
LEMMA NeverInvited ==
  ASSUME TypeOK, budget["invite"] = 0, [Next]_vars
  PROVE  budget'["invite"] = 0 /\ \A n, m \in Node, w \in Worker : ~InviteJoin(n, w, m)
<1> USE DEF envVars
<1>1. \A x \in Event : Spend(x) => \/ x # "invite" /\ budget'["invite"] = budget["invite"]
                                \/ budget["invite"] > 0
  BY DEF Spend, Event, TypeOK
<1>2. \A x \in Event : Spend(x) => budget'["invite"] = 0
  BY <1>1
<1>3. \A n, m \in Node, w \in Worker : ~InviteJoin(n, w, m)
  BY DEF InviteJoin, Spend
<1>4. {"reload", "discover", "redial", "announce", "break", "crash", "heartbeat"} \subseteq Event
  BY ZenonT(20) DEF Event
<1>5. ASSUME NEW t \in Thread, Step(t) PROVE budget' = budget
  BY <1>5, ZenonT(20) DEF Step, Stamp, Store, Apply, SendNone, Send
<1>6. ASSUME NEW t \in Reader, Receive(t) \/ Untrack(t) PROVE budget' = budget
  BY <1>6, ZenonT(20) DEF Receive, Untrack
<1>7. ASSUME NEW n \in Node, Heartbeat(n) \/ Resend(n) \/ Boot(n) \/ Serve(n) \/ Crash(n)
      PROVE  budget' = budget \/ Spend("heartbeat") \/ Spend("crash")
  BY <1>7, ZenonT(20) DEF Heartbeat, Resend, Boot, Serve, Crash
<1>8. ASSUME NEW n \in Node, NEW w \in Worker, Operate(n, w)
      PROVE  Spend("reload") \/ Spend("discover") \/ Spend("announce")
  BY <1>3, <1>8, ZenonT(20) DEF Operate, Reload, Discover, AnnounceFact
<1>9. ASSUME NEW n \in Node, NEW w \in Worker, NEW c \in Conn, Dial(n, w, c)
      PROVE  budget' = budget \/ Spend("redial")
  BY <1>9, ZenonT(20) DEF Dial, Connect
<1>10. ASSUME NEW c \in Conn, Accept(c) \/ Break(c) PROVE budget' = budget \/ Spend("break")
  BY <1>10, ZenonT(20) DEF Accept, Break
<1>11. UNCHANGED vars => budget' = budget
  BY ZenonT(20) DEF vars
<1>12. budget'["invite"] = 0
  BY <1>2, <1>4, <1>5, <1>6, <1>7, <1>8, <1>9, <1>10, <1>11, ZenonT(20) DEF Next
<1>. QED  BY <1>3, <1>12, ZenonT(20)

(* Every step keeps the Hello to be announced, or announced, current.      *)
LEMMA GreetingStep ==
  ASSUME OneAnnouncer, TypeOK, AInv, HInv, [Next]_vars PROVE HInv'
<1>1. budget'["invite"] = 0 /\ \A n, m \in Node, w \in Worker : ~InviteJoin(n, w, m)
  BY NeverInvited, ZenonT(20) DEF HInv
<1>2. ASSUME NEW n \in Node PROVE Greeting(n)'
  <2> DEFINE t == <<n, Main>>
  <2>t. t \in Thread /\ t[1] = n
    BY GossipAssumption DEF Thread
  <2> HIDE DEF t
  <2>0. /\ \A i \in DOMAIN todo[t] : Current(todo[t][i], Own(n))
        /\ pc[t] = "store" => Current(env[t].fact, Own(n))
        /\ \/ phase[n] = "down"
           \/ pc[t] = "idle" /\ todo[t] # <<>> /\ Head(todo[t]) = Own(n)
           \/ pc[t] = "store" /\ env[t].fact.id = HelloId(n)
           \/ outbox[n][HelloId(n)].fact = Own(n)
    BY ZenonT(20) DEF HInv, Greeting, t
  <2>1. SUFFICES /\ \A i \in DOMAIN todo'[t] : Current(todo'[t][i], Own(n)')
                 /\ pc'[t] = "store" => Current(env'[t].fact, Own(n)')
                 /\ \/ phase'[n] = "down"
                    \/ pc'[t] = "idle" /\ todo'[t] # <<>> /\ Head(todo'[t]) = Own(n)'
                    \/ pc'[t] = "store" /\ env'[t].fact.id = HelloId(n)
                    \/ outbox'[n][HelloId(n)].fact = Own(n)'
    BY <2>1, ZenonT(20) DEF Greeting, t
  <2>2. ASSUME conf'[n] = conf[n] PROVE Own(n)' = Own(n)
    BY <2>2, ZenonT(20) DEF Own
  <2>3. CASE Stamp(t)
    <3>1. conf' = conf /\ phase' = phase /\ outbox' = outbox /\ pc[t] = "idle" /\ todo[t] # <<>>
      BY <2>3, ZenonT(20) DEF Stamp, envVars, planeVars
    <3>2. todo[t] \in Seq(Fact)
      BY <2>t, ZenonT(20) DEF TypeOK
    <3>3. todo'[t] = Tail(todo[t]) /\ pc'[t] = "store"
      BY <2>t, <2>3, ZenonT(20) DEF Stamp, TypeOK
    <3>4. env'[t].fact = Head(todo[t])
      BY <2>t, <2>3 DEF Stamp, TypeOK
    <3>5. /\ \A i \in DOMAIN Tail(todo[t]) :
               i + 1 \in DOMAIN todo[t] /\ Tail(todo[t])[i] = todo[t][i + 1]
          /\ 1 \in DOMAIN todo[t] /\ Head(todo[t]) = todo[t][1]
      BY <3>1, <3>2
    <3>6. Own(n)' = Own(n)
      BY <2>2, <3>1, ZenonT(20)
    <3>7. /\ Current(Head(todo[t]), Own(n))
          /\ \A i \in DOMAIN Tail(todo[t]) : Current(Tail(todo[t])[i], Own(n))
      BY <2>0, <3>5, ZenonT(20)
    <3>8. Own(n).id = HelloId(n)
      BY DEF Own, Hello
    <3>. QED  BY <2>0, <3>1, <3>3, <3>4, <3>6, <3>7, <3>8, ZenonT(20)
  <2>4. CASE Store(t)
    <3>1. conf' = conf /\ phase' = phase /\ todo' = todo /\ pc[t] = "store"
      BY <2>4, ZenonT(20) DEF Store, envVars
    <3>2. pc'[t] = "apply"
      BY <2>t, <2>4, ZenonT(20) DEF Store, TypeOK
    <3>3. outbox' = [outbox EXCEPT ![n][env[t].fact.id] = env[t]]
      BY <2>t, <2>4, ZenonT(20) DEF Store
    <3>4. /\ HelloId(n) \in FactId /\ outbox[n] \in [FactId -> Envelope \cup {NoEnv}]
          /\ n \in DOMAIN outbox
      <4>1. HelloId(n) \in FactId
        BY HelloIds, ZenonT(20)
      <4>2. outbox \in [Node -> [FactId -> Envelope \cup {NoEnv}]]
        BY ZenonT(20) DEF TypeOK
      <4>. QED  BY <4>1, <4>2, ZenonT(20)
    <3>5. outbox'[n] = [outbox[n] EXCEPT ![env[t].fact.id] = env[t]]
      BY <3>3, <3>4, ZenonT(20)
    <3>6. outbox'[n][HelloId(n)] = IF env[t].fact.id = HelloId(n) THEN env[t]
                                   ELSE outbox[n][HelloId(n)]
      BY <3>4, <3>5, ZenonT(20)
    <3>7. Own(n)' = Own(n)
      BY <2>2, <3>1, ZenonT(20)
    <3>8. Own(n).id = HelloId(n)
      BY DEF Own, Hello
    <3>9. outbox'[n][HelloId(n)].fact = Own(n)
      <4>1. CASE env[t].fact.id = HelloId(n)
        <5>1. env[t].fact = Own(n)
          BY <2>0, <3>1, <3>8, <4>1, ZenonT(20) DEF Current
        <5>. QED  BY <3>6, <4>1, <5>1, ZenonT(20)
      <4>2. CASE env[t].fact.id # HelloId(n)
        <5>1. phase[n] # "down"
          BY <3>1 DEF AInv, Stamping, t
        <5>2. pc[t] # "idle"
          BY <3>1
        <5>3. outbox[n][HelloId(n)].fact = Own(n)
          BY <2>0, <4>2, <5>1, <5>2, ZenonT(20)
        <5>. QED  BY <3>6, <4>2, <5>3, ZenonT(20)
      <4>. QED  BY <4>1, <4>2
    <3>10. pc'[t] # "store"
      BY <3>2
    <3>. QED  BY <2>0, <3>1, <3>7, <3>9, <3>10, ZenonT(20)
  <2>5. CASE Crash(n)
    <3>1. phase'[n] = "down" /\ pc'[t] = "idle" /\ todo'[t] = <<>>
      BY <2>t, <2>5, ZenonT(20) DEF Crash, TypeOK
    <3>2. DOMAIN <<>> = {}
      OBVIOUS
    <3>. QED  BY <3>1, <3>2, ZenonT(20)
  <2>6. ASSUME NEW c \in Conf, conf'[n] = c, Begin(t, Announcements(n, c)), pc' = pc,
               pc[t] = "idle"
        PROVE  <2>1!1
    <3>1. todo'[t] = Announcements(n, c)
      BY <2>t, <2>6, ZenonT(20) DEF Begin, TypeOK
    <3>2. Own(n)' = Hello(n, n, c.addr)
      BY <2>6, ZenonT(20) DEF Own
    <3>3. /\ todo'[t] # <<>> /\ Head(todo'[t]) = Own(n)'
          /\ \A i \in DOMAIN todo'[t] : Current(todo'[t][i], Own(n)')
      BY <3>1, <3>2, HelloFirst, ZenonT(20)
    <3>. QED  BY <2>6, <3>3, ZenonT(20)
  <2>7. conf[n] \in Conf
    BY ZenonT(20) DEF TypeOK
  <2>8. CASE Boot(n)
    <3>1. pc[t] = "idle"
      BY <2>8, ZenonT(20) DEF Boot, AInv, Stamping, t
    <3>. QED  BY <2>6, <2>7, <2>8, <3>1, ZenonT(20) DEF Boot, t
  <2>9. ASSUME NEW c \in Conf, conf'[n] = c, Announce(n, Main, Announcements(n, c)) PROVE <2>1!1
    BY <2>6, <2>9, ZenonT(20) DEF Announce, Idle, t
  <2>10. ASSUME NEW c \in Confs, Reload(n, Main, c) PROVE <2>1!1
    <3>1. c \in Conf /\ conf'[n] = c
      BY <2>10, GossipAssumption, ZenonT(20) DEF Reload, TypeOK
    <3>. QED  BY <2>9, <2>10, <3>1, ZenonT(20) DEF Reload
  <2>11. ASSUME NEW a \in Addr, Discover(n, Main, a) PROVE <2>1!1
    <3> DEFINE c == [conf[n] EXCEPT !.addr = a]
    <3>1. c \in Conf
      BY <2>7 DEF Conf
    <3>2. conf'[n] = c
      BY <2>11 DEF Discover, TypeOK
    <3>3. Announce(n, Main, Announcements(n, c))
      BY <2>11, ZenonT(20) DEF Discover
    <3> HIDE DEF c
    <3>. QED  BY <2>9, <3>1, <3>2, <3>3, ZenonT(20)
  <2>12. ASSUME NEW c \in Conn, Dial(n, Main, c) PROVE <2>1!1
    BY <2>7, <2>9, <2>12, ZenonT(20) DEF Dial
  <2>13. ASSUME NEW f \in LocalFact(n), AnnounceFact(n, Main, f) PROVE <2>1!1
    <3>1. f.id # HelloId(n)
      BY DEF LocalFact, SubnetFact, EdgeFact, SubnetId, EdgeId, HelloId
    <3>2. /\ UNCHANGED <<conf, phase, outbox, pc>> /\ pc[t] = "idle" /\ todo[t] = <<>>
          /\ phase[n] = "run" /\ Begin(t, <<f>>)
      BY <2>13, ZenonT(20) DEF AnnounceFact, Announce, Idle, planeVars, t
    <3>3. todo'[t] = <<f>>
      BY <2>t, <3>2, ZenonT(20) DEF Begin, TypeOK
    <3>4. \A i \in DOMAIN <<f>> : <<f>>[i] = f
      OBVIOUS
    <3>5. Own(n)' = Own(n)
      BY <2>2, <3>2, ZenonT(20)
    <3>6. outbox[n][HelloId(n)].fact = Own(n)
      <4>1. phase[n] # "down"
        BY <3>2
      <4>2. pc[t] # "store"
        BY <3>2
      <4>. QED  BY <2>0, <3>2, <4>1, <4>2, ZenonT(20)
    <3>7. Current(f, Own(n))
      BY <3>1 DEF Current, Own, Hello
    <3>8. pc'[t] # "store"
      BY <3>2
    <3>. QED  BY <3>2, <3>3, <3>4, <3>5, <3>6, <3>7, <3>8, ZenonT(20)
  <2>14. CASE Kept(n)
    <3>1. /\ conf'[n] = conf[n] /\ outbox'[n] = outbox[n] /\ todo'[t] = todo[t]
          /\ phase'[n] = "down" <=> phase[n] = "down"
          /\ \/ pc'[t] = pc[t] /\ env'[t] = env[t]
             \/ pc[t] \notin {"idle", "store"} /\ pc'[t] # "store"
      BY <2>14, ZenonT(20) DEF Kept, t
    <3>2. Own(n)' = Own(n)
      BY <2>2, <3>1, ZenonT(20)
    <3>. QED  BY <2>0, <3>1, <3>2, ZenonT(20)
  <2>15. Operate(n, Main) => \/ \E c \in Confs : Reload(n, Main, c)
                             \/ \E a \in Addr : Discover(n, Main, a)
                             \/ \E f \in LocalFact(n) : AnnounceFact(n, Main, f)
    BY <1>1, GossipAssumption, ZenonT(20) DEF Operate
  <2>. QED  BY <2>3, <2>4, <2>5, <2>8, <2>10, <2>11, <2>12, <2>13, <2>14, <2>15, MainStep,
               ZenonT(20) DEF AInv, t
<1>. QED  BY <1>1, <1>2, ZenonT(20) DEF HInv

(* With one announcing goroutine per node and no invitations, the Hello    *)
(* that a node at rest has in its outbox, and that its heartbeat repeats,  *)
(* is its own and carries its current address (announceLocal, originate).  *)
THEOREM OutboxIsCurrentHolds ==
  ASSUME OneAnnouncer, NoInvitation PROVE Spec => []OutboxIsCurrent
<1>1. Init => AInv
  BY GossipAssumption DEF Init, AInv, MainOnly, Stamping, Thread
<1>2. Init => HInv
  <2> SUFFICES ASSUME Init PROVE HInv
    OBVIOUS
  <2>1. budget["invite"] = 0
    BY ZenonT(20) DEF Init, NoInvitation
  <2>2. ASSUME NEW n \in Node PROVE Greeting(n)
    <3>1. phase[n] = "down" /\ pc[<<n, Main>>] = "idle" /\ todo[<<n, Main>>] = <<>>
      BY GossipAssumption DEF Init, Thread
    <3>. QED  BY <3>1 DEF Greeting
  <2>. QED  BY <2>1, <2>2, ZenonT(20) DEF HInv
<1>3. IInv /\ AInv /\ HInv /\ [Next]_vars => AInv' /\ HInv'
  BY StampingStep, GreetingStep, ZenonT(20) DEF IInv
<1>4. HInv => OutboxIsCurrent
  <2> SUFFICES ASSUME HInv, NEW n \in Node, phase[n] = "run", AtRest(n)
               PROVE  outbox[n][HelloId(n)].fact = Own(n)
    BY ZenonT(20) DEF OutboxIsCurrent, Own
  <2>1. <<n, Main>> \in Thread /\ <<n, Main>>[1] = n
    BY GossipAssumption DEF Thread
  <2>2. pc[<<n, Main>>] = "idle" /\ todo[<<n, Main>>] = <<>>
    BY <2>1, ZenonT(20) DEF AtRest, Idle
  <2>. QED  BY <2>2 DEF HInv, Greeting
<1>. QED  BY <1>1, <1>2, <1>3, <1>4, InitInv, NextInv, PTL DEF Spec

-----------------------------------------------------------------------------
(***************************************************************************)
(* A node at rest has applied the last version of everything it has        *)
(* recorded, if one goroutine of each daemon announces and the connections *)
(* form a forest: then the versions of a fact reach a node over one        *)
(* connection, one after the other, and the copies that come back over it  *)
(* or over another are no news to it.                                      *)
(***************************************************************************)

(***************************************************************************)
(* The connections form a forest: side[t] is the part of the network that  *)
(* lies beyond the connection of reader t.  The node itself does not, the  *)
(* other end of the connection does, and two connections of a node lead to *)
(* parts that have nothing in common and see each other through the node.  *)
(***************************************************************************)
Split(side) ==
  \A t, u \in Reader :
    /\ t[1] \notin side[t]
    /\ t # u /\ t[2] = u[2] => t[1] \in side[u]
    /\ t # u /\ t[1] = u[1] =>
         /\ side[t] \cap side[u] = {}
         /\ side[t] \subseteq side[<<Peer(u[1], u[2]), u[2]>>]
Forest == \E side \in [Reader -> SUBSET Node] : Split(side)
Beyond == CHOOSE side \in [Reader -> SUBSET Node] : Split(side)

Links(n) == {c \in Conn : n \in Ends(c)}
Queued(q) == {q[i] : i \in DOMAIN q}

(* Node n has recorded e or a later version of the same fact.              *)
Recorded(n, e) == e.ts <= seen[n][e.fact.id]

(* A connection is used by its own ends, and nothing waits on one that is  *)
(* closed and forgotten.                                                   *)
Slots ==
  /\ \A n \in Node : tracked[n] \subseteq Links(n)
  /\ \A t \in Thread : out[t] \subseteq Links(t[1])
  /\ \A t \in Reader : t[2] \notin open /\ t[2] \notin tracked[t[1]] => chan[t] = <<>>

(* The outbox, its repetition and the announcer deal in the node's own     *)
(* facts.                                                                  *)
OwnOnly ==
  /\ \A n \in Node, id \in FactId : outbox[n][id] # NoEnv =>
        Origin(outbox[n][id].fact.id) = n /\ Recorded(n, outbox[n][id])
  /\ \A t \in Thread : \A e \in resend[t] : Origin(e.fact.id) = t[1] /\ Recorded(t[1], e)
  /\ \A t \in Thread : t \notin Reader /\ pc[t] # "idle" => Origin(env[t].fact.id) = t[1]

(* What a thread passes on is recorded, and what it is about to apply is   *)
(* still the last version.                                                 *)
Holding ==
  \A t \in Thread :
    /\ pc[t] \notin {"idle", "store"} => Recorded(t[1], env[t])
    /\ pc[t] = "apply" => /\ env[t].ts = seen[t[1]][env[t].fact.id]
                          /\ t[2] = Main \/ t \in Reader

(* News comes from beyond the connection; the rest is recorded already.    *)
(* What travels on an open connection, its sender has recorded.            *)
OneWay ==
  \A t \in Reader :
    /\ pc[t] # "idle" =>
         /\ Origin(env[t].fact.id) \in Beyond[t]
         /\ t[2] \in open => Recorded(Peer(t[1], t[2]), env[t])
    /\ \A e \in Queued(chan[t]) :
         /\ Origin(e.fact.id) \in Beyond[t] \/ Recorded(t[1], e)
         /\ t[2] \in open => Recorded(Peer(t[1], t[2]), e)

TreeInv == Slots /\ OwnOnly /\ Holding /\ OneWay

-----------------------------------------------------------------------------
(* The connections of one hub, one to each peer, are a forest; so are the  *)
(* one connection of two nodes and the line of three.                      *)
LEMMA StarIsForest ==
  ASSUME NEW hub \in Node, \A c \in Conn : hub \in Ends(c),
         \A c, d \in Conn : Peer(hub, c) = Peer(hub, d) => c = d
  PROVE  Forest
<1> DEFINE side == [t \in Reader |-> IF t[1] = hub THEN {Peer(hub, t[2])} ELSE Node \ {t[1]}]
<1>1. ASSUME NEW c \in Conn PROVE Peer(hub, c) \in Node /\ Peer(hub, c) # hub
  BY <1>1, GossipAssumption DEF Peer, Ends
<1>2. ASSUME NEW t \in Reader
      PROVE  /\ t[1] \in Node /\ t[2] \in Conn /\ t = <<t[1], t[2]>>
             /\ t[1] # hub => t[1] = Peer(hub, t[2]) /\ Peer(t[1], t[2]) = hub
  BY GossipAssumption DEF Reader, Ends, Peer
<1>3. side \in [Reader -> SUBSET Node]
  BY <1>1, <1>2
<1>4. \A t \in Reader : side[t] = IF t[1] = hub THEN {Peer(hub, t[2])} ELSE Node \ {t[1]}
  BY ZenonT(20)
<1> HIDE DEF side
<1>5. ASSUME NEW t \in Reader PROVE t[1] \notin side[t]
  <2>1. CASE t[1] = hub
    <3>1. side[t] = {Peer(hub, t[2])} /\ Peer(hub, t[2]) # hub
      BY <1>1, <1>2, <1>4, <2>1, ZenonT(20)
    <3>. QED  BY <2>1, <3>1
  <2>2. CASE t[1] # hub
    BY <1>4, <2>2, ZenonT(20)
  <2>. QED  BY <2>1, <2>2
<1>6. ASSUME NEW t \in Reader, NEW u \in Reader, t # u, t[2] = u[2] PROVE t[1] \in side[u]
  <2>1. t[1] # u[1] /\ t[1] \in Node
    BY <1>2, <1>6, ZenonT(20)
  <2>2. CASE u[1] = hub
    BY <1>2, <1>4, <1>6, <2>1, <2>2, ZenonT(20)
  <2>3. CASE u[1] # hub
    BY <1>4, <2>1, <2>3, ZenonT(20)
  <2>. QED  BY <2>2, <2>3
<1>7. ASSUME NEW t \in Reader, NEW u \in Reader, t # u, t[1] = u[1]
      PROVE  /\ side[t] \cap side[u] = {}
             /\ side[t] \subseteq side[<<Peer(u[1], u[2]), u[2]>>]
  <2>1. t[2] # u[2] /\ t[2] \in Conn /\ u[2] \in Conn
    BY <1>2, <1>7
  <2>2. t[1] = hub
    BY <1>2, <1>7, <2>1
  <2>3. Peer(hub, t[2]) # Peer(hub, u[2])
    BY <2>1, ZenonT(20)
  <2>4. <<Peer(hub, u[2]), u[2]>> \in Reader
    BY <2>1, GossipAssumption DEF Reader, Peer, Ends
  <2>5. side[<<Peer(hub, u[2]), u[2]>>] = Node \ {Peer(hub, u[2])}
    BY <1>1, <1>4, <2>1, <2>4, ZenonT(20)
  <2>. QED  BY <1>1, <1>4, <1>7, <2>1, <2>2, <2>3, <2>5, ZenonT(30)
<1>8. Split(side)
  BY <1>5, <1>6, <1>7, ZenonT(20) DEF Split
<1>. QED  BY <1>3, <1>8, ZenonT(20) DEF Forest

(* A forest has its sides.                                                 *)
LEMMA Sides ==
  ASSUME Forest PROVE Beyond \in [Reader -> SUBSET Node] /\ Split(Beyond)
BY ZenonT(20) DEF Forest, Beyond

(* The two readers of a connection are at its two ends.                    *)
LEMMA Mates ==
  ASSUME NEW t \in Reader
  PROVE  /\ t \in Thread /\ t[1] \in Node /\ t[2] \in Conn /\ t = <<t[1], t[2]>>
         /\ t[2] \in Links(t[1])
         /\ Peer(t[1], t[2]) \in Node /\ Peer(t[1], t[2]) # t[1]
         /\ t[2] \in Links(Peer(t[1], t[2]))
         /\ t[2] # Main /\ t[2] # Heart
BY GossipAssumption DEF Reader, Thread, Links, Peer, Ends

(* From either end of a connection, the other end's peer is this one.      *)
LEMMA PeerOfPeer ==
  ASSUME NEW n \in Node, NEW c \in Links(n)
  PROVE  /\ <<n, c>> \in Reader /\ <<Peer(n, c), c>> \in Reader
         /\ Peer(n, c) # n /\ Peer(Peer(n, c), c) = n
BY GossipAssumption DEF Reader, Links, Peer, Ends

(* What the operations on a queue leave in it.                             *)
LEMMA Queues ==
  ASSUME NEW S, NEW q \in Seq(S), NEW x \in S
  PROVE  /\ Queued(Append(q, x)) = Queued(q) \cup {x}
         /\ q # <<>> => Queued(Tail(q)) \subseteq Queued(q) /\ Head(q) \in Queued(q)
<1>1. DOMAIN q = 1..Len(q) /\ Len(q) \in Nat
  OBVIOUS
<1>2. Queued(Append(q, x)) = Queued(q) \cup {x}
  <2>1. /\ DOMAIN Append(q, x) = 1..(Len(q) + 1)
        /\ \A i \in 1..Len(q) : Append(q, x)[i] = q[i]
        /\ Append(q, x)[Len(q) + 1] = x
    BY <1>1
  <2>2. 1..(Len(q) + 1) = (1..Len(q)) \cup {Len(q) + 1}
    BY <1>1
  <2>. QED  BY <1>1, <2>1, <2>2, ZenonT(20) DEF Queued
<1>3. ASSUME q # <<>> PROVE Queued(Tail(q)) \subseteq Queued(q) /\ Head(q) \in Queued(q)
  <2>1. /\ DOMAIN Tail(q) = 1..(Len(q) - 1)
        /\ \A i \in 1..(Len(q) - 1) : Tail(q)[i] = q[i + 1] /\ i + 1 \in 1..Len(q)
        /\ Head(q) = q[1] /\ 1 \in 1..Len(q)
    BY <1>1, <1>3
  <2>. QED  BY <1>1, <2>1 DEF Queued
<1>. QED  BY <1>2, <1>3

(* Nothing is in an empty queue.                                           *)
LEMMA EmptyQueue == Queued(<<>>) = {}
BY DEF Queued

-----------------------------------------------------------------------------
(* What a step does to one thread.                                         *)
LEMMA ThreadMoves ==
  ASSUME TypeOK, [Next]_vars, NEW t \in Thread
  PROVE  \/ pc'[t] = "idle"
         \/ pc'[t] = pc[t] /\ env'[t] = env[t]
         \/ Stamp(t) \/ Store(t)
         \/ pc[t] \notin {"idle", "store"} /\ pc'[t] \in {"bcast", "send"} /\ env'[t] = env[t]
         \/ t[2] = Heart /\ pc'[t] = "bcast" /\ env'[t] \in resend[t] /\ seen' = seen
         \/ /\ t \in Reader /\ Receive(t) /\ seen' # seen
            /\ pc'[t] = "apply" /\ env'[t] = Head(chan[t])
<1> DEFINE Move == \/ pc'[t] = "idle"
                   \/ pc'[t] = pc[t] /\ env'[t] = env[t]
                   \/ Stamp(t) \/ Store(t)
                   \/ /\ pc[t] \notin {"idle", "store"} /\ pc'[t] \in {"bcast", "send"}
                      /\ env'[t] = env[t]
                   \/ t[2] = Heart /\ pc'[t] = "bcast" /\ env'[t] \in resend[t] /\ seen' = seen
                   \/ /\ t \in Reader /\ Receive(t) /\ seen' # seen
                      /\ pc'[t] = "apply" /\ env'[t] = Head(chan[t])
<1> HIDE DEF Move
<1> USE DEF planeVars, threadVars, envVars
<1>0. pc \in [Thread -> {"idle", "store", "apply", "bcast", "send"}]
      /\ env \in [Thread -> Envelope \cup {NoEnv}]
  BY DEF TypeOK
<1>1. ASSUME NEW u \in Thread, NEW v, NEW x, u # t, pc' = [pc EXCEPT ![u] = v],
             env' = [env EXCEPT ![u] = x] \/ env' = env
      PROVE  Move
  BY <1>0, <1>1, ZenonT(20) DEF Move
<1>2. ASSUME UNCHANGED <<pc, env>> PROVE Move
  BY <1>2, ZenonT(20) DEF Move
<1>3. ASSUME NEW u \in Thread, Stamp(u) \/ Store(u) PROVE Move
  <2>1. CASE u = t
    BY <1>3, <2>1, ZenonT(20) DEF Move
  <2>2. CASE u # t
    BY <1>1, <1>3, <2>2, ZenonT(20) DEF Stamp, Store
  <2>. QED  BY <2>1, <2>2, ZenonT(20)
<1>4. ASSUME NEW u \in Thread, Apply(u) \/ SendNone(u) \/ \E c \in Conn : Send(u, c)
      PROVE  Move
  <2>1. /\ pc[u] \notin {"idle", "store"}
        /\ \/ Return(u)
           \/ \E v \in {"bcast", "send"} : pc' = [pc EXCEPT ![u] = v] /\ env' = env
    BY <1>4, ZenonT(20) DEF Apply, SendNone, Send
  <2>2. CASE u = t
    BY <1>0, <2>1, <2>2, ZenonT(20) DEF Move, Return
  <2>3. CASE u # t
    BY <1>1, <2>1, <2>3, ZenonT(20) DEF Return
  <2>. QED  BY <2>2, <2>3, ZenonT(20)
<1>5. ASSUME NEW u \in Reader, Receive(u) PROVE Move
  <2>1. u \in Thread
    BY ZenonT(20) DEF Reader, Thread
  <2>2. CASE u # t
    BY <1>1, <1>2, <1>5, <2>1, <2>2, ZenonT(20) DEF Receive
  <2>3. CASE u = t /\ ~UNCHANGED <<pc, env>>
    <3>1. /\ pc' = [pc EXCEPT ![t] = "apply"] /\ env' = [env EXCEPT ![t] = Head(chan[t])]
          /\ seen' = [seen EXCEPT ![t[1]][Head(chan[t]).fact.id] = Head(chan[t]).ts]
          /\ Newer(t[1], Head(chan[t])) /\ chan[t] # <<>> /\ t \in Reader
      BY <1>5, <2>3, ZenonT(20) DEF Receive
    <3>2. seen' # seen
      <4>1. /\ seen \in [Node -> [FactId -> Nat]] /\ t[1] \in Node
            /\ chan[t] \in Seq(Envelope)
        BY <3>1, ZenonT(20) DEF TypeOK, Reader
      <4>2. Head(chan[t]) \in Envelope
        BY <3>1, <4>1, HeadTailProperties, ZenonT(20)
      <4> DEFINE e == Head(chan[t])
      <4>3. e.fact.id \in FactId /\ e.ts \in Nat
        BY <4>2, FactShape, ZenonT(20) DEF Envelope
      <4>4. seen'[t[1]][e.fact.id] = e.ts
        BY <3>1, <4>1, <4>3, ZenonT(20)
      <4>5. e.ts # seen[t[1]][e.fact.id]
        <5>1. seen[t[1]][e.fact.id] \in Nat /\ e.ts > seen[t[1]][e.fact.id]
          BY <3>1, <4>1, <4>3, ZenonT(20) DEF Newer
        <5>. QED  BY <4>3, <5>1
      <4>. QED  BY <4>4, <4>5, ZenonT(20)
    <3>. QED  BY <1>0, <1>5, <2>3, <3>1, <3>2, ZenonT(20) DEF Move
  <2>. QED  BY <1>2, <2>2, <2>3, ZenonT(20)
<1>6. ASSUME NEW n \in Node, Resend(n) PROVE Move
  <2>1. <<n, Heart>> \in Thread /\ <<n, Heart>>[2] = Heart
    BY DEF Thread
  <2>2. CASE t = <<n, Heart>>
    BY <1>0, <1>6, <2>1, <2>2, ZenonT(20) DEF Move, Resend
  <2>3. CASE t # <<n, Heart>>
    BY <1>1, <1>6, <2>1, <2>3, ZenonT(20) DEF Resend
  <2>. QED  BY <2>2, <2>3, ZenonT(20)
<1>7. ASSUME NEW n \in Node, Crash(n) PROVE Move
  <2>1. /\ pc' = [u \in Thread |-> IF u[1] = n THEN "idle" ELSE pc[u]]
        /\ env' = [u \in Thread |-> IF u[1] = n THEN NoEnv ELSE env[u]]
    BY <1>7, ZenonT(20) DEF Crash
  <2>. QED  BY <2>1, ZenonT(20) DEF Move
<1>8. ASSUME NEW n \in Node, Heartbeat(n) \/ Boot(n) \/ Serve(n) PROVE UNCHANGED <<pc, env>>
  BY <1>8, ZenonT(20) DEF Heartbeat, Boot, Serve
<1>9. ASSUME NEW n \in Node, NEW w \in Worker, Operate(n, w) \/ \E c \in Conn : Dial(n, w, c)
      PROVE  UNCHANGED <<pc, env>>
  BY <1>9, ZenonT(20) DEF Operate, Reload, Discover, AnnounceFact, InviteJoin, Dial, Announce
<1>10. ASSUME NEW c \in Conn, Accept(c) \/ Break(c) PROVE UNCHANGED <<pc, env>>
  BY <1>10, ZenonT(20) DEF Accept, Break
<1>11. ASSUME NEW u \in Reader, Untrack(u) PROVE UNCHANGED <<pc, env>>
  BY <1>11, ZenonT(20) DEF Untrack
<1>12. ASSUME UNCHANGED vars PROVE Move
  BY <1>2, <1>12, ZenonT(20) DEF vars
<1>13. Move
  BY <1>2, <1>3, <1>4, <1>5, <1>6, <1>7, <1>8, <1>9, <1>10, <1>11, <1>12, ZenonT(20)
  DEF Next, Step
<1>. QED  BY <1>13, ZenonT(20) DEF Move

(* What a step does to one queue: it takes from it, or a broadcast over    *)
(* the open connection adds to it.                                         *)
LEMMA ChanMoves ==
  ASSUME IInv, [Next]_vars, NEW t \in Reader
  PROVE  \/ Queued(chan'[t]) \subseteq Queued(chan[t])
         \/ \E u \in Thread, c \in open :
              /\ pc[u] \notin {"idle", "store"} /\ c \in Pool(u) /\ t = <<Peer(u[1], c), c>>
              /\ Queued(chan'[t]) = Queued(chan[t]) \cup {env[u]}
<1> DEFINE Less == Queued(chan'[t]) \subseteq Queued(chan[t])
<1> USE DEF netVars
<1>0. TypeOK /\ chan \in [Reader -> Seq(Envelope)] /\ chan[t] \in Seq(Envelope)
  BY ZenonT(20) DEF IInv, TypeOK
<1>1. ASSUME chan'[t] \in {chan[t], <<>>} PROVE Less
  BY <1>1, EmptyQueue, SMTT(20)
<1>2. ASSUME NEW u \in Thread, NEW c \in Conn, Send(u, c), ~Less
      PROVE  /\ pc[u] \notin {"idle", "store"} /\ c \in open /\ c \in Pool(u)
             /\ t = <<Peer(u[1], c), c>>
             /\ Queued(chan'[t]) = Queued(chan[t]) \cup {env[u]}
  <2> DEFINE to == <<Peer(u[1], c), c>>
  <2>1. pc[u] \notin {"idle", "store"} /\ c \in Pool(u)
    BY <1>2, ZenonT(20) DEF Send
  <2>2. c \in open /\ chan' = [chan EXCEPT ![to] = Append(@, env[u])]
    BY <1>1, <1>2, ZenonT(20) DEF Send
  <2>3. t = to
    BY <1>0, <1>1, <1>2, <2>2, ZenonT(20)
  <2>4. env[u] \in Envelope
    BY <2>1, HeldFact, ZenonT(20)
  <2>5. chan'[t] = Append(chan[t], env[u])
    BY <1>0, <2>2, <2>3, ZenonT(20)
  <2>6. Queued(Append(chan[t], env[u])) = Queued(chan[t]) \cup {env[u]}
    BY <1>0, <2>4, Queues, ZenonT(20)
  <2>. QED  BY <2>1, <2>2, <2>3, <2>5, <2>6
<1>3. ASSUME NEW u \in Reader, Receive(u) PROVE Less
  <2>1. chan' = [chan EXCEPT ![u] = Tail(chan[u])] /\ chan[u] # <<>>
    BY <1>3, ZenonT(20) DEF Receive
  <2>2. CASE u = t
    <3>1. chan'[t] = Tail(chan[t]) /\ chan[t] # <<>>
      BY <1>0, <2>1, <2>2, ZenonT(20)
    <3>2. Head(chan[t]) \in Envelope
      BY <1>0, <3>1, HeadTailProperties, ZenonT(20)
    <3>. QED  BY <1>0, <3>1, <3>2, Queues, ZenonT(20)
  <2>3. CASE u # t
    BY <1>0, <1>1, <2>1, <2>3, ZenonT(20)
  <2>. QED  BY <2>2, <2>3, ZenonT(20)
<1>4. ASSUME NEW u \in Reader, Untrack(u) PROVE Less
  BY <1>0, <1>1, <1>4, ZenonT(20) DEF Untrack
<1>5. ASSUME NEW cs, Disconnect(cs) PROVE Less
  BY <1>1, <1>5, ZenonT(20) DEF Disconnect
<1>6. ASSUME NEW n \in Node, Crash(n) PROVE Less
  BY <1>5, <1>6, ZenonT(20) DEF Crash
<1>7. ASSUME NEW c \in Conn, Accept(c) \/ Break(c) PROVE Less
  BY <1>1, <1>5, <1>7, ZenonT(20) DEF Accept, Break
<1>8. ASSUME UNCHANGED chan PROVE Less
  BY <1>8, ZenonT(20)
<1>9. ASSUME NEW u \in Thread, Stamp(u) \/ Store(u) \/ Apply(u) \/ SendNone(u) PROVE Less
  BY <1>8, <1>9, ZenonT(20) DEF Stamp, Store, Apply, SendNone
<1>10. ASSUME NEW n \in Node, Heartbeat(n) \/ Resend(n) \/ Boot(n) \/ Serve(n) PROVE Less
  BY <1>8, <1>10, ZenonT(20) DEF Heartbeat, Resend, Boot, Serve
<1>11. ASSUME NEW n \in Node, NEW w \in Worker, Operate(n, w) \/ \E c \in Conn : Dial(n, w, c)
       PROVE  Less
  BY <1>8, <1>11, ZenonT(20)
  DEF Operate, Reload, Discover, AnnounceFact, InviteJoin, Dial, Connect
<1>12. ASSUME UNCHANGED vars PROVE Less
  BY <1>8, <1>12, ZenonT(20) DEF vars
<1>13. Less \/ \E u \in Thread, c \in Conn : Send(u, c)
  BY <1>3, <1>4, <1>6, <1>7, <1>9, <1>10, <1>11, <1>12, ZenonT(20) DEF Next, Step
<1>. QED  BY <1>2, <1>13, ZenonT(20)

(* A connection is opened on a slot that nobody uses, and closed when one  *)
(* of its ends crashes.                                                    *)
LEMMA OpenMoves ==
  ASSUME [Next]_vars
  PROVE  /\ \A c \in open' : c \in open \/ (Free(c) /\ UNCHANGED <<chan, pc>>)
         /\ \A n \in Node : Crash(n) => open' \cap Links(n) = {}
<1> USE DEF netVars, threadVars
<1>1. ASSUME NEW n \in Node, NEW w \in Worker, NEW c \in Conn, Dial(n, w, c)
      PROVE  /\ open' \subseteq open \cup {c} /\ UNCHANGED pc
             /\ open' = open \/ (Free(c) /\ UNCHANGED chan)
  BY <1>1, ZenonT(20) DEF Dial, Connect, Announce
<1>2. ASSUME NEW cs, Disconnect(cs) PROVE open' \subseteq open /\ open' \cap cs = {}
  BY <1>2, ZenonT(20) DEF Disconnect
<1>3. ASSUME NEW t \in Thread, Step(t) PROVE open' = open
  BY <1>3, ZenonT(20) DEF Step, Stamp, Store, Apply, SendNone, Send
<1>4. ASSUME NEW t \in Reader, Receive(t) \/ Untrack(t) PROVE open' = open
  BY <1>4, ZenonT(20) DEF Receive, Untrack
<1>5. ASSUME NEW n \in Node, Heartbeat(n) \/ Resend(n) \/ Boot(n) \/ Serve(n) PROVE open' = open
  BY <1>5, ZenonT(20) DEF Heartbeat, Resend, Boot, Serve
<1>6. ASSUME NEW n \in Node, NEW w \in Worker, Operate(n, w) PROVE open' = open
  BY <1>6, ZenonT(20) DEF Operate, Reload, Discover, AnnounceFact, InviteJoin
<1>7. ASSUME NEW c \in Conn, Accept(c) PROVE open' = open
  BY <1>7, ZenonT(20) DEF Accept
<1>8. ASSUME NEW c \in Conn, Break(c) PROVE open' \subseteq open
  BY <1>2, <1>8, ZenonT(20) DEF Break
<1>9. ASSUME NEW n \in Node, Crash(n) PROVE open' \subseteq open /\ open' \cap Links(n) = {}
  BY <1>2, <1>9, ZenonT(20) DEF Crash, Links
<1>10. UNCHANGED vars => open' = open
  BY ZenonT(20) DEF vars
<1>11. (\E n \in Node, w \in Worker, c \in Conn : Dial(n, w, c)) \/ open' \subseteq open
  BY <1>3, <1>4, <1>5, <1>6, <1>7, <1>8, <1>9, <1>10, ZenonT(20) DEF Next
<1>12. \A c \in open' : c \in open \/ (Free(c) /\ UNCHANGED <<chan, pc>>)
  BY <1>1, <1>11, ZenonT(20)
<1>. QED  BY <1>9, <1>12, ZenonT(20)

(* An entry that is filed is found.                                        *)
LEMMA FiledHere ==
  ASSUME NEW V, NEW s \in [Node -> [FactId -> V]], NEW v, NEW n \in Node, NEW j \in FactId
  PROVE  [s EXCEPT ![n][j] = v][n][j] = v
OBVIOUS

(* Filing one entry leaves the others of every node alone.                 *)
LEMMA FiledElsewhere ==
  ASSUME NEW V, NEW s \in [Node -> [FactId -> V]], NEW m, NEW i, NEW v, NEW n \in Node,
         NEW j \in FactId, ~(m = n /\ i = j)
  PROVE  [s EXCEPT ![m][i] = v][n][j] = s[n][j]
OBVIOUS

(* What a step does to one entry of the dedup table.                       *)
EntryStep(n, id) ==
  \/ seen'[n][id] = seen[n][id]
  \/ Store(<<n, Main>>) /\ env[<<n, Main>>].fact.id = id
  \/ \E u \in Reader : u[1] = n /\ Receive(u) /\ seen' # seen /\ Head(chan[u]).fact.id = id

(* An entry is written by the announcer or by a reader that claims.        *)
LEMMA SeenMoves ==
  ASSUME IInv, AInv, [Next]_vars, NEW n \in Node, NEW id \in FactId, ~Crash(n)
  PROVE  EntryStep(n, id)
<1>0. seen \in [Node -> [FactId -> Nat]]
  BY ZenonT(20) DEF IInv, TypeOK
<1>1. ASSUME NEW m, NEW i, NEW v, seen' = [seen EXCEPT ![m][i] = v], ~(m = n /\ i = id)
      PROVE  seen'[n][id] = seen[n][id]
  <2>1. [seen EXCEPT ![m][i] = v][n][id] = seen[n][id]
    BY <1>0, <1>1, FiledElsewhere
  <2>. QED  BY <1>1, <2>1, ZenonT(20)
<1>2. ASSUME NEW t \in Thread, Store(t), seen'[n][id] # seen[n][id]
      PROVE  Store(<<n, Main>>) /\ env[<<n, Main>>].fact.id = id
  <2>0. seen' = [seen EXCEPT ![t[1]][env[t].fact.id] = env[t].ts]
    BY <1>2, ZenonT(20) DEF Store
  <2>1. t[1] = n /\ env[t].fact.id = id
    BY <1>1, <1>2, <2>0
  <2>2. t[2] = Main
    BY <1>2, ZenonT(20) DEF AInv, MainOnly, Store
  <2>3. t = <<n, Main>>
    BY <2>1, <2>2, SMTT(20) DEF Thread
  <2>. QED  BY <1>2, <2>1, <2>3, ZenonT(20)
<1>3. ASSUME NEW u \in Reader, Receive(u), seen'[n][id] # seen[n][id]
      PROVE  u[1] = n /\ seen' # seen /\ Head(chan[u]).fact.id = id
  <2>1. seen' # seen
    BY <1>3, ZenonT(20)
  <2>2. seen' = [seen EXCEPT ![u[1]][Head(chan[u]).fact.id] = Head(chan[u]).ts]
    BY <1>3, <2>1, ZenonT(20) DEF Receive
  <2>. QED  BY <1>1, <1>3, <2>1, <2>2
<1>4. ASSUME NEW m \in Node, Crash(m) PROVE seen'[n][id] = seen[n][id]
  <2>1. m # n
    BY <1>4, ZenonT(20)
  <2>. QED  BY <1>0, <1>4, <2>1, ZenonT(20) DEF Crash
<1>5. ASSUME NEW t \in Thread, Stamp(t) PROVE seen' = seen
  BY <1>5, ZenonT(20) DEF Stamp, planeVars
<1>. QED  BY <1>2, <1>3, <1>4, <1>5, OtherSteps, ZenonT(20) DEF EntryStep

(* What is recorded stays recorded until the node crashes.                 *)
LEMMA RecordedStays ==
  ASSUME IInv, IInv', AInv, [Next]_vars, NEW n \in Node, ~Crash(n), NEW e \in Envelope,
         Recorded(n, e)
  PROVE  e.ts <= seen'[n][e.fact.id]
<1>1. e.fact.id \in FactId /\ e.ts \in Nat
  BY FactShape, ZenonT(20) DEF Envelope
<1>2. seen[n][e.fact.id] \in Nat /\ seen'[n][e.fact.id] \in Nat
  <2>1. seen \in [Node -> [FactId -> Nat]] /\ seen' \in [Node -> [FactId -> Nat]]
    BY ZenonT(20) DEF IInv, TypeOK
  <2>. QED  BY <1>1, <2>1, ZenonT(20)
<1>3. seen'[n][e.fact.id] >= seen[n][e.fact.id]
  BY <1>1, SeenStep, ZenonT(20)
<1>4. e.ts <= seen[n][e.fact.id]
  BY ZenonT(20) DEF Recorded
<1>. QED  BY <1>1, <1>2, <1>3, <1>4

-----------------------------------------------------------------------------
(* Connections are used by their ends, and a forgotten one is empty.       *)
LEMMA SlotsStep ==
  ASSUME IInv, Slots, [Next]_vars PROVE Slots'
<1> DEFINE Empty(t) == t[2] \notin open /\ t[2] \notin tracked[t[1]] => chan[t] = <<>>
           EmptyP(t) == t[2] \notin open' /\ t[2] \notin tracked'[t[1]] => chan'[t] = <<>>
           Good == /\ \A n \in Node : tracked'[n] \subseteq Links(n)
                   /\ \A t \in Thread : out'[t] \subseteq Links(t[1])
                   /\ \A t \in Reader : EmptyP(t)
<1> USE DEF netVars, threadVars
<1>0. /\ \A n \in Node : tracked[n] \subseteq Links(n)
      /\ \A t \in Thread : out[t] \subseteq Links(t[1])
      /\ \A t \in Reader : Empty(t)
  BY ZenonT(20) DEF Slots
<1>t. /\ tracked \in [Node -> SUBSET Conn] /\ out \in [Thread -> SUBSET Conn]
      /\ chan \in [Reader -> Seq(Envelope)] /\ open \subseteq Conn
  BY ZenonT(20) DEF IInv, TypeOK
<1>1. ASSUME UNCHANGED <<tracked, out, chan, open>> PROVE Good
  BY <1>0, <1>1, ZenonT(20)
<1>2. ASSUME NEW u \in Thread, NEW c \in Conn, Send(u, c) PROVE Good
  <2>1. UNCHANGED <<open, tracked>>
    BY <1>2, ZenonT(20) DEF Send
  <2>2. out' = [out EXCEPT ![u] = {}] \/ out' = [out EXCEPT ![u] = Pool(u) \ {c}]
    BY <1>2, ZenonT(20) DEF Send, Return
  <2>3. Pool(u) \subseteq Links(u[1])
    BY <1>0, ZenonT(20) DEF Pool, Thread
  <2>4. \A t \in Thread : out'[t] \subseteq Links(t[1])
    BY <1>0, <1>t, <2>2, <2>3, ZenonT(20)
  <2>5. c \in open => \A t \in Reader : t[2] = c => EmptyP(t)
    BY <2>1, ZenonT(20)
  <2>6. \A t \in Reader : chan'[t] = chan[t] \/ (t[2] = c /\ c \in open)
    <3>1. chan' = chan \/ (c \in open /\ \E v : chan' = [chan EXCEPT ![<<Peer(u[1], c), c>>] = v])
      BY <1>2, ZenonT(20) DEF Send
    <3>2. <<Peer(u[1], c), c>>[2] = c
      OBVIOUS
    <3>. QED  BY <1>t, <3>1, <3>2, ZenonT(20)
  <2>. QED  BY <1>0, <2>1, <2>4, <2>5, <2>6, ZenonT(20)
<1>3. ASSUME NEW u \in Thread, SendNone(u) PROVE Good
  <2>1. UNCHANGED <<open, tracked, chan>> /\ out' = [out EXCEPT ![u] = {}]
    BY <1>3, ZenonT(20) DEF SendNone, Return
  <2>. QED  BY <1>0, <1>t, <2>1, ZenonT(20)
<1>4. ASSUME NEW u \in Reader, Receive(u) PROVE Good
  <2>1. UNCHANGED <<open, tracked, out>> /\ u[2] \in tracked[u[1]]
        /\ chan' = [chan EXCEPT ![u] = Tail(chan[u])]
    BY <1>4, ZenonT(20) DEF Receive
  <2>. QED  BY <1>0, <1>t, <2>1, ZenonT(20)
<1>5. ASSUME NEW u \in Reader, Untrack(u) PROVE Good
  <2>1. UNCHANGED <<open, out>> /\ tracked' = [tracked EXCEPT ![u[1]] = @ \ {u[2]}]
        /\ chan' = [chan EXCEPT ![u] = <<>>]
    BY <1>5, ZenonT(20) DEF Untrack
  <2>2. \A n \in Node : tracked'[n] \subseteq tracked[n]
    BY <1>t, <2>1, ZenonT(20)
  <2>3. ASSUME NEW t \in Reader, t # u PROVE EmptyP(t)
    <3>1. chan'[t] = chan[t]
      BY <1>t, <2>1, <2>3, ZenonT(20)
    <3>2. t[1] \in Node /\ (t[1] # u[1] \/ t[2] # u[2])
      BY <2>3, Mates
    <3>3. t[2] \in tracked[t[1]] => t[2] \in tracked'[t[1]]
      BY <1>t, <2>1, <3>2, ZenonT(20)
    <3>. QED  BY <1>0, <2>1, <3>1, <3>3, ZenonT(20)
  <2>4. EmptyP(u)
    BY <1>t, <2>1, ZenonT(20)
  <2>. QED  BY <1>0, <2>1, <2>2, <2>3, <2>4, ZenonT(20)
<1>6. ASSUME NEW n \in Node, NEW c \in Conn, c \in Links(n), UNCHANGED <<chan, out>>,
             open' = open \cup {c} \/ open' = open,
             tracked' = [tracked EXCEPT ![n] = @ \cup {c}]
      PROVE  Good
  <2>1. \A m \in Node : tracked[m] \subseteq tracked'[m] /\ tracked'[m] \subseteq Links(m)
    BY <1>0, <1>t, <1>6, ZenonT(20)
  <2>2. \A t \in Reader : EmptyP(t)
    BY <1>0, <1>6, <2>1, Mates, ZenonT(20)
  <2>. QED  BY <1>0, <1>6, <2>1, <2>2, ZenonT(20)
<1>7. ASSUME NEW n \in Node, NEW w \in Worker, NEW c \in Conn, Dial(n, w, c) PROVE Good
  <2>1. c \in Links(n) /\ out' = out
    BY <1>7, ZenonT(20) DEF Dial, Links, Ends, Announce
  <2>. QED  BY <1>1, <1>6, <1>7, <2>1, ZenonT(20) DEF Dial, Connect
<1>8. ASSUME NEW c \in Conn, Accept(c) PROVE Good
  <2>1. Acceptor[c] \in Node /\ c \in Links(Acceptor[c])
    BY GossipAssumption, ZenonT(20) DEF Links, Ends
  <2>. QED  BY <1>6, <1>8, <2>1, ZenonT(20) DEF Accept
<1>9. ASSUME NEW c \in Conn, Break(c) PROVE Good
  <2>1. UNCHANGED <<tracked, out>> /\ open' = open \ {c}
        /\ chan' = [t \in Reader |-> IF t[2] \in {c} \ tracked'[t[1]] THEN <<>> ELSE chan[t]]
    BY <1>9, ZenonT(20) DEF Break, Disconnect
  <2>. QED  BY <1>0, <2>1, ZenonT(20)
<1>10. ASSUME NEW n \in Node, Crash(n) PROVE Good
  <2>1. /\ tracked' = [tracked EXCEPT ![n] = {}]
        /\ out' = [t \in Thread |-> IF t[1] = n THEN {} ELSE out[t]]
        /\ open' = open \ Links(n)
        /\ chan' = [t \in Reader |-> IF t[2] \in Links(n) \ tracked'[t[1]] THEN <<>> ELSE chan[t]]
    BY <1>10, ZenonT(20) DEF Crash, Disconnect, Links
  <2>2. \A m \in Node : tracked'[m] = IF m = n THEN {} ELSE tracked[m]
    BY <1>t, <2>1, ZenonT(20)
  <2>3. ASSUME NEW t \in Reader PROVE EmptyP(t)
    <3>1. CASE t[2] \in Links(n)
      BY <2>1, <3>1, ZenonT(20)
    <3>2. CASE t[2] \notin Links(n)
      <4>1. t[1] # n /\ t[1] \in Node
        BY <3>2, Mates, ZenonT(20)
      <4>. QED  BY <1>0, <2>1, <2>2, <3>2, <4>1, ZenonT(20)
    <3>. QED  BY <3>1, <3>2, ZenonT(20)
  <2>4. \A t \in Thread : out'[t] \subseteq Links(t[1])
    BY <1>0, <2>1, ZenonT(20)
  <2>5. \A m \in Node : tracked'[m] \subseteq Links(m)
    BY <1>0, <2>2, ZenonT(20)
  <2>. QED  BY <2>3, <2>4, <2>5, ZenonT(20)
<1>11. ASSUME NEW u \in Thread, Stamp(u) \/ Store(u) \/ Apply(u) PROVE Good
  BY <1>1, <1>11, ZenonT(20) DEF Stamp, Store, Apply
<1>12. ASSUME NEW n \in Node, Heartbeat(n) \/ Resend(n) \/ Boot(n) \/ Serve(n) PROVE Good
  BY <1>1, <1>12, ZenonT(20) DEF Heartbeat, Resend, Boot, Serve
<1>13. ASSUME NEW n \in Node, NEW w \in Worker, Operate(n, w) PROVE Good
  BY <1>1, <1>13, ZenonT(20) DEF Operate, Reload, Discover, AnnounceFact, InviteJoin, Announce
<1>14. ASSUME UNCHANGED vars PROVE Good
  BY <1>1, <1>14, ZenonT(20) DEF vars
<1>15. Good
  BY <1>2, <1>3, <1>4, <1>5, <1>7, <1>8, <1>9, <1>10, <1>11, <1>12, <1>13, <1>14, ZenonT(20)
  DEF Next, Step
<1>. QED  BY <1>15, ZenonT(20) DEF Slots

(* What a step does to the outbox, and to what is left to repeat of it.    *)
LEMMA OutboxMoves ==
  ASSUME IInv, AInv, [Next]_vars
  PROVE  /\ \A n \in Node, id \in FactId :
              \/ outbox'[n][id] = NoEnv
              \/ outbox'[n][id] = outbox[n][id] /\ ~Crash(n)
              \/ Store(<<n, Main>>) /\ outbox'[n][id] = env[<<n, Main>>] /\ ~Crash(n)
         /\ \A t \in Thread : \/ resend'[t] = {}
                              \/ resend'[t] \subseteq resend[t] \cup OutboxOf(t[1]) /\ ~Crash(t[1])
<1> USE DEF planeVars, threadVars
<1>0. /\ outbox \in [Node -> [FactId -> Envelope \cup {NoEnv}]]
      /\ resend \in [Thread -> SUBSET Envelope]
      /\ phase \in [Node -> {"down", "boot", "run"}]
  BY ZenonT(20) DEF IInv, TypeOK
<1>1. ASSUME NEW n \in Node, Crash(n)
      PROVE  /\ outbox' = [outbox EXCEPT ![n] = [i \in FactId |-> NoEnv]]
             /\ resend' = [t \in Thread |-> IF t[1] = n THEN {} ELSE resend[t]]
             /\ \A m \in Node : m # n => ~Crash(m)
  <2>1. phase' = [phase EXCEPT ![n] = "down"] /\ phase[n] # "down"
    BY <1>1, ZenonT(20) DEF Crash
  <2>2. ASSUME NEW m \in Node, m # n, Crash(m) PROVE FALSE
    <3>1. phase'[m] = "down" /\ phase[m] # "down"
      BY <1>0, <2>2, ZenonT(20) DEF Crash
    <3>. QED  BY <1>0, <2>1, <2>2, <3>1, ZenonT(20)
  <2>. QED  BY <1>1, <2>2, ZenonT(20) DEF Crash
<1>2. ASSUME NEW u \in Thread, Store(u)
      PROVE  /\ u = <<u[1], Main>> /\ u[1] \in Node /\ resend' = resend
             /\ outbox' = [outbox EXCEPT ![u[1]][env[u].fact.id] = env[u]]
             /\ \A m \in Node : ~Crash(m)
  <2>1. u[2] = Main
    BY <1>2, ZenonT(20) DEF AInv, MainOnly, Store
  <2>2. u = <<u[1], Main>> /\ u[1] \in Node
    BY <2>1 DEF Thread
  <2>3. ASSUME NEW m \in Node, Crash(m) PROVE FALSE
    <3>1. phase'[m] = "down" /\ phase[m] # "down"
      BY <1>0, <2>3, ZenonT(20) DEF Crash
    <3>. QED  BY <1>2, <3>1, ZenonT(20) DEF Store, envVars
  <2>. QED  BY <1>2, <2>2, <2>3, ZenonT(20) DEF Store
<1>3. ASSUME NEW n \in Node, Heartbeat(n) \/ Resend(n)
      PROVE  /\ outbox' = outbox
             /\ \A t \in Thread : resend'[t] \subseteq resend[t] \cup OutboxOf(t[1])
  <2>1. <<n, Heart>> \in Thread /\ <<n, Heart>>[1] = n
    BY DEF Thread
  <2>2. \/ resend' = [resend EXCEPT ![<<n, Heart>>] = OutboxOf(n)]
        \/ \E e : resend' = [resend EXCEPT ![<<n, Heart>>] = @ \ {e}]
    BY <1>3, ZenonT(20) DEF Heartbeat, Resend
  <2>3. \A t \in Thread : resend'[t] \subseteq resend[t] \cup OutboxOf(t[1])
    BY <1>0, <2>1, <2>2, ZenonT(20)
  <2>. QED  BY <1>3, <2>3, ZenonT(20) DEF Heartbeat, Resend
<1>4. \/ UNCHANGED <<outbox, resend>> \/ (\E u \in Thread : Store(u))
      \/ (\E n \in Node : Crash(n) \/ Heartbeat(n) \/ Resend(n))
  <2>1. ASSUME NEW u \in Thread, Stamp(u) \/ Apply(u) \/ SendNone(u) \/ \E c \in Conn : Send(u, c)
        PROVE  UNCHANGED <<outbox, resend>>
    BY <2>1, ZenonT(20) DEF Stamp, Apply, SendNone, Send
  <2>2. ASSUME NEW u \in Reader, Receive(u) \/ Untrack(u) PROVE UNCHANGED <<outbox, resend>>
    BY <2>2, ZenonT(20) DEF Receive, Untrack
  <2>3. ASSUME NEW n \in Node, Boot(n) \/ Serve(n) PROVE UNCHANGED <<outbox, resend>>
    BY <2>3, ZenonT(20) DEF Boot, Serve
  <2>4. ASSUME NEW n \in Node, NEW w \in Worker, Operate(n, w) \/ \E c \in Conn : Dial(n, w, c)
        PROVE  UNCHANGED <<outbox, resend>>
    BY <2>4, ZenonT(20) DEF Operate, Reload, Discover, AnnounceFact, InviteJoin, Dial, Announce
  <2>5. ASSUME NEW c \in Conn, Accept(c) \/ Break(c) PROVE UNCHANGED <<outbox, resend>>
    BY <2>5, ZenonT(20) DEF Accept, Break
  <2>6. UNCHANGED vars => UNCHANGED <<outbox, resend>>
    BY ZenonT(20) DEF vars
  <2>. QED  BY <2>1, <2>2, <2>3, <2>4, <2>5, <2>6, ZenonT(20) DEF Next, Step
<1> DEFINE Filed(n, id) ==
             \/ outbox'[n][id] = NoEnv
             \/ outbox'[n][id] = outbox[n][id] /\ ~Crash(n)
             \/ Store(<<n, Main>>) /\ outbox'[n][id] = env[<<n, Main>>] /\ ~Crash(n)
<1>5. ASSUME NEW n \in Node, NEW id \in FactId PROVE Filed(n, id)
  <2>1. CASE Crash(n)
    <3>1. outbox'[n] = [i \in FactId |-> NoEnv]
      BY <1>0, <1>1, <2>1, ZenonT(20)
    <3>. QED  BY <3>1, ZenonT(20)
  <2>2. CASE \E m \in Node : Crash(m) /\ m # n
    BY <1>0, <1>1, <2>2, ZenonT(20)
  <2>3. ASSUME NEW u \in Thread, Store(u) PROVE Filed(n, id)
    <3>1. CASE u[1] = n /\ env[u].fact.id = id
      <4>1. [outbox EXCEPT ![n][id] = env[u]][n][id] = env[u]
        BY <1>0, FiledHere
      <4>2. outbox'[n][id] = env[u] /\ u = <<n, Main>>
        BY <1>2, <2>3, <3>1, <4>1, ZenonT(20)
      <4>. QED  BY <1>2, <2>3, <4>2, ZenonT(20)
    <3>2. CASE ~(u[1] = n /\ env[u].fact.id = id)
      <4>1. outbox'[n][id] = outbox[n][id]
        <5>1. [outbox EXCEPT ![u[1]][env[u].fact.id] = env[u]][n][id] = outbox[n][id]
          BY <1>0, <3>2, FiledElsewhere
        <5>. QED  BY <1>2, <2>3, <5>1, ZenonT(20)
      <4>. QED  BY <1>2, <2>3, <4>1, ZenonT(20)
    <3>. QED  BY <3>1, <3>2, ZenonT(20)
  <2>. QED  BY <1>3, <1>4, <2>1, <2>2, <2>3, ZenonT(20)
<1>6. ASSUME NEW t \in Thread
      PROVE  \/ resend'[t] = {}
             \/ resend'[t] \subseteq resend[t] \cup OutboxOf(t[1]) /\ ~Crash(t[1])
  <2>1. CASE t[1] \in Node /\ Crash(t[1])
    BY <1>1, <2>1, ZenonT(20)
  <2>2. CASE ~Crash(t[1])
    BY <1>1, <1>2, <1>3, <1>4, <2>2, ZenonT(20)
  <2>3. t[1] \in Node
    BY ZenonT(20) DEF Thread
  <2>. QED  BY <2>1, <2>2, <2>3, ZenonT(20)
<1>. QED  BY <1>5, <1>6, ZenonT(20)

(* The announcer, the outbox and the heartbeat keep to the node's own.     *)
LEMMA OwnOnlyStep ==
  ASSUME IInv, IInv', AInv, OwnOnly, [Next]_vars PROVE OwnOnly'
<1> DEFINE Mine(n, e) == Origin(e.fact.id) = n /\ Recorded(n, e)
           MineP(n, e) == Origin(e.fact.id) = n /\ e.ts <= seen'[n][e.fact.id]
<1>0. TypeOK /\ Provenance
  BY ZenonT(20) DEF IInv
<1>1. ASSUME NEW n \in Node, NEW e \in Envelope, Mine(n, e), ~Crash(n) PROVE MineP(n, e)
  BY <1>1, RecordedStays, ZenonT(20)
<1>2. ASSUME NEW n \in Node, NEW e \in OutboxOf(n) PROVE e \in Envelope /\ Mine(n, e)
  <2>1. PICK id \in FactId : e = outbox[n][id] /\ e # NoEnv
    BY ZenonT(20) DEF OutboxOf
  <2>2. outbox[n][id] \in Envelope \cup {NoEnv}
    <3>1. outbox \in [Node -> [FactId -> Envelope \cup {NoEnv}]]
      BY <1>0, ZenonT(20) DEF TypeOK
    <3>. QED  BY <3>1, ZenonT(20)
  <2>. QED  BY <2>1, <2>2, ZenonT(20) DEF OwnOnly
<1>3. ASSUME NEW n \in Node, NEW id \in FactId, outbox'[n][id] # NoEnv
      PROVE  MineP(n, outbox'[n][id])
  <2>1. CASE outbox'[n][id] = outbox[n][id] /\ ~Crash(n)
    <3>1. outbox[n][id] \in OutboxOf(n)
      BY <1>3, <2>1, ZenonT(20) DEF OutboxOf
    <3>2. MineP(n, outbox[n][id])
      BY <1>1, <1>2, <2>1, <3>1, ZenonT(20)
    <3>. QED  BY <2>1, <3>2, ZenonT(20)
  <2>2. CASE Store(<<n, Main>>) /\ outbox'[n][id] = env[<<n, Main>>]
    <3> DEFINE t == <<n, Main>>
    <3>1. t \in Thread /\ t[1] = n
      BY GossipAssumption DEF Thread
    <3>2. Origin(env[t].fact.id) = n /\ env[t].fact.id \in FactId /\ env[t].ts \in Nat
      BY <1>0, <2>2, <3>1, HeldFact, ZenonT(20) DEF Store, Provenance, HeldMinted
    <3>3. seen'[n][env[t].fact.id] = env[t].ts
      <4>1. seen' = [seen EXCEPT ![n][env[t].fact.id] = env[t].ts]
        BY <2>2, <3>1, ZenonT(20) DEF Store
      <4>2. seen \in [Node -> [FactId -> Nat]]
        BY <1>0, ZenonT(20) DEF TypeOK
      <4>. QED  BY <3>2, <4>1, <4>2
    <3>4. env[t].ts <= seen'[n][env[t].fact.id]
      BY <3>2, <3>3
    <3>. QED  BY <2>2, <3>2, <3>4, ZenonT(20)
  <2>. QED  BY <1>3, <2>1, <2>2, OutboxMoves, ZenonT(20)
<1>4. ASSUME NEW t \in Thread, NEW e \in resend[t] PROVE e \in Envelope /\ Mine(t[1], e)
  BY <1>0, <1>4, ZenonT(20) DEF TypeOK, OwnOnly
<1>5. ASSUME NEW t \in Thread, NEW e \in resend'[t] PROVE MineP(t[1], e)
  <2>1. t[1] \in Node
    BY ZenonT(20) DEF Thread
  <2>2. e \in resend[t] \cup OutboxOf(t[1]) /\ ~Crash(t[1])
    BY <1>5, OutboxMoves, ZenonT(20)
  <2>. QED  BY <1>1, <1>2, <1>4, <2>1, <2>2, ZenonT(20)
<1>6. ASSUME NEW t \in Thread, t \notin Reader, pc'[t] # "idle"
      PROVE  Origin(env'[t].fact.id) = t[1]
  <2>1. pc[t] # "idle" => Origin(env[t].fact.id) = t[1]
    BY <1>6, ZenonT(20) DEF OwnOnly
  <2>2. CASE Stamp(t)
    <3>1. env'[t] = [fact |-> Head(todo[t]), ts |-> TSNow(t[1])]
      BY <1>0, <2>2, ZenonT(20) DEF Stamp, TypeOK
    <3>2. Head(todo[t]) \in OwnFact(t[1])
      BY <1>0, <2>2, HeadTailProperties, ZenonT(20) DEF Provenance, TodoOwn, Stamp
    <3>3. env'[t].fact = Head(todo[t])
      BY <3>1
    <3>. QED  BY <3>2, <3>3, ZenonT(20) DEF OwnFact
  <2>3. CASE Store(t)
    BY <2>1, <2>3, ZenonT(20) DEF Store
  <2>4. CASE env'[t] \in resend[t]
    BY <1>4, <2>4, ZenonT(20)
  <2>5. CASE env'[t] = env[t] /\ pc[t] # "idle"
    BY <2>1, <2>5, ZenonT(20)
  <2>. QED  BY <1>0, <1>6, <2>2, <2>3, <2>4, <2>5, ThreadMoves, ZenonT(20)
<1>. QED  BY <1>3, <1>5, <1>6, ZenonT(20) DEF OwnOnly, Recorded

(* A reader claims what comes from beyond its connection.                  *)
LEMMA News ==
  ASSUME IInv, OneWay, NEW u \in Reader, Receive(u), seen' # seen
  PROVE  /\ pc[u] = "idle" /\ Head(chan[u]) \in Envelope /\ Head(chan[u]) \in minted
         /\ Head(chan[u]) \in Queued(chan[u]) /\ Head(chan[u]).fact.id \in FactId
         /\ Origin(Head(chan[u]).fact.id) \in Beyond[u]
         /\ seen'[u[1]][Head(chan[u]).fact.id] = Head(chan[u]).ts
<1> DEFINE e == Head(chan[u])
<1>1. /\ pc[u] = "idle" /\ chan[u] # <<>> /\ e.ts > seen[u[1]][e.fact.id]
      /\ seen' = [seen EXCEPT ![u[1]][e.fact.id] = e.ts]
  BY ZenonT(20) DEF Receive, Newer
<1>2. chan[u] \in Seq(Envelope) /\ chan[u] \in Seq(minted) /\ u[1] \in Node
      /\ seen \in [Node -> [FactId -> Nat]]
  BY ZenonT(20) DEF IInv, TypeOK, Provenance, ChanMinted, Reader
<1>3. e \in Envelope /\ e \in minted
  BY <1>1, <1>2, HeadTailProperties, ZenonT(20)
<1>4. e \in Queued(chan[u])
  BY <1>1, <1>2, <1>3, Queues, ZenonT(20)
<1>5. e.fact.id \in FactId /\ e.ts \in Nat
  BY <1>3, FactShape, ZenonT(20) DEF Envelope
<1>6. seen'[u[1]][e.fact.id] = e.ts /\ seen[u[1]][e.fact.id] \in Nat
  <2> HIDE DEF e
  <2>1. [seen EXCEPT ![u[1]][e.fact.id] = e.ts][u[1]][e.fact.id] = e.ts
    BY <1>2, <1>5, FiledHere, SMTT(30)
  <2>. QED  BY <1>1, <1>2, <1>5, <2>1, ZenonT(20)
<1>7. ~Recorded(u[1], e)
  <2> HIDE DEF e
  <2>. QED  BY <1>1, <1>5, <1>6, SMTT(30) DEF Recorded
<1>8. Origin(e.fact.id) \in Beyond[u]
  BY <1>4, <1>7, ZenonT(20) DEF OneWay
<1>. QED  BY <1>1, <1>3, <1>4, <1>5, <1>6, <1>8, ZenonT(20)

(* While a thread has a version to apply, no other records a later one.    *)
LEMMA HoldingKept ==
  ASSUME Forest, IInv, AInv, TreeInv, [Next]_vars, NEW t \in Thread, ~Crash(t[1]),
         pc[t] = "apply"
  PROVE  seen'[t[1]][env[t].fact.id] = seen[t[1]][env[t].fact.id]
<1> DEFINE n == t[1]
           id == env[t].fact.id
<1>0. TypeOK /\ Provenance /\ OwnOnly /\ Holding /\ OneWay
  BY ZenonT(20) DEF IInv, TreeInv
<1>1. n \in Node /\ id \in FactId
  BY HeldFact, ZenonT(20)
<1>2. /\ \A r \in Reader : r[1] \notin Beyond[r]
      /\ \A r, s \in Reader : r # s /\ r[1] = s[1] => Beyond[r] \cap Beyond[s] = {}
  BY Sides, ZenonT(20) DEF Split
<1>3. t[2] = Main \/ t \in Reader
  BY <1>0, ZenonT(20) DEF Holding
<1>4. IF t \in Reader THEN Origin(id) \in Beyond[t] ELSE Origin(id) = n
  BY <1>0, ZenonT(20) DEF OwnOnly, OneWay
<1>5. ASSUME Store(<<n, Main>>), env[<<n, Main>>].fact.id = id PROVE FALSE
  <2>1. <<n, Main>> \in Thread /\ <<n, Main>>[1] = n
    BY <1>1, GossipAssumption DEF Thread
  <2>2. pc[<<n, Main>>] = "store" /\ Origin(id) = n
    BY <1>0, <1>5, <2>1, ZenonT(20) DEF Store, Provenance, HeldMinted
  <2>3. t # <<n, Main>>
    BY <2>2, ZenonT(20)
  <2>4. t \in Reader
    BY <1>3, <2>3 DEF Thread
  <2>. QED  BY <1>2, <1>4, <2>2, <2>4, ZenonT(20)
<1>6. ASSUME NEW u \in Reader, u[1] = n, Receive(u), seen' # seen, Head(chan[u]).fact.id = id
      PROVE  FALSE
  <2>1. pc[u] = "idle" /\ Origin(id) \in Beyond[u]
    BY <1>0, <1>6, News, ZenonT(20)
  <2>2. t # u
    BY <2>1, ZenonT(20)
  <2>. QED  BY <1>2, <1>4, <1>6, <2>1, <2>2, ZenonT(20)
<1>7. EntryStep(n, id)
  BY <1>1, SeenMoves, ZenonT(20)
<1>. QED  BY <1>5, <1>6, <1>7, ZenonT(20) DEF EntryStep

(* What a thread passes on is recorded, and what it applies is current.    *)
LEMMA HoldingStep ==
  ASSUME Forest, IInv, IInv', AInv, TreeInv, [Next]_vars PROVE Holding'
<1> SUFFICES ASSUME NEW t \in Thread
             PROVE  /\ pc'[t] \notin {"idle", "store"} => env'[t].ts <= seen'[t[1]][env'[t].fact.id]
                    /\ pc'[t] = "apply" => /\ env'[t].ts = seen'[t[1]][env'[t].fact.id]
                                           /\ t[2] = Main \/ t \in Reader
  BY ZenonT(20) DEF Holding, Recorded
<1> DEFINE n == t[1]
<1>0. TypeOK /\ Provenance /\ OwnOnly /\ Holding /\ OneWay /\ n \in Node
  BY ZenonT(20) DEF IInv, TreeInv, Thread
<1>1. CASE Crash(n)
  <2>1. pc'[t] = "idle"
    BY <1>1, ZenonT(20) DEF Crash
  <2>. QED  BY <2>1, ZenonT(20)
<1>2. CASE ~Crash(n) /\ env'[t] = env[t] /\ pc[t] \notin {"idle", "store"}
              /\ (pc'[t] = pc[t] \/ pc'[t] # "apply")
  <2>1. env[t] \in Envelope /\ Recorded(n, env[t])
    BY <1>0, <1>2, HeldFact, ZenonT(20) DEF Holding
  <2>2. env[t].ts <= seen'[n][env[t].fact.id]
    BY <1>0, <1>2, <2>1, RecordedStays, ZenonT(20)
  <2>3. ASSUME pc[t] = "apply"
        PROVE  env[t].ts = seen'[n][env[t].fact.id] /\ (t[2] = Main \/ t \in Reader)
    BY <1>0, <1>2, <2>3, HoldingKept, ZenonT(20) DEF Holding
  <2>. QED  BY <1>2, <2>2, <2>3, ZenonT(20)
<1>3. ASSUME env'[t].ts \in Nat, env'[t].ts = seen'[n][env'[t].fact.id]
      PROVE  env'[t].ts <= seen'[n][env'[t].fact.id]
  BY <1>3
<1>4. CASE Store(t)
  <2>1. env'[t] = env[t] /\ t[2] = Main /\ seen' = [seen EXCEPT ![n][env[t].fact.id] = env[t].ts]
    BY <1>4, ZenonT(20) DEF Store, AInv, MainOnly
  <2>2. env[t].ts \in Nat /\ env[t].fact.id \in FactId
    BY <1>4, HeldFact, ZenonT(20) DEF Store
  <2>3. seen'[n][env[t].fact.id] = env[t].ts
    <3>1. seen \in [Node -> [FactId -> Nat]]
      BY <1>0, ZenonT(20) DEF TypeOK
    <3>. QED  BY <1>0, <2>1, <2>2, <3>1
  <2>. QED  BY <1>3, <2>1, <2>2, <2>3, ZenonT(20)
<1>5. CASE t \in Reader /\ Receive(t) /\ seen' # seen /\ env'[t] = Head(chan[t])
  <2>1. Head(chan[t]) \in Envelope /\ seen'[n][Head(chan[t]).fact.id] = Head(chan[t]).ts
    BY <1>0, <1>5, News, ZenonT(20)
  <2>2. Head(chan[t]).ts \in Nat
    BY <2>1, ZenonT(20) DEF Envelope
  <2>. QED  BY <1>3, <1>5, <2>1, <2>2, ZenonT(20)
<1>6. CASE ~Crash(n) /\ pc'[t] = "bcast" /\ env'[t] \in resend[t]
  <2>1. env'[t] \in Envelope /\ Recorded(n, env'[t])
    BY <1>0, <1>6, ZenonT(20) DEF TypeOK, OwnOnly
  <2>2. env'[t].ts <= seen'[n][env'[t].fact.id]
    BY <1>0, <1>6, <2>1, RecordedStays, ZenonT(20)
  <2>. QED  BY <1>6, <2>2, ZenonT(20)
<1>7. CASE pc'[t] \in {"idle", "store"}
  BY <1>7, ZenonT(20)
<1>8. Stamp(t) => pc'[t] = "store"
  BY <1>0, ZenonT(20) DEF Stamp, TypeOK
<1>. QED
  BY <1>0, <1>1, <1>2, <1>4, <1>5, <1>6, <1>7, <1>8, ThreadMoves, ZenonT(20)

(* What a thread broadcasts over an open connection comes from beyond the  *)
(* other end's connection, or is what the other end sent: an echo.         *)
LEMMA Sent ==
  ASSUME Forest, IInv, TreeInv, NEW u \in Thread, NEW c \in open,
         pc[u] \notin {"idle", "store"}, c \in Pool(u)
  PROVE  LET t == <<Peer(u[1], c), c>>
         IN  /\ env[u] \in Envelope /\ Peer(t[1], c) = u[1]
             /\ Origin(env[u].fact.id) \in Beyond[t] \/ Recorded(t[1], env[u])
             /\ Recorded(u[1], env[u])
<1> DEFINE n == u[1]
           s == <<n, c>>
           t == <<Peer(n, c), c>>
<1>0. OwnOnly /\ Holding /\ OneWay /\ Slots /\ n \in Node
  BY ZenonT(20) DEF TreeInv, Thread
<1>1. c \in Links(n)
  BY <1>0, ZenonT(20) DEF Slots, Pool
<1>2. /\ s \in Reader /\ t \in Reader /\ s[1] = n /\ s[2] = c /\ t[1] = Peer(n, c) /\ t[2] = c
      /\ t[1] # n /\ Peer(t[1], c) = n
  BY <1>0, <1>1, PeerOfPeer
<1>3. env[u] \in Envelope /\ Recorded(n, env[u])
  BY <1>0, HeldFact, ZenonT(20) DEF Holding
<1>4. /\ \A r, q \in Reader : r # q /\ r[2] = q[2] => r[1] \in Beyond[q]
      /\ \A r, q \in Reader : r # q /\ r[1] = q[1] =>
           Beyond[r] \subseteq Beyond[<<Peer(q[1], q[2]), q[2]>>]
  BY Sides, ZenonT(20) DEF Split
<1> HIDE DEF s, t
<1>5. CASE u \notin Reader
  <2>1. Origin(env[u].fact.id) = n
    BY <1>0, <1>5, ZenonT(20) DEF OwnOnly
  <2>2. n \in Beyond[t]
    BY <1>2, <1>4, ZenonT(20)
  <2>. QED  BY <1>2, <1>3, <2>1, <2>2, ZenonT(20) DEF t
<1>6. CASE u = s
  <2>1. Recorded(Peer(s[1], s[2]), env[s])
    BY <1>0, <1>2, <1>6, ZenonT(20) DEF OneWay
  <2>2. Recorded(t[1], env[u])
    BY <1>2, <1>6, <2>1, ZenonT(20)
  <2>. QED  BY <1>2, <1>3, <2>2, ZenonT(20) DEF t
<1>7. CASE u \in Reader /\ u # s
  <2>1. Origin(env[u].fact.id) \in Beyond[u]
    BY <1>0, <1>7, ZenonT(20) DEF OneWay
  <2>2. Beyond[u] \subseteq Beyond[<<Peer(s[1], s[2]), s[2]>>]
    BY <1>2, <1>4, <1>7, ZenonT(20)
  <2>3. Origin(env[u].fact.id) \in Beyond[t]
    BY <1>2, <2>1, <2>2, ZenonT(20) DEF t
  <2>. QED  BY <1>2, <1>3, <2>3, ZenonT(20) DEF t
<1>. QED  BY <1>5, <1>6, <1>7, ZenonT(20)

(* News goes one way over a connection.                                    *)
LEMMA OneWayStep ==
  ASSUME Forest, IInv, IInv', AInv, TreeInv, [Next]_vars PROVE OneWay'
<1> DEFINE RecordedP(n, e) == e.ts <= seen'[n][e.fact.id]
<1> SUFFICES ASSUME NEW t \in Reader
             PROVE  /\ pc'[t] # "idle" =>
                         /\ Origin(env'[t].fact.id) \in Beyond[t]
                         /\ t[2] \in open' => RecordedP(Peer(t[1], t[2]), env'[t])
                    /\ \A e \in Queued(chan'[t]) :
                         /\ Origin(e.fact.id) \in Beyond[t] \/ RecordedP(t[1], e)
                         /\ t[2] \in open' => RecordedP(Peer(t[1], t[2]), e)
  BY ZenonT(20) DEF OneWay, Recorded
<1> DEFINE q == Peer(t[1], t[2])
           c == t[2]
<1>0. TypeOK /\ Provenance /\ OwnOnly /\ Holding /\ OneWay /\ Slots
  BY ZenonT(20) DEF IInv, TreeInv
<1>1. /\ t \in Thread /\ t[1] \in Node /\ c \in Conn /\ t = <<t[1], c>> /\ c \in Links(t[1])
      /\ q \in Node /\ q # t[1] /\ c \in Links(q) /\ c # Main /\ c # Heart
  BY Mates, ZenonT(20)
<1> HIDE DEF q, c
<1>2. ASSUME NEW n \in Node, ~Crash(n), NEW e \in Envelope, Recorded(n, e) PROVE RecordedP(n, e)
  BY <1>2, RecordedStays, ZenonT(20)
<1>3. c \in open' => ~Crash(q)
  BY <1>1, OpenMoves, ZenonT(20)
<1>4. Crash(t[1]) => chan'[t] = <<>>
  <2>1. ASSUME Crash(t[1]) PROVE chan'[t] = <<>>
    <3>1. /\ tracked' = [tracked EXCEPT ![t[1]] = {}]
          /\ chan' = [u \in Reader |->
                        IF u[2] \in Links(t[1]) \ tracked'[u[1]] THEN <<>> ELSE chan[u]]
      BY <2>1, ZenonT(20) DEF Crash, Disconnect, Links
    <3>2. tracked'[t[1]] = {}
      BY <1>0, <1>1, <3>1, ZenonT(20) DEF TypeOK
    <3>. QED  BY <1>1, <3>1, <3>2, ZenonT(20) DEF c
  <2>. QED  BY <2>1
<1>5. Free(c) => pc[t] = "idle" /\ chan[t] = <<>>
  <2>1. Free(c) => c \notin open /\ c \notin tracked[t[1]] /\ pc[<<t[1], c>>] = "idle"
    BY <1>1, ZenonT(20) DEF Free, Links
  <2>2. c \notin open /\ c \notin tracked[t[1]] => chan[t] = <<>>
    BY <1>0, ZenonT(20) DEF Slots, c
  <2>. QED  BY <1>1, <2>1, <2>2, ZenonT(20)
<1>6. ASSUME NEW e \in Queued(chan[t])
      PROVE  /\ e \in Envelope
             /\ Origin(e.fact.id) \in Beyond[t] \/ Recorded(t[1], e)
             /\ c \in open => Recorded(q, e)
             /\ c \in open' => c \in open
  <2>1. e \in Envelope
    <3>1. chan[t] \in Seq(Envelope)
      BY <1>0, ZenonT(20) DEF TypeOK
    <3>2. PICK i \in DOMAIN chan[t] : e = chan[t][i]
      BY <1>6, ZenonT(20) DEF Queued
    <3>. QED  BY <3>1, <3>2
  <2>2. chan[t] # <<>>
    BY <1>6, EmptyQueue, ZenonT(20)
  <2>3. c \in open' => c \in open
    BY <1>5, <2>2, OpenMoves, ZenonT(20)
  <2>. QED  BY <1>0, <1>6, <2>1, <2>3, ZenonT(20) DEF OneWay, q, c
<1>7. ASSUME NEW e \in Queued(chan'[t])
      PROVE  /\ Origin(e.fact.id) \in Beyond[t] \/ RecordedP(t[1], e)
             /\ c \in open' => RecordedP(q, e)
  <2>1. ~Crash(t[1])
    BY <1>4, <1>7, EmptyQueue, ZenonT(20)
  <2>2. CASE e \in Queued(chan[t])
    BY <1>1, <1>2, <1>3, <1>6, <2>1, <2>2, ZenonT(20)
  <2>3. CASE e \notin Queued(chan[t])
    <3>1. PICK u \in Thread, d \in open :
            /\ pc[u] \notin {"idle", "store"} /\ d \in Pool(u) /\ t = <<Peer(u[1], d), d>>
            /\ e = env[u]
      BY <1>7, <2>3, ChanMoves, ZenonT(20)
    <3>2. d = c /\ t[1] = Peer(u[1], d)
      BY <3>1 DEF c
    <3>3. /\ e \in Envelope /\ Peer(t[1], c) = u[1]
          /\ Origin(e.fact.id) \in Beyond[t] \/ Recorded(t[1], e)
          /\ Recorded(u[1], e)
      BY <3>1, <3>2, Sent, ZenonT(20)
    <3>4. q = u[1]
      BY <3>3, ZenonT(20) DEF q, c
    <3>. QED  BY <1>1, <1>2, <1>3, <2>1, <3>3, <3>4, ZenonT(20)
  <2>. QED  BY <2>2, <2>3, ZenonT(20)
<1>8. ASSUME pc'[t] # "idle"
      PROVE  Origin(env'[t].fact.id) \in Beyond[t] /\ (c \in open' => RecordedP(q, env'[t]))
  <2>1. CASE pc[t] # "idle" /\ env'[t] = env[t]
    <3>1. c \in open' => c \in open
      BY <1>5, <2>1, OpenMoves, ZenonT(20)
    <3>2. env[t] \in Envelope
      BY <1>1, <2>1, HeldFact, ZenonT(20)
    <3>3. Origin(env[t].fact.id) \in Beyond[t] /\ (c \in open => Recorded(q, env[t]))
      BY <1>0, <2>1, ZenonT(20) DEF OneWay, q, c
    <3>4. c \in open' => RecordedP(q, env[t])
      BY <1>1, <1>2, <1>3, <3>1, <3>2, <3>3, ZenonT(20)
    <3>. QED  BY <2>1, <3>3, <3>4, ZenonT(20)
  <2>2. CASE Receive(t) /\ seen' # seen /\ env'[t] = Head(chan[t])
    <3>1. Head(chan[t]) \in Queued(chan[t]) /\ Origin(Head(chan[t]).fact.id) \in Beyond[t]
      BY <1>0, <2>2, News, ZenonT(20)
    <3>2. c \in open' => RecordedP(q, Head(chan[t]))
      BY <1>1, <1>2, <1>3, <1>6, <3>1, ZenonT(20)
    <3>. QED  BY <2>2, <3>1, <3>2, ZenonT(20)
  <2>3. ~Stamp(t) /\ ~Store(t) /\ t[2] # Heart
    BY <1>1, ZenonT(20) DEF Stamp, Store, AInv, MainOnly, c
  <2>. QED  BY <1>0, <1>1, <1>8, <2>1, <2>2, <2>3, ThreadMoves, ZenonT(20)
<1>. QED  BY <1>7, <1>8, ZenonT(20) DEF q, c

(* Every step keeps the invariant of a forest.                             *)
LEMMA TreeStep ==
  ASSUME Forest, IInv, IInv', AInv, TreeInv, [Next]_vars PROVE TreeInv'
<1>1. Slots /\ OwnOnly
  BY ZenonT(20) DEF TreeInv
<1>. QED  BY <1>1, SlotsStep, OwnOnlyStep, HoldingStep, OneWayStep, ZenonT(20) DEF TreeInv

-----------------------------------------------------------------------------
(* No two announcements of a fact have the same time stamp.                *)
Unique == \A d, e \in minted : d.fact.id = e.fact.id /\ d.ts = e.ts => d = e

(* The last version recorded is in the view, or a thread is about to apply *)
(* that very version.                                                      *)
Doing(n, e) ==
  \/ Reflects(n, e.fact)
  \/ \E t \in Thread : t[1] = n /\ pc[t] = "apply" /\ env[t] = e
Settled == \A n \in Node : \A e \in minted : e.ts = seen[n][e.fact.id] => Doing(n, e)

(* Reflects, for a graph and a table of addresses.                         *)
Shows(g, a, h) ==
  LET m == Origin(h.id)
  IN  /\ h = Hello(m, m, h.addr) /\ h.addr # NoAddr => a[m] = h.addr
      /\ h.kind \in {"AddSubnet", "DelSubnet"} =>
           (<<m, h.id[3]>> \in g.subnets <=> h.kind = "AddSubnet")

(* The clock moves between two announcements, so time stamps are distinct. *)
LEMMA UniqueStep ==
  ASSUME IInv, Unique, [Next]_vars PROVE Unique'
<1>0. TypeOK /\ Provenance
  BY ZenonT(20) DEF IInv
<1>1. ASSUME NEW u \in Thread, Stamp(u) PROVE Unique'
  <2> DEFINE d == [fact |-> Head(todo[u]), ts |-> clock[u[1]] + 1]
  <2>1. minted' = minted \cup {d}
    BY <1>1, ZenonT(20) DEF Stamp, TSNow
  <2>2. u[1] \in Node /\ Head(todo[u]) \in OwnFact(u[1])
    BY <1>0, <1>1, HeadTailProperties, ZenonT(20) DEF Thread, Provenance, TodoOwn, Stamp
  <2>3. clock[u[1]] \in Nat /\ d.ts = clock[u[1]] + 1 /\ d.fact = Head(todo[u])
    BY <1>0, <2>2, ZenonT(20) DEF TypeOK
  <2>4. ASSUME NEW e \in minted, d.fact.id = e.fact.id PROVE d.ts # e.ts
    <3>1. Origin(e.fact.id) = u[1]
      BY <2>2, <2>3, <2>4, ZenonT(20) DEF OwnFact
    <3>2. e.ts <= clock[u[1]] /\ e.ts \in Nat
      BY <1>0, <3>1, ZenonT(20) DEF Provenance, MintedOwn, TypeOK, Envelope
    <3>. QED  BY <2>3, <3>2
  <2>. QED  BY <2>1, <2>4, ZenonT(20) DEF Unique
<1>2. ASSUME minted' = minted PROVE Unique'
  BY <1>2, ZenonT(20) DEF Unique
<1>3. (\E t \in Thread : Stamp(t)) \/ minted' = minted
  BY OtherSteps, ZenonT(20) DEF Store, Receive, Crash
<1>. QED  BY <1>1, <1>2, <1>3, ZenonT(20)

(* apply() makes the view show a fact, and does not touch what it shows of *)
(* another: only its own Hello carries a node's address.                   *)
LEMMA ApplyShows ==
  ASSUME NEW f \in Fact, NEW h \in Fact, f \in OwnFact(Origin(f.id)),
         NEW g \in GraphType, NEW a \in [Node -> Addr \cup {NoAddr}]
  PROVE  /\ f = h => Shows(ApplyGraph(g, f), ApplyAddrs(a, f), h)
         /\ f.id # h.id /\ Shows(g, a, h) => Shows(ApplyGraph(g, f), ApplyAddrs(a, f), h)
<1> DEFINE m == Origin(h.id)
           b == ApplyAddrs(a, f)
           k == ApplyGraph(g, f)
<1>0. m \in Node /\ f.name \in Node
  BY FactShape, ZenonT(20)
<1>1. f.kind # "DelNode"
  BY FactShape
<1>2. b = IF f.kind = "AddNode" /\ f.addr # NoAddr THEN [a EXCEPT ![f.name] = f.addr] ELSE a
  BY <1>1, ZenonT(20) DEF ApplyAddrs
<1>3. k.subnets = CASE f.kind = "AddSubnet" -> g.subnets \cup {<<Origin(f.id), f.id[3]>>}
                    [] f.kind = "DelSubnet" -> g.subnets \ {<<Origin(f.id), f.id[3]>>}
                    [] OTHER -> g.subnets
  <2>1. CASE f.kind = "AddNode"
    BY <2>1 DEF ApplyGraph, AddNode, GraphType
  <2>2. CASE f.kind = "AddEdge"
    <3>1. k = AddEdge(g, Origin(f.id), f.id[3], 1)
      BY <2>2, ZenonT(20) DEF ApplyGraph
    <3>2. k.subnets = g.subnets
      BY <3>1, ZenonT(20) DEF AddEdge, GraphType
    <3>. QED  BY <2>2, <3>2
  <2>3. CASE f.kind = "DelEdge"
    BY <2>3 DEF ApplyGraph, DelEdge, GraphType
  <2>4. CASE f.kind = "AddSubnet"
    <3>1. k = AddSubnet(g, Origin(f.id), f.id[3])
      BY <2>4, ZenonT(20) DEF ApplyGraph
    <3>2. k.subnets = g.subnets \cup {<<Origin(f.id), f.id[3]>>}
      BY <3>1, ZenonT(20) DEF AddSubnet, GraphType
    <3>. QED  BY <2>4, <3>2
  <2>5. CASE f.kind = "DelSubnet"
    BY <2>5 DEF ApplyGraph, DelSubnet, GraphType
  <2>. QED  BY <2>1, <2>2, <2>3, <2>4, <2>5, FactShape, ZenonT(20)
<1> HIDE DEF b, k
<1>4. h = Hello(m, m, h.addr) => h.kind = "AddNode" /\ h.name = m /\ h.id = HelloId(m)
  BY DEF Hello
<1>5. f.kind = "AddNode" /\ f.addr # NoAddr => f.id = HelloId(f.name)
  <2>1. f.addr # NoAddr => f.name = Origin(f.id)
    BY ZenonT(20) DEF OwnFact
  <2>2. f.kind = "AddNode" => f.id = HelloId(Origin(f.id))
    BY DEF Fact, Hello, SubnetFact, EdgeFact, HelloId, SubnetId, EdgeId, Origin
  <2>. QED  BY <2>1, <2>2, ZenonT(20)
<1>6. ASSUME f = h PROVE Shows(k, b, h)
  <2>1. h = Hello(m, m, h.addr) /\ h.addr # NoAddr => b[m] = h.addr
    BY <1>0, <1>2, <1>4, <1>6, ZenonT(20)
  <2>2. h.kind \in {"AddSubnet", "DelSubnet"} =>
          (<<m, h.id[3]>> \in k.subnets <=> h.kind = "AddSubnet")
    BY <1>3, <1>6
  <2>. QED  BY <2>1, <2>2, ZenonT(20) DEF Shows
<1>7. ASSUME f.id # h.id, Shows(g, a, h) PROVE Shows(k, b, h)
  <2>1. h = Hello(m, m, h.addr) /\ h.addr # NoAddr => b[m] = a[m]
    BY <1>0, <1>2, <1>4, <1>5, <1>7, ZenonT(20)
  <2>2. ASSUME h.kind \in {"AddSubnet", "DelSubnet"}
        PROVE  <<m, h.id[3]>> \in k.subnets <=> <<m, h.id[3]>> \in g.subnets
    <3>1. h.id = SubnetId(m, h.id[3])
      BY <2>2, FactShape
    <3>2. f.kind \in {"AddSubnet", "DelSubnet"} => f.id = SubnetId(Origin(f.id), f.id[3])
      BY FactShape
    <3>3. f.kind \in {"AddSubnet", "DelSubnet"} => <<m, h.id[3]>> # <<Origin(f.id), f.id[3]>>
      BY <1>7, <3>1, <3>2
    <3>. QED  BY <1>3, <3>3
  <2>. QED  BY <1>7, <2>1, <2>2, ZenonT(20) DEF Shows
<1>. QED  BY <1>6, <1>7, ZenonT(20) DEF b, k

(* Every step keeps the last version recorded in the view or in hand.      *)
LEMMA SettledStep ==
  ASSUME IInv, IInv', PInv, TreeInv, Unique, Settled, [Next]_vars,
         NEW n \in Node, NEW e \in minted', e.ts = seen'[n][e.fact.id]
  PROVE  Doing(n, e)'
<1> DEFINE id == e.fact.id
<1>0. TypeOK /\ Provenance /\ Holding
  BY ZenonT(20) DEF IInv, TreeInv
<1>1. e.fact \in Fact /\ e.ts \in Nat /\ id \in FactId /\ Origin(id) \in Node
  <2>1. e.fact \in Fact /\ e.ts \in Nat
    BY ZenonT(20) DEF IInv, TypeOK, Envelope
  <2>. QED  BY <2>1, FactShape, ZenonT(20)
<1>2. ASSUME e \in minted, seen[n][id] = e.ts PROVE Doing(n, e)
  BY <1>2, ZenonT(20) DEF Settled
<1>3. ASSUME NEW u \in Thread, Apply(u) PROVE Doing(n, e)'
  <2>1. UNCHANGED <<seen, minted, env>> /\ u[1] \in Node
    BY <1>3, ZenonT(20) DEF Apply, Thread
  <2>2. Doing(n, e)
    BY <1>2, <2>1, ZenonT(20)
  <2>3. env[u] \in minted /\ env[u].fact \in Fact
    BY <1>3, HeldFact, ZenonT(20) DEF Apply
  <2>4. env[u].fact \in OwnFact(Origin(env[u].fact.id))
    BY <1>0, <2>3, ZenonT(20) DEF Provenance, MintedOwn
  <2>5. /\ u[1] # n => topo'[n] = topo[n] /\ addrs'[n] = addrs[n]
        /\ u[1] = n => /\ topo'[n] = ApplyGraph(topo[n], env[u].fact)
                       /\ addrs'[n] = ApplyAddrs(addrs[n], env[u].fact)
    BY <1>0, <1>3, ZenonT(20) DEF TypeOK, Apply
  <2>6. topo[n] \in GraphType /\ addrs[n] \in [Node -> Addr \cup {NoAddr}]
    BY <1>0, ZenonT(20) DEF TypeOK
  <2>7. u[1] = n /\ env[u].fact.id = id => env[u] = e
    <3>1. env[u].ts = seen[u[1]][env[u].fact.id]
      BY <1>0, <1>3, ZenonT(20) DEF Holding, Apply
    <3>. QED  BY <2>1, <2>3, <3>1, ZenonT(20) DEF Unique
  <2>8. ASSUME u[1] = n, env[u] = e PROVE Reflects(n, e.fact)'
    <3>1. Shows(topo'[n], addrs'[n], e.fact)
      BY <2>3, <2>4, <2>5, <2>6, <2>8, ApplyShows, ZenonT(20)
    <3>. QED  BY <3>1, ZenonT(20) DEF Shows, Reflects
  <2>9. ASSUME Reflects(n, e.fact), ~(u[1] = n /\ env[u].fact.id = id)
        PROVE  Reflects(n, e.fact)'
    <3>1. Shows(topo[n], addrs[n], e.fact)
      BY <2>9, ZenonT(20) DEF Shows, Reflects
    <3>2. Shows(topo'[n], addrs'[n], e.fact)
      BY <1>1, <2>3, <2>4, <2>5, <2>6, <2>9, <3>1, ApplyShows, ZenonT(20)
    <3>. QED  BY <3>2, ZenonT(20) DEF Shows, Reflects
  <2>10. ASSUME NEW t \in Thread, t[1] = n, pc[t] = "apply", env[t] = e, t # u
         PROVE  Doing(n, e)'
    <3>1. pc'[t] = pc[t]
      BY <1>0, <1>3, <2>10, ZenonT(20) DEF TypeOK, Apply
    <3>. QED  BY <2>1, <2>10, <3>1, ZenonT(20) DEF Doing
  <2>. QED  BY <2>2, <2>7, <2>8, <2>9, <2>10, ZenonT(20) DEF Doing
<1>4. ASSUME NEW k \in Node, Crash(k) PROVE Doing(n, e)'
  <2>1. /\ minted' = minted
        /\ seen' = [seen EXCEPT ![k] = [i \in FactId |-> 0]]
        /\ topo' = [topo EXCEPT ![k] = EmptyGraph]
        /\ addrs' = [addrs EXCEPT ![k] = [m \in Node |-> NoAddr]]
        /\ pc' = [t \in Thread |-> IF t[1] = k THEN "idle" ELSE pc[t]]
        /\ env' = [t \in Thread |-> IF t[1] = k THEN NoEnv ELSE env[t]]
    BY <1>4, ZenonT(20) DEF Crash
  <2>2. k # n
    <3>1. e.ts > 0
      BY <2>1, ZenonT(20) DEF PInv
    <3>2. ASSUME k = n PROVE seen'[n][id] = 0
      BY <1>0, <1>1, <2>1, <3>2, ZenonT(20) DEF TypeOK
    <3>. QED  BY <1>1, <3>1, <3>2
  <2>3. seen'[n] = seen[n] /\ topo'[n] = topo[n] /\ addrs'[n] = addrs[n]
    BY <1>0, <2>1, <2>2, ZenonT(20) DEF TypeOK
  <2>4. Doing(n, e)
    BY <1>2, <2>1, <2>3, ZenonT(20)
  <2>5. CASE Reflects(n, e.fact)
    BY <2>3, <2>5, ZenonT(20) DEF Doing, Reflects
  <2>6. CASE \E t \in Thread : t[1] = n /\ pc[t] = "apply" /\ env[t] = e
    BY <2>1, <2>2, <2>6, ZenonT(20) DEF Doing
  <2>. QED  BY <2>4, <2>5, <2>6, ZenonT(20) DEF Doing
<1>5. ASSUME \A t \in Thread : ~Apply(t), \A k \in Node : ~Crash(k) PROVE Doing(n, e)'
  <2>1. topo' = topo /\ addrs' = addrs
    BY <1>5, ViewSteps, ZenonT(20)
  <2>2. ASSUME NEW t \in Thread, pc[t] = "apply" PROVE pc'[t] = "apply" /\ env'[t] = env[t]
    <3>1. t[1] \in Node
      BY ZenonT(20) DEF Thread
    <3>. QED  BY <1>0, <1>5, <2>2, <3>1, Applying, ZenonT(20)
  <2>3. ASSUME e \in minted, seen[n][id] = e.ts PROVE Doing(n, e)'
    <3>1. CASE Reflects(n, e.fact)
      BY <2>1, <3>1, ZenonT(20) DEF Doing, Reflects
    <3>2. CASE \E t \in Thread : t[1] = n /\ pc[t] = "apply" /\ env[t] = e
      BY <2>2, <3>2, ZenonT(20) DEF Doing
    <3>. QED  BY <1>2, <2>3, <3>1, <3>2, ZenonT(20) DEF Doing
  <2>4. ASSUME NEW u \in Thread, Stamp(u) PROVE Doing(n, e)'
    <3> DEFINE d == [fact |-> Head(todo[u]), ts |-> clock[u[1]] + 1]
    <3>1. seen' = seen /\ minted' = minted \cup {d}
      BY <2>4, ZenonT(20) DEF Stamp, TSNow, planeVars
    <3>2. e # d
      <4>1. u[1] \in Node /\ Head(todo[u]) \in OwnFact(u[1])
        BY <1>0, <2>4, HeadTailProperties, ZenonT(20)
           DEF Thread, Provenance, TodoOwn, Stamp
      <4>2. ASSUME e = d PROVE Origin(id) = u[1] /\ e.ts = clock[u[1]] + 1
        BY <4>1, <4>2, ZenonT(20) DEF OwnFact
      <4>3. seen[n][id] <= clock[Origin(id)] /\ clock[Origin(id)] \in Nat
        BY <1>0, <1>1, ZenonT(20) DEF Provenance, SeenBehindClock, TypeOK
      <4>. QED  BY <1>1, <3>1, <4>2, <4>3
    <3>. QED  BY <2>3, <3>1, <3>2, ZenonT(20)
  <2>5. ASSUME NEW u \in Thread, NEW d \in minted, minted' = minted,
               seen' = [seen EXCEPT ![u[1]][d.fact.id] = d.ts],
               pc'[u] = "apply", env'[u] = d
        PROVE  Doing(n, e)'
    <3>0. seen \in [Node -> [FactId -> Nat]]
      BY <1>0, ZenonT(20) DEF TypeOK
    <3>1. CASE u[1] = n /\ d.fact.id = id
      <4>1. seen'[n][id] = d.ts
        BY <1>1, <2>5, <3>0, <3>1
      <4>2. d = e
        BY <2>5, <3>1, <4>1, ZenonT(20) DEF Unique
      <4>. QED  BY <2>5, <3>1, <4>2, ZenonT(20) DEF Doing
    <3>2. CASE ~(u[1] = n /\ d.fact.id = id)
      <4>1. [seen EXCEPT ![u[1]][d.fact.id] = d.ts][n][id] = seen[n][id]
        BY <1>1, <3>0, <3>2, SeenElsewhere
      <4>2. seen'[n][id] = seen[n][id]
        BY <2>5, <4>1, ZenonT(20)
      <4>. QED  BY <2>3, <2>5, <4>2, ZenonT(20)
    <3>. QED  BY <3>1, <3>2
  <2>6. ASSUME NEW u \in Thread, Store(u) PROVE Doing(n, e)'
    <3>1. env[u] \in minted
      BY <2>6, HeldFact, ZenonT(20) DEF Store
    <3>2. pc'[u] = "apply"
      BY <1>0, <2>6, ZenonT(20) DEF Store, TypeOK
    <3>. QED  BY <2>5, <2>6, <3>1, <3>2, ZenonT(20) DEF Store
  <2>7. ASSUME NEW u \in Reader, Receive(u) PROVE Doing(n, e)'
    <3>1. u \in Thread /\ minted' = minted
      BY <2>7, ZenonT(20) DEF Receive, Reader, Thread
    <3>2. CASE seen' = seen
      BY <2>3, <3>1, <3>2, ZenonT(20)
    <3>3. CASE seen' # seen
      <4>1. Head(chan[u]) \in minted
        BY <1>0, <2>7, HeadTailProperties, ZenonT(20) DEF Provenance, ChanMinted, Receive
      <4>2. pc'[u] = "apply" /\ env'[u] = Head(chan[u])
        BY <1>0, <2>7, <3>1, <3>3, ZenonT(20) DEF Receive, TypeOK
      <4>. QED  BY <2>5, <2>7, <3>1, <3>3, <4>1, <4>2, ZenonT(20) DEF Receive
    <3>. QED  BY <3>2, <3>3
  <2>8. ASSUME UNCHANGED <<seen, minted>> PROVE Doing(n, e)'
    BY <2>3, <2>8, ZenonT(20)
  <2>. QED  BY <1>5, <2>4, <2>6, <2>7, <2>8, OtherSteps, ZenonT(20)
<1>. QED  BY <1>3, <1>4, <1>5, ZenonT(20)

-----------------------------------------------------------------------------
(* A network without connections or threads at work satisfies it all.      *)
LEMMA InitTree == Init => AInv /\ PInv /\ TreeInv /\ Unique /\ Settled
<1> SUFFICES ASSUME Init PROVE AInv /\ PInv /\ TreeInv /\ Unique /\ Settled
  OBVIOUS
<1>1. AInv
  BY GossipAssumption, SMTT(30) DEF Init, AInv, MainOnly, Stamping, Thread
<1>2. PInv /\ Unique /\ Settled
  BY Zenon DEF Init, PInv, ClaimedIsApplied, Unique, Settled
<1>3. Slots
  BY ZenonT(20) DEF Init, Slots
<1>4. OwnOnly /\ Holding
  BY ZenonT(20) DEF Init, OwnOnly, Holding
<1>5. OneWay
  <2>1. \A t \in Reader : t \in Thread
    BY Mates, ZenonT(20)
  <2>. QED  BY <2>1, EmptyQueue, ZenonT(20) DEF Init, OneWay
<1>. QED  BY <1>1, <1>2, <1>3, <1>4, <1>5, ZenonT(20) DEF TreeInv

(* In a forest of daemons that each announce from one goroutine, a node at *)
(* rest believes what the last version it recorded of every fact says: the *)
(* addresses and the subnets, those added and those withdrawn (Receive     *)
(* claims a version and applies it in two critical sections).              *)
THEOREM ViewIsCurrentHolds ==
  ASSUME OneAnnouncer, Forest PROVE Spec => []ViewIsCurrent
<1> DEFINE Inv == AInv /\ PInv /\ TreeInv /\ Unique /\ Settled
<1>1. Init => Inv
  BY InitTree, ZenonT(20)
<1>2. IInv /\ IInv' /\ Inv /\ [Next]_vars => Inv'
  <2> SUFFICES ASSUME IInv, IInv', Inv, [Next]_vars PROVE Inv'
    OBVIOUS
  <2>1. AInv'
    BY StampingStep, ZenonT(20) DEF IInv
  <2>2. PInv'
    BY PStep, ZenonT(20)
  <2>3. TreeInv'
    BY TreeStep, ZenonT(20)
  <2>4. Unique'
    BY UniqueStep, ZenonT(20)
  <2>5. Settled'
    BY SettledStep, ZenonT(20) DEF Settled
  <2>. QED  BY <2>1, <2>2, <2>3, <2>4, <2>5, ZenonT(20)
<1>3. Inv => ViewIsCurrent
  <2> SUFFICES ASSUME Settled, NEW n \in Node, AtRest(n), NEW e \in minted,
                      e.ts = seen[n][e.fact.id]
               PROVE  Reflects(n, e.fact)
    BY ZenonT(20) DEF ViewIsCurrent
  <2>1. \A t \in Thread : t[1] = n => pc[t] = "idle"
    BY ZenonT(20) DEF AtRest, Idle
  <2>2. Doing(n, e)
    BY ZenonT(20) DEF Settled
  <2>. QED  BY <2>1, <2>2 DEF Doing
<1>. QED  BY <1>1, <1>2, <1>3, InitInv, NextInv, PTL DEF Spec
=============================================================================
