----------------------------- MODULE Dataplane -----------------------------
(***************************************************************************)
(* How one daemon drives the kernel: applyReconcile (internal/daemon)      *)
(* builds the desired state from the configuration, the graph, the hosts/  *)
(* files and the gossip-learned addresses, and Reconcile                   *)
(* (internal/dataplane/linux) applies it by one netlink call after the     *)
(* other.  Every connection's reader, the signal loop and the control      *)
(* handler call it, and no lock is held: the calls of different callers    *)
(* interleave.                                                             *)
(***************************************************************************)
EXTENDS Naturals, FiniteSets

CONSTANTS
  Peer,      \* names of the other nodes
  Key,       \* WireGuard public keys; a key also stands for the MAC it yields
  NoKey,     \* no key
  Bcast,     \* the broadcast MAC
  Addr,      \* underlay addresses, and prefixes of subnets
  NoAddr,    \* an absent address
  AddrsOf,   \* [Peer -> SUBSET Addr], what each peer may announce
  Caller,    \* goroutines that call applyReconcile
  Confs,     \* configurations a reload may find
  InitConf,  \* the one loaded at start
  Hosts,     \* [Peer -> set of contents its hosts/ file may be given]
  InitHosts, \* the hosts/ files at start
  MaxChange  \* bound on changes of the inputs

NoHost == [key |-> NoKey, addr |-> NoAddr]
NoDev == [idx |-> 0, src |-> NoAddr]
Conf == [mode : {"switch", "router"}, src : Addr \cup {NoAddr}]
Host == [key : Key \cup {NoKey}, addr : Addr \cup {NoAddr}]
Row == (Key \cup {Bcast}) \X Addr

ASSUME DataplaneAssumption ==
  /\ NoKey \notin Key /\ Bcast \notin Key /\ NoAddr \notin Addr
  /\ AddrsOf \in [Peer -> SUBSET Addr]
  /\ InitConf \in Conf /\ Confs \subseteq Conf
  /\ Hosts \in [Peer -> SUBSET Host] /\ InitHosts \in [Peer -> Host]
  /\ MaxChange \in Nat

VARIABLES
  conf,     \* the loaded mode (hub is like switch) and local underlay address
  nodes,    \* peers in the graph
  subnets,  \* subnets each peer owns in the graph
  learned,  \* underlay address learned from each peer's Hello
  hosts,    \* the hosts/<peer> files
  ver,      \* number of changes of the five above
  wg,       \* kernel: peers on the WireGuard device
  routes,   \* kernel: the peer each AllowedIPs prefix belongs to
  vx,       \* kernel: the VXLAN device
  fdb,      \* kernel: its static forwarding rows
  links,    \* kernel: devices created so far, which numbers them
  pc, left, st, dev, idx, add, del,   \* locals of each caller
  over,     \* history: whether another Reconcile overlapped each caller's
  applied,  \* history: newest inputs a completed Reconcile was given
  alone     \* history: newest inputs one that nothing overlapped was given

inputs == <<conf, nodes, subnets, learned, hosts, ver>>
kernel == <<wg, routes, vx, fdb, links>>
locals == <<pc, left, st, dev, idx, add, del>>
history == <<over, applied, alone>>
vars == <<inputs, kernel, locals, history>>

-----------------------------------------------------------------------------
(***************************************************************************)
(* buildState(): the peers of the graph whose hosts/ file has a key.  A    *)
(* learned address takes precedence over the file's.  AllowedIPs are the   *)
(* peer's underlay address or, in router mode, its subnets.                *)
(***************************************************************************)
Underlay(p) == IF learned[p] # NoAddr THEN learned[p] ELSE hosts[p].addr

AllowedIPsFor(p) ==
  IF conf.mode = "router" THEN subnets[p] ELSE {Underlay(p)} \ {NoAddr}

BuildState ==
  [mode |-> conf.mode, src |-> conf.src, ver |-> ver,
   peers |-> {[key |-> hosts[p].key, addr |-> Underlay(p), allowed |-> AllowedIPsFor(p)] :
                p \in {q \in nodes : hosts[q].key # NoKey}}]

State == [mode : {"switch", "router"}, src : Addr \cup {NoAddr}, ver : 0..MaxChange,
          peers : SUBSET [key : Key, addr : Addr \cup {NoAddr}, allowed : SUBSET Addr]]

NoState == [mode |-> "router", src |-> NoAddr, ver |-> 0, peers |-> {}]

Keys(s) == {p.key : p \in s.peers}
Claimants(s, x) == {p.key : p \in {q \in s.peers : x \in q.allowed}}

Addressed(s) == {p \in s.peers : p.addr # NoAddr}

(* Mutants: peers without an address included; broadcast rows not managed. *)
RowsUnchecked(s) == {<<Bcast, p.addr>> : p \in s.peers} \cup {<<p.key, p.addr>> : p \in s.peers}
ManagedUnicast(s) == {p.key : p \in Addressed(s)}

(* The rows reconcileFDB wants: broadcast and unicast, per addressed peer, *)
(* and the MACs whose other rows it removes.                               *)
Rows(s) == {<<Bcast, p.addr>> : p \in Addressed(s)}
             \cup {<<p.key, p.addr>> : p \in Addressed(s)}
ManagedMACs(s) == {Bcast} \cup {p.key : p \in Addressed(s)}

-----------------------------------------------------------------------------
TypeOK ==
  /\ conf \in Conf /\ nodes \subseteq Peer /\ subnets \in [Peer -> SUBSET Addr]
  /\ learned \in [Peer -> Addr \cup {NoAddr}] /\ hosts \in [Peer -> Host]
  /\ ver \in 0..MaxChange /\ applied \in 0..MaxChange /\ alone \in 0..MaxChange
  /\ over \in [Caller -> BOOLEAN]
  /\ wg \subseteq Key /\ routes \in [Addr -> Key \cup {NoKey}]
  /\ vx \in [idx : Nat, src : Addr \cup {NoAddr}]
  /\ fdb \subseteq Row /\ links \in Nat
  /\ pc \in [Caller -> {"idle", "build", "device", "configure", "look", "drop",
                        "create", "list", "rows"}]
  /\ left \in [Caller -> 0..2] /\ st \in [Caller -> State]
  /\ dev \in [Caller -> SUBSET Key] /\ idx \in [Caller -> Nat]
  /\ add \in [Caller -> SUBSET Row] /\ del \in [Caller -> SUBSET Row]

(* The callers start once Run's own first Reconcile has found the graph    *)
(* without peers.                                                          *)
Init ==
  /\ conf = InitConf /\ nodes = {} /\ subnets = [p \in Peer |-> {}]
  /\ learned = [p \in Peer |-> NoAddr] /\ hosts = InitHosts /\ ver = 0
  /\ wg = {} /\ routes = [x \in Addr |-> NoKey]
  /\ IF InitConf.mode = "router" \/ InitConf.src = NoAddr
     THEN vx = NoDev /\ links = 0
     ELSE vx = [idx |-> 1, src |-> InitConf.src] /\ links = 1
  /\ fdb = {}
  /\ pc = [g \in Caller |-> "idle"] /\ left = [g \in Caller |-> 0]
  /\ st = [g \in Caller |-> NoState] /\ dev = [g \in Caller |-> {}]
  /\ idx = [g \in Caller |-> 0]
  /\ add = [g \in Caller |-> {}] /\ del = [g \in Caller |-> {}]
  /\ applied = 0 /\ alone = 0 /\ over = [g \in Caller |-> FALSE]

-----------------------------------------------------------------------------
(* What makes a caller reconcile.                                          *)
Begin(g, times) ==
  /\ pc[g] = "idle"
  /\ pc' = [pc EXCEPT ![g] = "build"] /\ left' = [left EXCEPT ![g] = times]
  /\ UNCHANGED <<kernel, st, dev, idx, add, del, history>>

Change == ver < MaxChange /\ ver' = ver + 1

(* A reader applied a Hello naming p; the plane's listener reconciles.     *)
HearHello(g, p, a) ==
  /\ Change /\ Begin(g, 1)
  /\ nodes' = nodes \cup {p}
  /\ learned' = [learned EXCEPT ![p] = IF a # NoAddr THEN a ELSE @]
  /\ UNCHANGED <<conf, subnets, hosts>>

(* A reader applied AddSubnet or DelSubnet of p.                           *)
HearSubnet(g, p, x) ==
  /\ Change /\ Begin(g, 1)
  /\ \/ /\ x \notin subnets[p]
        /\ subnets' = [subnets EXCEPT ![p] = @ \cup {x}] /\ nodes' = nodes \cup {p}
     \/ /\ x \in subnets[p]
        /\ subnets' = [subnets EXCEPT ![p] = @ \ {x}] /\ UNCHANGED nodes
  /\ UNCHANGED <<conf, learned, hosts>>

(* SIGHUP or a control reload: load, announceLocal, whose Hello runs the   *)
(* listener, and one more applyReconcile.                                  *)
Reload(g, c) ==
  /\ c # conf /\ Change /\ Begin(g, 2)
  /\ conf' = c
  /\ UNCHANGED <<nodes, subnets, learned, hosts>>

(* SIGALRM.                                                                *)
Alarm(g) == Begin(g, 1) /\ UNCHANGED inputs

(* A hosts/ file is written (import, invitation) or edited by hand; nobody *)
(* reconciles because of it.                                               *)
WriteHost(p, h) ==
  /\ hosts[p] # h /\ Change
  /\ hosts' = [hosts EXCEPT ![p] = h]
  /\ UNCHANGED <<conf, nodes, subnets, learned, kernel, locals, history>>

-----------------------------------------------------------------------------
(* Reconcile(), call by call.                                              *)

Goto(g, l) == pc' = [pc EXCEPT ![g] = l] /\ UNCHANGED left

(* Reconcile returns, with or without an error; the caller reconciles      *)
(* again or goes back to its loop.                                         *)
Return(g) ==
  /\ over' = [over EXCEPT ![g] = FALSE]
  /\ left' = [left EXCEPT ![g] = @ - 1]
  /\ pc' = [pc EXCEPT ![g] = IF left[g] > 1 THEN "build" ELSE "idle"]
  /\ st' = [st EXCEPT ![g] = NoState] /\ dev' = [dev EXCEPT ![g] = {}]
  /\ idx' = [idx EXCEPT ![g] = 0]
  /\ add' = [add EXCEPT ![g] = {}] /\ del' = [del EXCEPT ![g] = {}]

Larger(i, j) == IF i > j THEN i ELSE j

Success(g) ==
  /\ Return(g)
  /\ applied' = Larger(st[g].ver, applied)
  /\ alone' = IF over[g] THEN alone ELSE Larger(st[g].ver, alone)

Failure(g) == Return(g) /\ UNCHANGED <<applied, alone>>
Error(g) == Failure(g) /\ UNCHANGED kernel

Busy(g) == pc[g] \notin {"idle", "build"}

Build(g) ==
  /\ pc[g] = "build" /\ Goto(g, "device")
  /\ st' = [st EXCEPT ![g] = BuildState]
  /\ over' = [h \in Caller |-> IF h = g THEN \E k \in Caller \ {g} : Busy(k)
                                         ELSE over[h] \/ Busy(h)]
  /\ UNCHANGED <<inputs, kernel, dev, idx, add, del, applied, alone>>

(* ensureWGInterface, then the Device read of configureWGPeers.            *)
ReadDevice(g) ==
  /\ pc[g] = "device" /\ Goto(g, "configure")
  /\ dev' = [dev EXCEPT ![g] = wg]
  /\ UNCHANGED <<inputs, kernel, st, idx, add, del, history>>

(* Mutant: peers that disappeared are not removed.                         *)
PeersKept(g) == wg \cup Keys(st[g])

PeersConfigured(g) == (wg \ (dev[g] \ Keys(st[g]))) \cup Keys(st[g])

(* The one ConfigureDevice call: desired peers with their AllowedIPs, and  *)
(* removal of the others that were read.  A prefix belongs to one peer:    *)
(* the last that claims it, in the order of a Go map iteration.            *)
Configure(g) ==
  LET s == st[g] IN
  /\ pc[g] = "configure"
  /\ wg' = PeersConfigured(g)
  /\ \E owner \in [{x \in Addr : Claimants(s, x) # {}} -> Keys(s)] :
       /\ \A x \in DOMAIN owner : owner[x] \in Claimants(s, x)
       /\ routes' = [x \in Addr |->
            CASE x \in DOMAIN owner -> owner[x]
              [] x \notin DOMAIN owner /\ routes[x] \in wg' \ Keys(s) -> routes[x]
              [] OTHER -> NoKey]
  /\ \/ s.mode = "router" /\ Success(g)
     \/ s.mode # "router" /\ s.src = NoAddr /\ Failure(g)
     \/ /\ s.mode # "router" /\ s.src # NoAddr /\ Goto(g, "look")
        /\ UNCHANGED <<st, dev, idx, add, del, history>>
  /\ UNCHANGED <<inputs, vx, fdb, links>>

(* Mutant: the device is recreated whether or not its source differs.      *)
LookRecreate(g) ==
  /\ pc[g] = "look"
  /\ Goto(g, IF vx = NoDev THEN "create" ELSE "drop")
  /\ idx' = [idx EXCEPT ![g] = vx.idx]
  /\ UNCHANGED <<inputs, kernel, st, dev, add, del, history>>

(* ensureVXLAN looks at the device: absent, as wanted, or with another     *)
(* source address, which only a new device can change.                     *)
Look(g) ==
  /\ pc[g] = "look"
  /\ Goto(g, CASE vx = NoDev -> "create" [] vx.src = st[g].src -> "list" [] OTHER -> "drop")
  /\ idx' = [idx EXCEPT ![g] = vx.idx]
  /\ UNCHANGED <<inputs, kernel, st, dev, add, del, history>>

Drop(g) ==
  /\ pc[g] = "drop"
  /\ \/ /\ vx.idx = idx[g] /\ Goto(g, "create")
        /\ vx' = NoDev /\ fdb' = {}
        /\ UNCHANGED <<wg, routes, links, st, dev, idx, add, del, history>>
     \/ vx.idx # idx[g] /\ Error(g)
  /\ UNCHANGED inputs

Create(g) ==
  /\ pc[g] = "create"
  /\ \/ /\ vx = NoDev /\ Goto(g, "list")
        /\ vx' = [idx |-> links + 1, src |-> st[g].src]
        /\ links' = links + 1
        /\ UNCHANGED <<wg, routes, fdb, st, dev, idx, add, del, history>>
     \/ vx # NoDev /\ Error(g)
  /\ UNCHANGED inputs

(* reconcileFDB: look the device up, list its rows, keep those whose MAC   *)
(* is managed, and compute the difference.                                 *)
List(g) ==
  LET want == Rows(st[g])
      have == {r \in fdb : r[1] \in ManagedMACs(st[g])}
  IN /\ pc[g] = "list"
     /\ \/ /\ vx # NoDev /\ Goto(g, "rows")
           /\ idx' = [idx EXCEPT ![g] = vx.idx]
           /\ add' = [add EXCEPT ![g] = want \ have]
           /\ del' = [del EXCEPT ![g] = have \ want]
           /\ UNCHANGED <<kernel, st, dev, history>>
        \/ vx = NoDev /\ Error(g)
     /\ UNCHANGED inputs

(* One NeighAppend; the kernel accepts a row it already has.               *)
AppendRow(g, r) ==
  /\ pc[g] = "rows"
  /\ \/ /\ vx.idx = idx[g] /\ fdb' = fdb \cup {r}
        /\ add' = [add EXCEPT ![g] = @ \ {r}]
        /\ UNCHANGED <<wg, routes, vx, links, pc, left, st, dev, idx, del, history>>
     \/ vx.idx # idx[g] /\ Error(g)
  /\ UNCHANGED inputs

(* One NeighDel, after all additions; a row that is gone is an error.      *)
DeleteRow(g, r) ==
  /\ pc[g] = "rows" /\ add[g] = {}
  /\ \/ /\ vx.idx = idx[g] /\ r \in fdb /\ fdb' = fdb \ {r}
        /\ del' = [del EXCEPT ![g] = @ \ {r}]
        /\ UNCHANGED <<wg, routes, vx, links, pc, left, st, dev, idx, add, history>>
     \/ (vx.idx # idx[g] \/ r \notin fdb) /\ Error(g)
  /\ UNCHANGED inputs

Done(g) ==
  /\ pc[g] = "rows" /\ add[g] = {} /\ del[g] = {}
  /\ Success(g) /\ UNCHANGED <<inputs, kernel>>

(* Any netlink call may fail: Reconcile stops where it is.                 *)
Fail(g) ==
  /\ Busy(g)
  /\ Error(g) /\ UNCHANGED inputs

-----------------------------------------------------------------------------
Reconcile(g) ==
  \/ Build(g) \/ ReadDevice(g) \/ Configure(g) \/ Look(g) \/ Drop(g) \/ Create(g)
  \/ List(g) \/ Done(g) \/ (\E r \in add[g] : AppendRow(g, r))
  \/ \E r \in del[g] : DeleteRow(g, r)

Next ==
  \/ \E g \in Caller : Reconcile(g) \/ Fail(g) \/ Alarm(g) \/ \E c \in Confs : Reload(g, c)
  \/ \E g \in Caller, p \in Peer :
       \/ \E a \in AddrsOf[p] \cup {NoAddr} : HearHello(g, p, a)
       \/ \E x \in AddrsOf[p] : HearSubnet(g, p, x)
  \/ \E p \in Peer : \E h \in Hosts[p] : WriteHost(p, h)

Spec == Init /\ [][Next]_vars

-----------------------------------------------------------------------------
(* Nobody is reconciling, and the last change was seen by a Reconcile that *)
(* succeeded; if calm, by one that no other overlapped.                    *)
Settled == applied = ver /\ \A g \in Caller : pc[g] = "idle"
Calm == Settled /\ alone = ver

Overlay == conf.mode # "router" /\ conf.src # NoAddr

(* The WireGuard device has exactly the desired peers, and a prefix is     *)
(* routed to a peer that claims it, or to none if no peer does.            *)
WGMatches ==
  /\ wg = Keys(BuildState)
  /\ \A x \in Addr : IF Claimants(BuildState, x) = {} THEN routes[x] = NoKey
                     ELSE routes[x] \in Claimants(BuildState, x)

(* The VXLAN device has the right source, every desired row is there, and  *)
(* there is no other for broadcast or for the MAC of a desired peer.       *)
VXLANMatches ==
  /\ vx # NoDev /\ vx.src = conf.src
  /\ Rows(BuildState) \subseteq fdb
  /\ \A r \in fdb : r[1] = Bcast \/ (\E p \in Addressed(BuildState) : p.key = r[1])
                    => r \in Rows(BuildState)

(* One Reconcile that runs alone repairs WireGuard whatever came before:   *)
(* Reconciles that failed half-way or overlapped, files written between    *)
(* the read and the calls, mode changes.                                   *)
PeersFollow == Calm => WGMatches

(* And it repairs the VXLAN device, also when the device must be recreated,*)
(* which empties its table, or was dropped by one that failed.             *)
OverlayFollows == Calm /\ Overlay => VXLANMatches

(* "Reconcile is idempotent": once one that ran alone has applied the      *)
(* current inputs, further ones, overlapping or failing, change nothing in *)
(* the kernel.                                                             *)
Idempotent == [][alone = ver /\ ver' = ver => UNCHANGED kernel]_vars

(* No prefix is claimed by two peers, in gossip or in the hosts/ files.    *)
OwnPrefixes ==
  /\ \A p, q \in Peer : p # q => AddrsOf[p] \cap AddrsOf[q] = {}
  /\ \A p \in Peer : \A h \in Hosts[p] \cup {InitHosts[p]} : h.addr \in AddrsOf[p] \cup {NoAddr}

(* The kernel follows what gossip has taught the daemon, however the       *)
(* Reconciles that the messages caused overlap.                            *)
GossipIsApplied == Settled /\ Overlay => VXLANMatches
=============================================================================
