----------------------------- MODULE Discovery -----------------------------
(***************************************************************************)
(* The NAT discovery loop (runDiscovery): every Refresh units of time it   *)
(* renews the UPnP port mapping, asks the router or a STUN server for the  *)
(* public address, and announces an endpoint that has changed.  Beside it, *)
(* other goroutines call announceLocal: a reload, and maintainPeer's       *)
(* periodic dial.  A sweep takes no time: its calls have timeouts of       *)
(* seconds.  The router and the STUN servers are external.                 *)
(***************************************************************************)
EXTENDS Naturals

CONSTANTS
  Port,      \* WireGuard listen ports
  Port1,     \* the one configured at start
  Addr,      \* addresses the provider gives the router
  NoEP,      \* no endpoint
  Idle,      \* nobody else is announcing
  Refresh,   \* UPnPRefreshPeriod
  Lease,     \* duration of a mapping
  Dials,     \* is there a ConnectTo peer?
  Budget     \* how often the environment may do each thing

ASSUME DiscoveryAssumption ==
  /\ Port1 \in Port /\ Refresh \in Nat \ {0} /\ Lease \in Nat \ {0}
  /\ Dials \in BOOLEAN /\ Budget \in [{"fault", "move", "reload"} -> Nat]

VARIABLES
  mode,      \* [upnp, stun : BOOLEAN], read once at the start
  pc,        \* where the discovery loop is
  igd,       \* is the gateway known?
  probe,     \* port of this sweep
  found,     \* endpoint found by this sweep
  timer,     \* time to the next tick
  port,      \* configured port
  ep,        \* endpointStore
  other,     \* the other announcing goroutine: idle, or the endpoint it read
  told,      \* the endpoint that the peers hold for this node
  lease,     \* [Port -> time left of its mapping on the router]
  wan,       \* the router's public address
  stopping,  \* is the context cancelled?
  renewed,   \* port of the last confirmed mapping that the router still knew
  missed,    \* sweeps since then that did not renew it
  budget

loopVars == <<mode, pc, igd, probe, found, timer, renewed, missed>>
vars == <<loopVars, port, ep, other, told, lease, wan, stopping, budget>>

Endpoint == Addr \X Port

TypeOK ==
  /\ mode \in [upnp : BOOLEAN, stun : BOOLEAN]
  /\ pc \in {"sweep", "external", "stun", "set", "announce", "wait", "delete", "done"}
  /\ igd \in BOOLEAN /\ probe \in Port /\ port \in Port
  /\ {found, ep, told} \subseteq Endpoint \cup {NoEP}
  /\ other \in Endpoint \cup {NoEP, Idle}
  /\ timer \in 0..Refresh /\ lease \in [Port -> 0..Lease] /\ wan \in Addr
  /\ stopping \in BOOLEAN /\ renewed \in Port \cup {NoEP} /\ missed \in Nat
  /\ budget \in [DOMAIN Budget -> Nat]

(* With neither UPnP nor STUN runDiscovery returns at once.                *)
Init ==
  /\ mode \in [upnp : BOOLEAN, stun : BOOLEAN] /\ (mode.upnp \/ mode.stun)
  /\ pc = "sweep" /\ igd = FALSE /\ probe = Port1 /\ found = NoEP /\ timer = Refresh
  /\ port = Port1 /\ ep = NoEP /\ other = Idle /\ told = NoEP
  /\ lease = [p \in Port |-> 0] /\ wan \in Addr /\ stopping = FALSE
  /\ renewed = NoEP /\ missed = 0 /\ budget = Budget

Spend(e) == budget[e] > 0 /\ budget' = [budget EXCEPT ![e] = @ - 1]

-----------------------------------------------------------------------------
(***************************************************************************)
(* refreshUPnP.  Discover, unless the gateway is known, and AddPortMapping *)
(* for the port configured now.  Mutants: the one configured at the start, *)
(* and none.                                                               *)
(***************************************************************************)
FirstPort == Port1
ZeroPort == 0
SweepPort == port

(* Mutant: the lease is one refresh period.                                *)
LeaseRefresh == Refresh
LeaseTime == Lease

SkipUPnP ==
  /\ pc = "sweep" /\ ~mode.upnp /\ pc' = "stun" /\ probe' = SweepPort
  /\ UNCHANGED <<mode, igd, found, timer, renewed, missed, port, ep, other, told,
                 lease, wan, stopping, budget>>

(* The gateway is not found, refuses, or does its work and the answer is   *)
(* lost: the loop forgets it, and will look for it again.                  *)
RefreshFails ==
  /\ pc = "sweep" /\ mode.upnp /\ pc' = "stun" /\ probe' = SweepPort
  /\ Spend("fault") /\ igd' = FALSE /\ missed' = missed + 1
  /\ lease' \in {lease, [lease EXCEPT ![SweepPort] = LeaseTime]}
  /\ UNCHANGED <<mode, found, timer, renewed, port, ep, other, told, wan, stopping>>

AddPortMapping ==
  /\ pc = "sweep" /\ mode.upnp /\ pc' = "external" /\ probe' = SweepPort
  /\ igd' = TRUE /\ lease' = [lease EXCEPT ![SweepPort] = LeaseTime]
  /\ renewed' = SweepPort /\ missed' = 0
  /\ UNCHANGED <<mode, found, timer, port, ep, other, told, wan, stopping, budget>>

Found(e, next) ==
  /\ pc' = next /\ found' = e
  /\ UNCHANGED <<mode, igd, probe, timer, renewed, missed, port, ep, other, told,
                 lease, wan, stopping>>

(* GetExternalIPAddress; without an answer, STUN is tried.                 *)
GetExternalIP ==
  /\ pc = "external"
  /\ \/ Found(<<wan, probe>>, "set") /\ UNCHANGED budget
     \/ Found(NoEP, "stun") /\ Spend("fault")

(* The first STUN server that answers gives the address; the port is ours. *)
Stun ==
  /\ pc = "stun"
  /\ \/ mode.stun /\ Found(<<wan, probe>>, "set") /\ UNCHANGED budget
     \/ mode.stun /\ Found(NoEP, "set") /\ Spend("fault")
     \/ ~mode.stun /\ Found(NoEP, "set") /\ UNCHANGED budget

(* Mutant: a new port alone is no news.                                    *)
NewAddress(e, f) == f = NoEP \/ e[1] # f[1]

(* endpointStore.Set reports a change.                                     *)
Changed(e, f) == e # f

Set ==
  /\ pc = "set"
  /\ IF found # NoEP /\ Changed(found, ep) THEN ep' = found /\ pc' = "announce"
                                          ELSE pc' = "wait" /\ UNCHANGED ep
  /\ UNCHANGED <<mode, igd, probe, found, timer, renewed, missed, port, other, told,
                 lease, wan, stopping, budget>>

(* The Hello of announceLocal; a receiver ignores an empty endpoint.       *)
Tell(e) == told' = IF e = NoEP THEN told ELSE e

(* Only this loop writes the store.                                        *)
AnnounceFound ==
  /\ pc = "announce" /\ pc' = "wait" /\ Tell(ep)
  /\ UNCHANGED <<mode, igd, probe, found, timer, renewed, missed, port, ep, other,
                 lease, wan, stopping, budget>>

Wake ==
  /\ pc = "wait" /\ timer = 0 /\ timer' = Refresh /\ pc' = "sweep"
  /\ UNCHANGED <<mode, igd, probe, found, renewed, missed, port, ep, other, told,
                 lease, wan, stopping, budget>>

(* The context is cancelled: the mapping of the port configured at the     *)
(* start is deleted, when the gateway is known.                            *)
Leave ==
  /\ pc = "wait" /\ stopping /\ pc' = IF igd THEN "delete" ELSE "done"
  /\ UNCHANGED <<mode, igd, probe, found, timer, renewed, missed, port, ep, other,
                 told, lease, wan, stopping, budget>>

DeletePortMapping ==
  /\ pc = "delete" /\ pc' = "done"
  /\ \/ lease' = [lease EXCEPT ![Port1] = 0] /\ UNCHANGED budget
     \/ UNCHANGED lease /\ Spend("fault")
  /\ UNCHANGED <<mode, igd, probe, found, timer, renewed, missed, port, ep, other,
                 told, wan, stopping>>

-----------------------------------------------------------------------------
(***************************************************************************)
(* The other goroutines that announce: each reads the store first.         *)
(***************************************************************************)
Reload(p) ==
  /\ other = Idle /\ ~stopping /\ Spend("reload")
  /\ port' = p /\ other' = ep
  /\ UNCHANGED <<loopVars, ep, told, lease, wan, stopping>>

Redial ==
  /\ Dials /\ other = Idle /\ ~stopping /\ other' = ep
  /\ UNCHANGED <<loopVars, port, ep, told, lease, wan, stopping, budget>>

Announce ==
  /\ other # Idle /\ Tell(other) /\ other' = Idle
  /\ UNCHANGED <<loopVars, port, ep, lease, wan, stopping, budget>>

-----------------------------------------------------------------------------
(***************************************************************************)
(* Time, the provider, and the router.                                     *)
(***************************************************************************)
Tick ==
  /\ pc = "wait" /\ timer > 0 /\ timer' = timer - 1
  /\ lease' = [p \in Port |-> IF lease[p] = 0 THEN 0 ELSE lease[p] - 1]
  /\ UNCHANGED <<mode, pc, igd, probe, found, renewed, missed, port, ep, other, told,
                 wan, stopping, budget>>

(* The router gets another address, or restarts and forgets its mappings.  *)
Move(a) ==
  /\ a # wan /\ Spend("move") /\ wan' = a
  /\ UNCHANGED <<loopVars, port, ep, other, told, lease, stopping>>

Restart ==
  /\ Spend("move") /\ lease' = [p \in Port |-> 0] /\ renewed' = NoEP
  /\ UNCHANGED <<mode, pc, igd, probe, found, timer, missed, port, ep, other, told,
                 wan, stopping>>

Stop ==
  /\ ~stopping /\ stopping' = TRUE
  /\ UNCHANGED <<loopVars, port, ep, other, told, lease, wan, budget>>

Loop ==
  \/ SkipUPnP \/ RefreshFails \/ AddPortMapping \/ GetExternalIP \/ Stun \/ Set
  \/ AnnounceFound \/ Wake \/ Leave \/ DeletePortMapping

Next ==
  \/ Loop \/ Redial \/ Announce \/ Tick \/ Restart \/ Stop
  \/ \E p \in Port : Reload(p)
  \/ \E a \in Addr : Move(a)

Spec == Init /\ [][Next]_vars

(* The goroutines run, and time passes.  Faults are finitely many.         *)
FairSpec == Spec /\ WF_vars(Loop) /\ WF_vars(Tick) /\ WF_vars(Announce) /\ WF_vars(Redial)

-----------------------------------------------------------------------------
(* A mapping outlives as many failed renewals as its lease covers: it is   *)
(* there until the sweep after them (refreshUPnP asks for 3600 s, and      *)
(* renews every 60 s by default).                                          *)
ForwardSurvives ==
  renewed # NoEP /\ (missed + 1) * Refresh < Lease /\ pc # "done" => lease[renewed] > 0

(* In the end the configured port is forwarded and stays so, whatever      *)
(* restarts of the router and reloads came before.                         *)
ForwardRestored == mode.upnp => <>[](stopping \/ lease[port] > 0)

(* In the end the peers hold the public address and the configured port.   *)
EndpointFollows == <>[](stopping \/ told = <<wan, port>>)
=============================================================================
