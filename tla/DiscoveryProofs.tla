-------------------------- MODULE DiscoveryProofs --------------------------
(***************************************************************************)
(* A UPnP mapping outlives as many failed renewals as its lease covers,    *)
(* for any ports, addresses, refresh period, lease and faults.             *)
(***************************************************************************)
EXTENDS Discovery, TLAPS

(* Time since the last confirmed renewal.  At "sweep" the period of a      *)
(* sweep that is about to renew or to miss has passed already.             *)
Since ==
  IF pc = "sweep" THEN missed * Refresh + Refresh ELSE missed * Refresh + (Refresh - timer)

(* The timer is set before a sweep, no mapping is made without UPnP, and   *)
(* what is left of a lease is what the time since has not used up.         *)
LeaseInv ==
  /\ pc \notin {"wait", "delete", "done"} => timer = Refresh
  /\ ~mode.upnp => renewed = NoEP
  /\ renewed # NoEP /\ pc # "done" => Lease <= lease[renewed] + Since

DInv == TypeOK /\ LeaseInv

(* Every variable keeps its type.                                          *)
LEMMA TypeInv == TypeOK /\ [Next]_vars => TypeOK'
<1> SUFFICES ASSUME TypeOK, [Next]_vars PROVE TypeOK'
  OBVIOUS
<1> USE DiscoveryAssumption DEF TypeOK, loopVars, Endpoint
<1>1. CASE SkipUPnP
  BY <1>1 DEF SkipUPnP, SweepPort
<1>2. CASE RefreshFails
  <2>1. lease' \in [Port -> 0..Lease]
    BY <1>2 DEF RefreshFails, SweepPort, LeaseTime
  <2>2. budget' \in [DOMAIN Budget -> Nat] /\ missed' \in Nat /\ probe' \in Port
    BY <1>2 DEF RefreshFails, Spend, SweepPort
  <2>. QED  BY <1>2, <2>1, <2>2, ZenonT(20) DEF RefreshFails
<1>3. CASE AddPortMapping
  BY <1>3 DEF AddPortMapping, SweepPort, LeaseTime
<1>4. CASE GetExternalIP
  BY <1>4 DEF GetExternalIP, Found, Spend
<1>5. CASE Stun
  BY <1>5 DEF Stun, Found, Spend
<1>6. CASE Set
  BY <1>6 DEF Set, Changed
<1>7. CASE AnnounceFound
  BY <1>7 DEF AnnounceFound, Tell
<1>8. CASE Wake
  BY <1>8 DEF Wake
<1>9. CASE Leave
  BY <1>9 DEF Leave
<1>10. CASE DeletePortMapping
  BY <1>10 DEF DeletePortMapping, Spend
<1>11. CASE Redial
  BY <1>11 DEF Redial
<1>12. CASE Announce
  BY <1>12 DEF Announce, Tell
<1>13. CASE Tick
  BY <1>13 DEF Tick
<1>14. CASE Restart
  BY <1>14 DEF Restart, Spend
<1>15. CASE Stop
  BY <1>15 DEF Stop
<1>16. ASSUME NEW p \in Port, Reload(p) PROVE TypeOK'
  BY <1>16 DEF Reload, Spend
<1>17. ASSUME NEW a \in Addr, Move(a) PROVE TypeOK'
  BY <1>17 DEF Move, Spend
<1>18. CASE UNCHANGED vars
  BY <1>18 DEF vars
<1>. QED
  BY <1>1, <1>2, <1>3, <1>4, <1>5, <1>6, <1>7, <1>8, <1>9, <1>10, <1>11, <1>12, <1>13,
     <1>14, <1>15, <1>16, <1>17, <1>18, ZenonT(20) DEF Next, Loop

(* One more missed sweep is one more period.                               *)
LEMMA OneMore ==
  \A n \in Nat : n * Refresh \in Nat /\ (n + 1) * Refresh = n * Refresh + Refresh
  BY DiscoveryAssumption, SMTT(30)

(* A step uses up no more of the lease than the time that it takes.        *)
LEMMA LeaseStep == DInv /\ TypeOK' /\ [Next]_vars => LeaseInv'
<1> SUFFICES ASSUME DInv, TypeOK', [Next]_vars PROVE LeaseInv'
  OBVIOUS
<1> USE DiscoveryAssumption DEF DInv, TypeOK, LeaseInv, Since, loopVars
<1>1. CASE SkipUPnP
  BY <1>1 DEF SkipUPnP, SweepPort
<1>2. CASE RefreshFails
  BY <1>2, OneMore DEF RefreshFails, Spend, SweepPort, LeaseTime
<1>3. CASE AddPortMapping
  BY <1>3 DEF AddPortMapping, SweepPort, LeaseTime
<1>4. CASE GetExternalIP
  BY <1>4 DEF GetExternalIP, Found, Spend
<1>5. CASE Stun
  BY <1>5 DEF Stun, Found, Spend
<1>6. CASE Set
  BY <1>6 DEF Set, Changed
<1>7. CASE AnnounceFound
  BY <1>7 DEF AnnounceFound, Tell
<1>8. CASE Wake
  BY <1>8 DEF Wake
<1>9. CASE Leave
  BY <1>9 DEF Leave
<1>10. CASE DeletePortMapping
  BY <1>10 DEF DeletePortMapping, Spend
<1>11. CASE Redial
  BY <1>11 DEF Redial
<1>12. CASE Announce
  BY <1>12 DEF Announce, Tell
<1>13. CASE Tick
  BY <1>13 DEF Tick
<1>14. CASE Restart
  BY <1>14 DEF Restart, Spend
<1>15. CASE Stop
  BY <1>15 DEF Stop
<1>16. ASSUME NEW p \in Port, Reload(p) PROVE LeaseInv'
  BY <1>16 DEF Reload, Spend
<1>17. ASSUME NEW a \in Addr, Move(a) PROVE LeaseInv'
  BY <1>17 DEF Move, Spend
<1>18. CASE UNCHANGED vars
  BY <1>18 DEF vars
<1>. QED
  BY <1>1, <1>2, <1>3, <1>4, <1>5, <1>6, <1>7, <1>8, <1>9, <1>10, <1>11, <1>12, <1>13,
     <1>14, <1>15, <1>16, <1>17, <1>18, ZenonT(20) DEF Next, Loop

-----------------------------------------------------------------------------
(* Every variable of the loop and of its surroundings keeps its type.      *)
THEOREM DiscoveryTypes == Spec => []TypeOK
<1>1. ASSUME Init PROVE TypeOK
  <2>1. lease \in [Port -> 0..Lease] /\ timer \in 0..Refresh /\ missed \in Nat
    BY <1>1, DiscoveryAssumption DEF Init
  <2>2. budget \in [DOMAIN Budget -> Nat]
    BY <1>1, DiscoveryAssumption DEF Init
  <2>. QED  BY <1>1, <2>1, <2>2, DiscoveryAssumption, ZenonT(20) DEF Init, TypeOK
<1>. QED  BY <1>1, TypeInv, PTL DEF Spec

(* A mapping that refreshUPnP confirmed is there until the sweep after as  *)
(* many failed renewals as its lease covers, unless the router restarts.   *)
THEOREM ForwardHolds == Spec => []ForwardSurvives
<1>1. Init => LeaseInv
  BY DiscoveryAssumption DEF Init, LeaseInv
<1>2. DInv => ForwardSurvives
  BY DiscoveryAssumption, OneMore DEF DInv, TypeOK, LeaseInv, Since, ForwardSurvives
<1>. QED  BY <1>1, <1>2, DiscoveryTypes, LeaseStep, PTL DEF Spec, DInv
=============================================================================
