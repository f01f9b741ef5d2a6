-------------------------- MODULE DataplaneProofs --------------------------
(***************************************************************************)
(* A Reconcile that runs alone repairs the kernel, and further ones leave  *)
(* it as it is, for any peers, keys, addresses, callers and changes.       *)
(***************************************************************************)
EXTENDS Dataplane, TLAPS

-----------------------------------------------------------------------------
(* A caller that is not idle has a Reconcile left to do.                   *)
TInv == TypeOK /\ \A g \in Caller : pc[g] # "idle" => left[g] > 0

(* The kernel is as the desired state s wants it.                          *)
WGHas(s) ==
  /\ wg = Keys(s)
  /\ \A x \in Addr : IF Claimants(s, x) = {} THEN routes[x] = NoKey
                     ELSE routes[x] \in Claimants(s, x)

VXHas(s) ==
  /\ vx # NoDev /\ vx.src = s.src
  /\ Rows(s) \subseteq fdb
  /\ \A r \in fdb : r[1] \in ManagedMACs(s) => r \in Rows(s)

OverlayOf(s) == s.mode # "router" /\ s.src # NoAddr

(* It will be, once g has added and removed the rows it computed.          *)
Pending(g) ==
  /\ Rows(st[g]) \subseteq fdb \cup add[g] /\ add[g] \subseteq Rows(st[g])
  /\ \A r \in fdb : r[1] \in ManagedMACs(st[g]) => r \in Rows(st[g]) \cup del[g]
  /\ del[g] \cap Rows(st[g]) = {}

(* Callers that overlap know it; a state that is not outdated is the one   *)
(* that would be built now; and none is outdated once alone has caught up. *)
Callers ==
  /\ alone <= ver
  /\ \A g, h \in Caller : Busy(g) /\ Busy(h) /\ g # h => over[g]
  /\ \A g \in Caller : Busy(g) =>
       /\ st[g].ver <= ver
       /\ st[g].ver = ver => st[g] = BuildState
       /\ alone = ver => st[g].ver = ver
       /\ pc[g] \notin {"device", "configure"} => OverlayOf(st[g])

(* How far a Reconcile has come that nothing has overlapped.               *)
Stage(g) ==
  Busy(g) /\ ~over[g] =>
    /\ pc[g] = "configure" => dev[g] = wg
    /\ pc[g] \notin {"device", "configure"} => WGHas(st[g])
    /\ pc[g] \in {"list", "rows"} => vx # NoDev /\ vx.src = st[g].src
    /\ pc[g] = "rows" => Pending(g)

(* Once alone has caught up the kernel is right, and nobody is about to    *)
(* change it.                                                              *)
Right ==
  alone = ver =>
    /\ WGHas(BuildState) /\ (OverlayOf(BuildState) => VXHas(BuildState))
    /\ \A g \in Caller : /\ pc[g] \notin {"drop", "create"}
                         /\ pc[g] = "rows" => add[g] = {} /\ del[g] = {}

DInv == TInv /\ Callers /\ (\A g \in Caller : Stage(g)) /\ Right

(* Peers have the addresses and subnets that they may announce.            *)
Unshared ==
  \A p \in Peer : /\ subnets[p] \subseteq AddrsOf[p]
                  /\ {learned[p], hosts[p].addr} \subseteq AddrsOf[p] \cup {NoAddr}

(* The types of what a caller has.                                         *)
Local ==
  /\ over \in [Caller -> BOOLEAN]
  /\ pc \in [Caller -> {"idle", "build", "device", "configure", "look", "drop",
                        "create", "list", "rows"}]
  /\ left \in [Caller -> 0..2] /\ st \in [Caller -> State]
  /\ dev \in [Caller -> SUBSET Key] /\ idx \in [Caller -> Nat]
  /\ add \in [Caller -> SUBSET Row] /\ del \in [Caller -> SUBSET Row]
  /\ \A g \in Caller : pc[g] # "idle" => left[g] > 0

(* Returning from Reconcile resets them.                                   *)
LEMMA ReturnLocal ==
  ASSUME TInv, NEW g \in Caller, pc[g] # "idle", Return(g)
  PROVE  Local'
<1>1. NoState \in State
  BY DataplaneAssumption DEF NoState, State
<1>2. left[g] \in 1..2
  BY DEF TInv, TypeOK
<1>3. left' \in [Caller -> 0..2] /\ (left[g] > 1 => left'[g] > 0)
  BY <1>2 DEF TInv, TypeOK, Return
<1>4. pc' \in [Caller -> {"idle", "build", "device", "configure", "look", "drop",
                          "create", "list", "rows"}]
  BY DEF TInv, TypeOK, Return
<1>5. \A h \in Caller : pc'[h] # "idle" => left'[h] > 0
  BY <1>3 DEF TInv, TypeOK, Return
<1>6. over' \in [Caller -> BOOLEAN] /\ st' \in [Caller -> State]
  BY <1>1 DEF TInv, TypeOK, Return
<1>7. dev' \in [Caller -> SUBSET Key] /\ idx' \in [Caller -> Nat]
  BY DEF TInv, TypeOK, Return
<1>8. add' \in [Caller -> SUBSET Row] /\ del' \in [Caller -> SUBSET Row]
  BY DEF TInv, TypeOK, Return
<1>. QED  BY <1>3, <1>4, <1>5, <1>6, <1>7, <1>8 DEF Local

(* What buildState makes is a state.                                       *)
LEMMA BuildType == ASSUME TypeOK PROVE BuildState \in State
<1>1. \A q \in nodes : hosts[q].key # NoKey =>
        [key |-> hosts[q].key, addr |-> Underlay(q), allowed |-> AllowedIPsFor(q)]
          \in [key : Key, addr : Addr \cup {NoAddr}, allowed : SUBSET Addr]
  BY DEF TypeOK, Underlay, AllowedIPsFor, Host
<1>. QED  BY <1>1, DataplaneAssumption DEF TypeOK, BuildState, State, Conf

(* The rows reconcileFDB wants are rows.                                   *)
LEMMA RowsType == ASSUME NEW s \in State PROVE Rows(s) \subseteq Row
  BY DEF Rows, Row, Addressed, State

(* They are for MAC addresses that it manages.                             *)
LEMMA RowsManaged == ASSUME NEW s, NEW r \in Rows(s) PROVE r[1] \in ManagedMACs(s)
  BY DEF Rows, ManagedMACs

(* Adding a row leaves what is pending right.                              *)
LEMMA RowAdded ==
  ASSUME TInv, NEW g \in Caller, NEW r \in add[g], fdb' = fdb \cup {r},
         add' = [add EXCEPT ![g] = @ \ {r}], UNCHANGED <<pc, st, del>>
  PROVE  /\ \A h \in Caller \ {g} : pc'[h] = pc[h] /\ add'[h] = add[h] /\ del'[h] = del[h]
         /\ Pending(g) => Pending(g)'
<1>1. add'[g] = add[g] \ {r} /\ \A h \in Caller \ {g} : add'[h] = add[h]
  BY DEF TInv, TypeOK
<1>. QED  BY <1>1 DEF Pending

(* Removing a row leaves what is pending right.                            *)
LEMMA RowRemoved ==
  ASSUME TInv, NEW g \in Caller, NEW r \in del[g], fdb' = fdb \ {r},
         del' = [del EXCEPT ![g] = @ \ {r}], UNCHANGED <<pc, st, add>>
  PROVE  /\ \A h \in Caller \ {g} : pc'[h] = pc[h] /\ add'[h] = add[h] /\ del'[h] = del[h]
         /\ Pending(g) => Pending(g)'
<1>1. del'[g] = del[g] \ {r} /\ \A h \in Caller \ {g} : del'[h] = del[h]
  BY DEF TInv, TypeOK
<1>. QED  BY <1>1 DEF Pending

(* ConfigureDevice gives every claimed prefix to a claimant, and keeps the *)
(* others of peers that it does not touch.                                 *)
LEMMA ConfigureRoutes ==
  ASSUME NEW g \in Caller, Configure(g)
  PROVE  /\ routes' = [x \in Addr |-> routes'[x]]
         /\ \A x \in Addr :
              IF Claimants(st[g], x) # {} THEN routes'[x] \in Claimants(st[g], x)
              ELSE routes'[x] = IF routes[x] \in wg' \ Keys(st[g]) THEN routes[x] ELSE NoKey
<1> DEFINE Claimed == {x \in Addr : Claimants(st[g], x) # {}}
<1>1. PICK owner \in [Claimed -> Keys(st[g])] :
        /\ \A x \in DOMAIN owner : owner[x] \in Claimants(st[g], x)
        /\ routes' = [x \in Addr |->
              CASE x \in DOMAIN owner -> owner[x]
                [] x \notin DOMAIN owner /\ routes[x] \in wg' \ Keys(st[g]) -> routes[x]
                [] OTHER -> NoKey]
  BY ZenonT(20) DEF Configure
<1>2. DOMAIN owner = Claimed
  OBVIOUS
<1>. QED  BY <1>1, <1>2, SMTT(30)

(* Every variable keeps its type.                                          *)
LEMMA TypeInv == TInv /\ [Next]_vars => TInv'
<1> SUFFICES ASSUME TInv, [Next]_vars PROVE TInv'
  OBVIOUS
<1> USE DataplaneAssumption DEF TInv, TypeOK, inputs, kernel, locals, history
<1>0. ASSUME NEW g \in Caller, pc[g] # "idle", Error(g), UNCHANGED inputs PROVE TInv'
  BY <1>0, ReturnLocal DEF Error, Failure, Local
<1>1. ASSUME NEW g \in Caller, Build(g) PROVE TInv'
  BY <1>1, BuildType, ZenonT(20) DEF Build, Goto
<1>2. ASSUME NEW g \in Caller, ReadDevice(g) PROVE TInv'
  BY <1>2 DEF ReadDevice, Goto
<1>3. ASSUME NEW g \in Caller, Configure(g) PROVE TInv'
  <2>1. wg' \subseteq Key
    BY <1>3 DEF Configure, PeersConfigured, Keys, State
  <2>2. \A x \in Addr : Claimants(st[g], x) \subseteq Key
    BY DEF Claimants, State
  <2>3. routes' \in [Addr -> Key \cup {NoKey}]
    BY <1>3, <2>2, ConfigureRoutes
  <2>4. CASE Return(g)
    <3>1. Local'
      BY <1>3, <2>4, ReturnLocal DEF Configure
    <3>2. applied' \in 0..MaxChange /\ alone' \in 0..MaxChange
      BY <1>3 DEF Configure, Success, Failure, Larger, State
    <3>. QED  BY <1>3, <2>1, <2>3, <3>1, <3>2 DEF Configure, Local
  <2>. QED  BY <1>3, <2>1, <2>3, <2>4 DEF Configure, Goto, Success, Failure, history
<1>4. ASSUME NEW g \in Caller, Look(g) PROVE TInv'
  BY <1>4 DEF Look, Goto
<1>5. ASSUME NEW g \in Caller, Drop(g) PROVE TInv'
  <2>1. CASE ~Error(g)
    <3>1. /\ pc[g] = "drop" /\ pc' = [pc EXCEPT ![g] = "create"] /\ vx' = NoDev /\ fdb' = {}
          /\ UNCHANGED <<inputs, wg, routes, links, left, st, dev, idx, add, del, history>>
      BY <1>5, <2>1, ZenonT(20) DEF Drop, Goto
    <3>. QED  BY <3>1 DEF NoDev
  <2>. QED  BY <1>0, <1>5, <2>1 DEF Drop
<1>6. ASSUME NEW g \in Caller, Create(g) PROVE TInv'
  <2>1. vx' \in [idx : Nat, src : Addr \cup {NoAddr}] /\ links' \in Nat
    BY <1>6 DEF Create, State, Error, Failure
  <2>2. CASE ~Error(g)
    BY <1>6, <2>1, <2>2 DEF Create, Goto
  <2>. QED  BY <1>0, <1>6, <2>2 DEF Create
<1>7. ASSUME NEW g \in Caller, List(g) PROVE TInv'
  <2>1. CASE ~Error(g)
    BY <1>7, <2>1, RowsType DEF List, Goto
  <2>. QED  BY <1>0, <1>7, <2>1 DEF List
<1>8. ASSUME NEW g \in Caller, NEW r \in add[g], AppendRow(g, r) PROVE TInv'
  <2>1. CASE ~Error(g)
    BY <1>8, <2>1 DEF AppendRow
  <2>. QED  BY <1>0, <1>8, <2>1 DEF AppendRow
<1>9. ASSUME NEW g \in Caller, NEW r \in del[g], DeleteRow(g, r) PROVE TInv'
  <2>1. CASE ~Error(g)
    BY <1>9, <2>1 DEF DeleteRow
  <2>. QED  BY <1>0, <1>9, <2>1 DEF DeleteRow
<1>10. ASSUME NEW g \in Caller, Done(g) PROVE TInv'
  <2>1. applied' \in 0..MaxChange /\ alone' \in 0..MaxChange
    BY <1>10 DEF Done, Success, Larger, State
  <2>. QED  BY <1>10, <2>1, ReturnLocal DEF Done, Success, Local
<1>11. ASSUME NEW g \in Caller, Fail(g) PROVE TInv'
  BY <1>0, <1>11 DEF Fail, Busy
<1>12. ASSUME NEW g \in Caller, Alarm(g) PROVE TInv'
  BY <1>12 DEF Alarm, Begin
<1>13. ASSUME NEW g \in Caller, NEW c \in Confs, Reload(g, c) PROVE TInv'
  BY <1>13 DEF Reload, Change, Begin
<1>14. ASSUME NEW g \in Caller, NEW p \in Peer, NEW a \in AddrsOf[p] \cup {NoAddr},
             HearHello(g, p, a)
      PROVE  TInv'
  BY <1>14 DEF HearHello, Change, Begin
<1>15. ASSUME NEW g \in Caller, NEW p \in Peer, NEW x \in AddrsOf[p], HearSubnet(g, p, x)
      PROVE  TInv'
  BY <1>15 DEF HearSubnet, Change, Begin
<1>16. ASSUME NEW p \in Peer, NEW h \in Hosts[p], WriteHost(p, h) PROVE TInv'
  BY <1>16 DEF WriteHost, Change
<1>17. CASE UNCHANGED vars
  BY <1>17 DEF vars, inputs, kernel, locals, history
<1>. QED
  BY <1>1, <1>2, <1>3, <1>4, <1>5, <1>6, <1>7, <1>8, <1>9, <1>10, <1>11, <1>12, <1>13,
     <1>14, <1>15, <1>16, <1>17, ZenonT(20) DEF Next, Reconcile

-----------------------------------------------------------------------------
(* buildState depends on its inputs alone.                                 *)
LEMMA BuildSame == UNCHANGED inputs => BuildState' = BuildState
  BY DEF inputs, BuildState, Underlay, AllowedIPsFor

(* It carries the version, the mode and the source.                        *)
LEMMA BuildFields ==
  BuildState.ver = ver /\ BuildState.mode = conf.mode /\ BuildState.src = conf.src
  BY DEF BuildState

(* The rest of the callers does not notice a step of g.                    *)
Others(g) ==
  \A h \in Caller \ {g} :
    /\ pc'[h] = pc[h] /\ st'[h] = st[h] /\ dev'[h] = dev[h]
    /\ add'[h] = add[h] /\ del'[h] = del[h] /\ over'[h] = over[h]

(* A step of g within Reconcile: on to the next call, or back to its loop. *)
Onward(g) ==
  /\ Busy(g)' /\ st'[g] = st[g] /\ over'[g] = over[g] /\ alone' = alone
  /\ pc'[g] \notin {"device", "configure"} => OverlayOf(st[g])

Back(g) ==
  /\ ~Busy(g)'
  /\ alone' = alone \/ (~over[g] /\ alone' = Larger(st[g].ver, alone))

Move(g) == Busy(g) /\ Others(g) /\ UNCHANGED inputs /\ (Onward(g) \/ Back(g))

(* Such a step keeps what is known of all callers, and of each of them how *)
(* far it has come: whoever is at work beside g knows of the overlap.      *)
LEMMA MoveCallers ==
  ASSUME DInv, NEW g \in Caller, Move(g)
  PROVE  Callers' /\ \A h \in Caller \ {g} : Stage(h)'
<1>1. BuildState' = BuildState /\ ver' = ver
  BY BuildSame DEF Move, inputs
<1>2. \A h \in Caller \ {g} : (Busy(h)' <=> Busy(h)) /\ (Busy(h) => over[h] /\ over[g])
  BY DEF DInv, Callers, Move, Others, Busy
<1>3. alone \in Nat /\ ver \in Nat /\ \A h \in Caller : st[h].ver \in Nat
  BY DataplaneAssumption DEF DInv, TInv, TypeOK, State
<1>4. alone' <= ver /\ (alone' = ver => alone = ver \/ \A h \in Caller \ {g} : ~Busy(h))
  BY <1>2, <1>3, SMTT(30) DEF DInv, Callers, Move, Onward, Back, Larger
<1>5. \A h, k \in Caller : Busy(h)' /\ Busy(k)' /\ h # k => over'[h]
  BY <1>2 DEF DInv, Callers, Move, Onward, Back, Others
<1>6. ASSUME NEW h \in Caller, Busy(h)'
      PROVE  /\ st'[h].ver <= ver
             /\ st'[h].ver = ver => st'[h] = BuildState
             /\ alone' = ver => st'[h].ver = ver
             /\ pc'[h] \notin {"device", "configure"} => OverlayOf(st'[h])
  <2>1. Busy(h) /\ st'[h] = st[h]
    BY <1>2, <1>6 DEF Move, Onward, Back, Others
  <2>2. alone' = ver => alone = ver
    BY <1>2, <1>4, <1>6, <2>1 DEF Move, Onward, Back
  <2>3. pc'[h] \notin {"device", "configure"} => OverlayOf(st[h])
    BY <1>6, <2>1 DEF Move, Onward, Back, Others, DInv, Callers
  <2>. QED  BY <2>1, <2>2, <2>3 DEF DInv, Callers
<1>7. Callers'
  BY <1>1, <1>4, <1>5, <1>6 DEF Callers, OverlayOf
<1>8. \A h \in Caller \ {g} : Stage(h)'
  BY <1>2 DEF Stage, Move, Others
<1>. QED  BY <1>7, <1>8

(* If the kernel does not change it stays as wanted.                       *)
LEMMA KernelSame ==
  ASSUME NEW s, UNCHANGED <<wg, routes>> PROVE WGHas(s) => WGHas(s)'
  BY DEF WGHas

(* And so does the VXLAN device.                                           *)
LEMMA DeviceSame ==
  ASSUME NEW s, UNCHANGED <<vx, fdb>> PROVE VXHas(s) => VXHas(s)'
  BY DEF VXHas

(* A Reconcile that is not yet through leaves a kernel right that is.      *)
LEMMA RightKept ==
  ASSUME DInv, NEW g \in Caller, Move(g), alone' = alone, NEW b, b = BuildState,
         alone = ver => /\ WGHas(b)' /\ UNCHANGED <<vx, fdb>>
                        /\ pc'[g] \notin {"drop", "create"}
                        /\ pc'[g] = "rows" => add'[g] = {} /\ del'[g] = {}
  PROVE  Right'
<1>1. BuildState' = b /\ ver' = ver
  BY BuildSame, ZenonT(20) DEF Move, inputs
<1> SUFFICES ASSUME alone = ver
             PROVE  /\ WGHas(b)' /\ (OverlayOf(b) => VXHas(b)')
                    /\ \A h \in Caller : /\ pc'[h] \notin {"drop", "create"}
                                         /\ pc'[h] = "rows" => add'[h] = {} /\ del'[h] = {}
  BY <1>1, ZenonT(20) DEF Right, WGHas, VXHas, OverlayOf
<1>2. OverlayOf(b) => VXHas(b)'
  BY DeviceSame, SMTT(30) DEF DInv, Right
<1>3. \A h \in Caller : /\ pc'[h] \notin {"drop", "create"}
                        /\ pc'[h] = "rows" => add'[h] = {} /\ del'[h] = {}
  BY SMTT(30) DEF DInv, Right, Move, Others
<1>. QED  BY <1>2, <1>3, ZenonT(20)

(* And one that has been through, alone, makes it right.                   *)
LEMMA RightReached ==
  ASSUME DInv, NEW g \in Caller, Move(g), ~Busy(g)',
         alone' = IF over[g] THEN alone ELSE Larger(st[g].ver, alone),
         UNCHANGED <<vx, fdb>>,
         NEW b, b = BuildState, NEW s, s = st[g],
         alone = ver => WGHas(b)',
         ~over[g] => WGHas(s)' /\ (OverlayOf(s) => VXHas(s))
  PROVE  Right'
<1>1. CASE alone' = alone
  <2>1. pc'[g] \in {"idle", "build"}
    BY ZenonT(20) DEF Busy
  <2>. QED  BY <1>1, <2>1, RightKept, ZenonT(20)
<1>2. CASE alone' # alone
  <2>1. ~over[g] /\ alone' = s.ver /\ alone < s.ver
    <3>1. alone \in Nat /\ s.ver \in Nat
      BY DEF DInv, TInv, TypeOK, State
    <3>. QED  BY <1>2, <3>1, ZenonT(20) DEF Larger
  <2>2. ver' = ver /\ BuildState' = b
    BY BuildSame, ZenonT(20) DEF Move, inputs
  <2>3. alone' = ver => s = b
    BY <2>1, ZenonT(20) DEF DInv, Callers, Move
  <2>4. \A h \in Caller : h # g => ~Busy(h)
    BY <2>1, ZenonT(20) DEF DInv, Callers, Move
  <2>5. \A h \in Caller : pc'[h] \in {"idle", "build"}
    BY <2>4, ZenonT(20) DEF Busy, Move, Others
  <2>6. alone' = ver => WGHas(b)' /\ (OverlayOf(b) => VXHas(b)')
    BY <2>1, <2>3, DeviceSame, ZenonT(20)
  <2>. QED  BY <2>2, <2>5, <2>6, SMTT(30) DEF Right, WGHas, VXHas, OverlayOf
<1>. QED  BY <1>1, <1>2, ZenonT(20)

(* Returning is a move, after which g has come nowhere.                    *)
LEMMA ReturnMove ==
  ASSUME TInv, NEW g \in Caller, Busy(g), Return(g), UNCHANGED inputs,
         alone' = alone \/ (~over[g] /\ alone' = Larger(st[g].ver, alone))
  PROVE  Move(g) /\ ~Busy(g)' /\ Stage(g)'
<1>1. Others(g) /\ ~Busy(g)'
  BY ZenonT(20) DEF Return, Others, Busy, TInv, TypeOK
<1>. QED  BY <1>1, ZenonT(20) DEF Move, Back, Stage

(* A Reconcile may fail anywhere.                                          *)
LEMMA ErrorStep ==
  ASSUME DInv, NEW g \in Caller, Busy(g), Error(g), UNCHANGED inputs
  PROVE  Callers' /\ (\A h \in Caller : Stage(h)') /\ Right'
<1>1. Move(g) /\ ~Busy(g)' /\ Stage(g)' /\ alone' = alone
  BY ReturnMove, ZenonT(20) DEF Error, Failure, DInv
<1>2. alone = ver => WGHas(BuildState)
  BY ZenonT(20) DEF DInv, Right
<1>3. Right'
  BY <1>1, <1>2, RightKept, KernelSame, ZenonT(20) DEF Error, kernel, Busy
<1>. QED  BY <1>1, <1>3, MoveCallers, SMTT(30)

Goal == Callers' /\ (\A h \in Caller : Stage(h)') /\ Right'

(* What makes a caller reconcile, and what changes the inputs.             *)
LEMMA StartStep ==
  ASSUME DInv, UNCHANGED <<kernel, st, dev, add, del, history>>,
         UNCHANGED inputs \/ ver' = ver + 1,
         \A h \in Caller : pc'[h] = pc[h] \/ (~Busy(h) /\ ~Busy(h)')
  PROVE  Goal
<1>1. \A h \in Caller : Busy(h)' => Busy(h) /\ pc'[h] = pc[h]
  BY ZenonT(20) DEF Busy
<1>2. UNCHANGED <<wg, routes, vx, fdb, st, dev, add, del, over, alone>>
  BY ZenonT(20) DEF kernel, history
<1>3. alone \in Nat /\ ver \in Nat /\ \A h \in Caller : st[h].ver \in Nat
  BY DataplaneAssumption DEF DInv, TInv, TypeOK, State
<1>4. \A h \in Caller : Stage(h)'
  BY <1>1, <1>2, ZenonT(20) DEF DInv, Stage, WGHas, Pending
<1>5. CASE ver' = ver + 1
  <2>1. \A h \in Caller : Busy(h)' =>
          /\ st'[h].ver <= ver' /\ st'[h].ver # ver'
          /\ pc'[h] \notin {"device", "configure"} => OverlayOf(st'[h])
    BY <1>1, <1>2, <1>3, <1>5, SMTT(30) DEF DInv, Callers
  <2>2. alone' <= ver' /\ alone' # ver'
    BY <1>2, <1>3, <1>5, SMTT(30) DEF DInv, Callers
  <2>3. \A g, h \in Caller : Busy(g)' /\ Busy(h)' /\ g # h => over'[g]
    BY <1>1, <1>2, ZenonT(20) DEF DInv, Callers
  <2>4. Callers'
    BY <2>1, <2>2, <2>3, ZenonT(20) DEF Callers, OverlayOf
  <2>5. Right'
    BY <2>2, ZenonT(20) DEF Right
  <2>. QED  BY <1>4, <2>4, <2>5, ZenonT(20) DEF Goal
<1>6. CASE UNCHANGED inputs
  <2>1. BuildState' = BuildState /\ ver' = ver
    BY <1>6, BuildSame, ZenonT(20) DEF inputs
  <2>2. Callers'
    BY <1>1, <1>2, <2>1, ZenonT(20) DEF DInv, Callers, OverlayOf
  <2>3. \A h \in Caller : /\ pc[h] \notin {"drop", "create"} => pc'[h] \notin {"drop", "create"}
                          /\ pc'[h] = "rows" => pc[h] = "rows"
    BY <1>1, ZenonT(20) DEF Busy
  <2>4. Right'
    BY <1>2, <2>1, <2>3, ZenonT(20) DEF DInv, Right, WGHas, VXHas, OverlayOf
  <2>. QED  BY <1>4, <2>2, <2>4, ZenonT(20) DEF Goal
<1>. QED  BY <1>5, <1>6, ZenonT(20)

(* A Reconcile that starts while others are at work makes all know of it.  *)
LEMMA BuildStep == ASSUME DInv, NEW g \in Caller, Build(g) PROVE Goal
<1>1. BuildState' = BuildState /\ ver' = ver /\ alone' = alone
  BY BuildSame, ZenonT(20) DEF Build, inputs
<1>2. \A h \in Caller \ {g} : /\ pc'[h] = pc[h] /\ st'[h] = st[h] /\ (Busy(h)' <=> Busy(h))
                              /\ Busy(h) => over'[h]
  BY ZenonT(20) DEF Build, Goto, Busy, DInv, TInv, TypeOK
<1>3. /\ pc'[g] = "device" /\ st'[g] = BuildState /\ ~Busy(g)
      /\ \A h \in Caller \ {g} : Busy(h) => over'[g]
  BY ZenonT(20) DEF Build, Goto, Busy, DInv, TInv, TypeOK
<1>4. \A h \in Caller : Stage(h)'
  BY <1>2, <1>3, ZenonT(20) DEF Stage
<1>5. alone' <= ver' /\ \A h, k \in Caller : Busy(h)' /\ Busy(k)' /\ h # k => over'[h]
  BY <1>1, <1>2, <1>3, ZenonT(20) DEF DInv, Callers
<1>6. ASSUME NEW h \in Caller, Busy(h)'
      PROVE  /\ st'[h].ver <= ver
             /\ st'[h].ver = ver => st'[h] = BuildState
             /\ alone = ver => st'[h].ver = ver
             /\ pc'[h] \notin {"device", "configure"} => OverlayOf(st'[h])
  <2>1. CASE h = g
    BY <1>3, <2>1, BuildFields, DataplaneAssumption DEF DInv, TInv, TypeOK
  <2>2. CASE h # g
    BY <1>2, <1>6, <2>2, SMTT(30) DEF DInv, Callers
  <2>. QED  BY <2>1, <2>2, ZenonT(20)
<1>7. Callers'
  BY <1>1, <1>5, <1>6, ZenonT(20) DEF Callers, OverlayOf
<1>8. UNCHANGED <<wg, routes, vx, fdb, add, del>>
  BY ZenonT(20) DEF Build, kernel
<1>9. Right'
  BY <1>1, <1>2, <1>3, <1>8, ZenonT(20) DEF DInv, Right, WGHas, VXHas, OverlayOf
<1>. QED  BY <1>4, <1>7, <1>9, ZenonT(20) DEF Goal

(* Reading the device.                                                     *)
LEMMA ReadStep == ASSUME DInv, NEW g \in Caller, ReadDevice(g) PROVE Goal
<1>1. Busy(g) /\ Others(g) /\ Onward(g) /\ pc'[g] = "configure" /\ dev'[g] = wg'
  BY ZenonT(20) DEF ReadDevice, Goto, Busy, Others, Onward, DInv, TInv, TypeOK, kernel, history
<1>2. Move(g) /\ alone' = alone /\ UNCHANGED <<wg, routes, vx, fdb>>
  BY <1>1, ZenonT(20) DEF Move, ReadDevice, kernel, history
<1>3. Stage(g)'
  BY <1>1, SMTT(30) DEF Stage
<1>4. Right'
  BY <1>1, <1>2, RightKept, KernelSame, ZenonT(20) DEF DInv, Right
<1>. QED  BY <1>2, <1>3, <1>4, MoveCallers, ZenonT(20) DEF Goal

(* Configuring it: alone, g has read what it replaces.                     *)
LEMMA ConfigureWG ==
  ASSUME NEW g \in Caller, Configure(g), NEW s, s = st[g], dev[g] = wg \/ WGHas(s)
  PROVE  WGHas(s)'
<1>1. wg' = Keys(s)
  BY ZenonT(20) DEF Configure, PeersConfigured, WGHas
<1>. QED  BY <1>1, ConfigureRoutes, ZenonT(20) DEF WGHas

(* After it the overlay is next, or the call returns.                      *)
LEMMA ConfigureStep == ASSUME DInv, NEW g \in Caller, Configure(g) PROVE Goal
<1>1. Busy(g) /\ UNCHANGED inputs /\ UNCHANGED <<vx, fdb>>
  BY ZenonT(20) DEF Configure, Busy, inputs
<1>2. alone = ver => st[g] = BuildState /\ WGHas(st[g])
  BY <1>1, ZenonT(20) DEF DInv, Callers, Right
<1>3. ~over[g] => dev[g] = wg
  BY <1>1, ZenonT(20) DEF DInv, Stage, Configure
<1>4. PICK s : s = st[g]
  BY ZenonT(20)
<1>5. alone = ver \/ ~over[g] => WGHas(s)'
  BY <1>2, <1>3, <1>4, ConfigureWG, ZenonT(20)
<1>6. PICK b : b = BuildState
  BY ZenonT(20)
<1>7. alone = ver => WGHas(b)'
  BY <1>2, <1>4, <1>5, <1>6, ZenonT(20)
<1>8. CASE s.mode = "router" /\ Success(g)
  <2>1. Move(g) /\ ~Busy(g)' /\ Stage(g)'
    BY <1>1, <1>8, ReturnMove, ZenonT(20) DEF Success, DInv
  <2>2. Right'
    BY <1>1, <1>4, <1>5, <1>6, <1>7, <1>8, <2>1, RightReached, ZenonT(20) DEF Success, OverlayOf
  <2>. QED  BY <2>1, <2>2, MoveCallers, ZenonT(20) DEF Goal
<1>9. CASE Failure(g)
  <2>1. Move(g) /\ ~Busy(g)' /\ Stage(g)' /\ alone' = alone
    BY <1>1, <1>9, ReturnMove, ZenonT(20) DEF Failure, DInv
  <2>2. Right'
    BY <1>1, <1>6, <1>7, <2>1, RightKept, ZenonT(20) DEF Busy
  <2>. QED  BY <2>1, <2>2, MoveCallers, ZenonT(20) DEF Goal
<1>10. CASE s.mode # "router" /\ s.src # NoAddr /\ Goto(g, "look")
             /\ UNCHANGED <<st, dev, idx, add, del, history>>
  <2>1. Others(g) /\ Onward(g) /\ pc'[g] = "look"
    BY <1>4, <1>10, SMTT(30) DEF Goto, Busy, Others, Onward, OverlayOf, DInv, TInv, TypeOK, history
  <2>2. Move(g) /\ alone' = alone
    BY <1>1, <2>1, ZenonT(20) DEF Move, Onward
  <2>3. st'[g] = s
    BY <1>4, <1>10, SMTT(30)
  <2>4. Stage(g)'
    BY <1>5, <2>1, <2>3, ZenonT(20) DEF Stage, Onward, WGHas
  <2>5. Right'
    BY <1>1, <1>6, <1>7, <2>1, <2>2, RightKept, ZenonT(20)
  <2>. QED  BY <2>2, <2>4, <2>5, MoveCallers, ZenonT(20) DEF Goal
<1>. QED  BY <1>4, <1>8, <1>9, <1>10, ZenonT(20) DEF Configure

(* Looking at the VXLAN device.                                            *)
LEMMA LookStep == ASSUME DInv, NEW g \in Caller, Look(g) PROVE Goal
<1>1. /\ Busy(g) /\ OverlayOf(st[g]) /\ UNCHANGED inputs
      /\ pc'[g] = CASE vx = NoDev -> "create" [] vx.src = st[g].src -> "list" [] OTHER -> "drop"
  BY ZenonT(20) DEF Look, Goto, Busy, DInv, TInv, TypeOK, Callers
<1>2. Others(g) /\ Onward(g)
  BY <1>1, ZenonT(20) DEF Look, Goto, Busy, Others, Onward, DInv, TInv, TypeOK, history
<1>3. Move(g) /\ alone' = alone /\ UNCHANGED <<wg, routes, vx, fdb>> /\ st'[g] = st[g]
  BY <1>1, <1>2, ZenonT(20) DEF Move, Look, kernel, Onward
<1>4. ~over[g] => WGHas(st[g])
  BY <1>1, ZenonT(20) DEF DInv, Stage, Look
<1>5. Stage(g)'
  <2>1. /\ pc'[g] \in {"create", "list", "drop"}
        /\ pc'[g] = "list" => vx # NoDev /\ vx.src = st[g].src
    <3>1. CASE vx = NoDev
      BY <1>1, <3>1, ZenonT(20) DEF NoDev, OverlayOf
    <3>2. CASE vx # NoDev /\ vx.src = st[g].src
      BY <1>1, <3>2, ZenonT(20)
    <3>3. CASE vx # NoDev /\ vx.src # st[g].src
      BY <1>1, <3>3, ZenonT(20)
    <3>. QED  BY <3>1, <3>2, <3>3, ZenonT(20)
  <2>2. ~over'[g] => WGHas(st[g])'
    BY <1>2, <1>3, <1>4, ZenonT(20) DEF Onward, WGHas
  <2>. QED  BY <1>3, <2>1, <2>2, ZenonT(20) DEF Stage
<1>6. alone = ver => WGHas(BuildState) /\ vx # NoDev /\ vx.src = st[g].src
  BY <1>1, ZenonT(20) DEF DInv, Callers, Right, VXHas
<1>7. alone = ver => pc'[g] = "list"
  BY <1>1, <1>6, ZenonT(20)
<1>8. Right'
  BY <1>3, <1>6, <1>7, RightKept, KernelSame, ZenonT(20)
<1>. QED  BY <1>3, <1>5, <1>8, MoveCallers, ZenonT(20) DEF Goal

(* Calls on the VXLAN device that leave WireGuard alone, and that no one   *)
(* makes once the kernel is right.                                         *)
LEMMA OnwardStep ==
  ASSUME DInv, NEW g \in Caller, Busy(g), OverlayOf(st[g]), UNCHANGED inputs, alone # ver,
         pc[g] \notin {"device", "configure"}, pc'[g] \in {"create", "list", "rows"},
         UNCHANGED <<wg, routes, st, dev, history>>,
         \A h \in Caller \ {g} : pc'[h] = pc[h] /\ add'[h] = add[h] /\ del'[h] = del[h],
         ~over[g] => /\ pc'[g] \in {"list", "rows"} => vx' # NoDev /\ vx'.src = st[g].src
                     /\ pc'[g] = "rows" => Pending(g)'
  PROVE  Goal
<1>1. Move(g) /\ alone' = alone /\ over' = over
  BY ZenonT(20) DEF Move, Others, Onward, Busy, history
<1>2. ~over[g] => WGHas(st[g])'
  BY ZenonT(20) DEF DInv, Stage, WGHas
<1>3. Stage(g)'
  BY <1>1, <1>2, ZenonT(20) DEF Stage
<1>4. Right'
  BY <1>1, RightKept, ZenonT(20)
<1>. QED  BY <1>1, <1>3, <1>4, MoveCallers, ZenonT(20) DEF Goal

(* Dropping the device.                                                    *)
LEMMA DropStep == ASSUME DInv, NEW g \in Caller, Drop(g) PROVE Goal
<1>1. Busy(g) /\ OverlayOf(st[g]) /\ UNCHANGED inputs /\ alone # ver
  BY ZenonT(20) DEF Drop, Busy, DInv, Callers, Right
<1>2. CASE Goto(g, "create") /\ UNCHANGED <<wg, routes, links, st, dev, idx, add, del, history>>
  BY <1>1, <1>2, OnwardStep, ZenonT(20) DEF Drop, Goto, DInv, TInv, TypeOK
<1>. QED  BY <1>1, <1>2, ErrorStep, ZenonT(20) DEF Drop, Goal

(* Creating it, with the source that g wants.                              *)
LEMMA CreateStep == ASSUME DInv, NEW g \in Caller, Create(g) PROVE Goal
<1>1. Busy(g) /\ OverlayOf(st[g]) /\ UNCHANGED inputs /\ alone # ver
  BY ZenonT(20) DEF Create, Busy, DInv, Callers, Right
<1>2. CASE /\ Goto(g, "list") /\ vx' = [idx |-> links + 1, src |-> st[g].src]
           /\ UNCHANGED <<wg, routes, fdb, st, dev, idx, add, del, history>>
  <2>1. vx' # NoDev /\ vx'.src = st[g].src
    BY <1>1, <1>2, ZenonT(20) DEF NoDev, OverlayOf
  <2>. QED  BY <1>1, <1>2, <2>1, OnwardStep, ZenonT(20) DEF Create, Goto, DInv, TInv, TypeOK
<1>. QED  BY <1>1, <1>2, ErrorStep, ZenonT(20) DEF Create, Goal

(* Listing its rows.                                                       *)
LEMMA ListStep == ASSUME DInv, NEW g \in Caller, List(g) PROVE Goal
<1> DEFINE want == Rows(st[g])
           have == {r \in fdb : r[1] \in ManagedMACs(st[g])}
<1>1. Busy(g) /\ OverlayOf(st[g]) /\ UNCHANGED inputs
  BY ZenonT(20) DEF List, Busy, DInv, Callers
<1>2. CASE Error(g)
  BY <1>1, <1>2, ErrorStep, ZenonT(20) DEF Goal
<1>3. CASE /\ Goto(g, "rows") /\ UNCHANGED <<kernel, st, dev, history>>
           /\ add' = [add EXCEPT ![g] = want \ have] /\ del' = [del EXCEPT ![g] = have \ want]
  <2> HIDE DEF want, have
  <2>1. Others(g) /\ Onward(g) /\ pc'[g] = "rows"
    BY <1>1, <1>3, ZenonT(20) DEF Goto, Busy, Others, Onward, DInv, TInv, TypeOK, history
  <2>2. Move(g) /\ alone' = alone /\ UNCHANGED <<wg, routes, vx, fdb>>
    BY <1>1, <1>3, <2>1, ZenonT(20) DEF Move, Onward, kernel
  <2>3. add'[g] = want \ have /\ del'[g] = have \ want /\ st'[g] = st[g]
    BY <1>3, ZenonT(20) DEF DInv, TInv, TypeOK
  <2>4. Pending(g)'
    BY <2>2, <2>3, ZenonT(20) DEF Pending, want, have
  <2>5. ~over[g] => WGHas(st[g]) /\ vx # NoDev /\ vx.src = st[g].src
    BY <1>1, ZenonT(20) DEF DInv, Stage, List
  <2>6. Stage(g)'
    BY <1>3, <2>1, <2>2, <2>3, <2>4, <2>5, ZenonT(20) DEF Stage, WGHas, Onward
  <2>7. alone = ver => WGHas(BuildState) /\ VXHas(st[g])
    BY <1>1, ZenonT(20) DEF DInv, Callers, Right
  <2>8. want \subseteq {r \in want : r[1] \in ManagedMACs(st[g])}
    BY RowsManaged, ZenonT(20) DEF want
  <2>9. alone = ver => add'[g] = {} /\ del'[g] = {}
    BY <2>3, <2>7, <2>8, ZenonT(20) DEF VXHas, want, have
  <2>10. Right'
    BY <2>1, <2>2, <2>7, <2>9, RightKept, KernelSame, ZenonT(20)
  <2>. QED  BY <2>2, <2>6, <2>10, MoveCallers, ZenonT(20) DEF Goal
<1>. QED  BY <1>2, <1>3, ZenonT(20) DEF List

(* Adding a row that is wanted.                                            *)
LEMMA AppendStep ==
  ASSUME DInv, NEW g \in Caller, NEW r \in add[g], AppendRow(g, r) PROVE Goal
<1>1. Busy(g) /\ OverlayOf(st[g]) /\ UNCHANGED inputs /\ alone # ver /\ pc[g] = "rows"
  BY SMTT(30) DEF AppendRow, Busy, DInv, Callers, Right
<1>2. CASE /\ fdb' = fdb \cup {r} /\ add' = [add EXCEPT ![g] = @ \ {r}]
           /\ UNCHANGED <<wg, routes, vx, links, pc, left, st, dev, idx, del, history>>
  <2>1. /\ \A h \in Caller \ {g} : pc'[h] = pc[h] /\ add'[h] = add[h] /\ del'[h] = del[h]
        /\ Pending(g) => Pending(g)'
    BY <1>2, RowAdded, ZenonT(20) DEF DInv
  <2>2. ~over[g] => vx # NoDev /\ vx.src = st[g].src /\ Pending(g)
    BY <1>1, ZenonT(20) DEF DInv, Stage
  <2>. QED  BY <1>1, <1>2, <2>1, <2>2, OnwardStep, ZenonT(20)
<1>. QED  BY <1>1, <1>2, ErrorStep, ZenonT(20) DEF AppendRow, Goal

(* Removing one that is not.                                               *)
LEMMA DeleteStep ==
  ASSUME DInv, NEW g \in Caller, NEW r \in del[g], DeleteRow(g, r) PROVE Goal
<1>1. Busy(g) /\ OverlayOf(st[g]) /\ UNCHANGED inputs /\ alone # ver /\ pc[g] = "rows"
  BY SMTT(30) DEF DeleteRow, Busy, DInv, Callers, Right
<1>2. CASE /\ fdb' = fdb \ {r} /\ del' = [del EXCEPT ![g] = @ \ {r}]
           /\ UNCHANGED <<wg, routes, vx, links, pc, left, st, dev, idx, add, history>>
  <2>1. /\ \A h \in Caller \ {g} : pc'[h] = pc[h] /\ add'[h] = add[h] /\ del'[h] = del[h]
        /\ Pending(g) => Pending(g)'
    BY <1>2, RowRemoved, ZenonT(20) DEF DInv
  <2>2. ~over[g] => vx # NoDev /\ vx.src = st[g].src /\ Pending(g)
    BY <1>1, ZenonT(20) DEF DInv, Stage
  <2>. QED  BY <1>1, <1>2, <2>1, <2>2, OnwardStep, ZenonT(20)
<1>. QED  BY <1>1, <1>2, ErrorStep, ZenonT(20) DEF DeleteRow, Goal

(* Nothing is left to add or remove.                                       *)
LEMMA DoneStep == ASSUME DInv, NEW g \in Caller, Done(g) PROVE Goal
<1>1. Busy(g) /\ UNCHANGED inputs /\ UNCHANGED <<wg, routes, vx, fdb>> /\ Success(g)
  BY ZenonT(20) DEF Done, Busy, kernel
<1>2. Move(g) /\ ~Busy(g)' /\ Stage(g)'
  BY <1>1, ReturnMove, ZenonT(20) DEF Success, DInv
<1>3. PICK s : s = st[g]
  BY ZenonT(20)
<1>4. ~over[g] => WGHas(s) /\ VXHas(s)
  BY <1>1, <1>3, ZenonT(20) DEF DInv, Stage, Done, Pending, VXHas
<1>5. ~over[g] => WGHas(s)' /\ VXHas(s)
  BY <1>1, <1>4, KernelSame, SMTT(30)
<1>6. PICK b : b = BuildState
  BY ZenonT(20)
<1>7. alone = ver => WGHas(b)'
  BY <1>1, <1>6, KernelSame, ZenonT(20) DEF DInv, Right
<1>8. Right'
  BY <1>1, <1>2, <1>3, <1>5, <1>6, <1>7, RightReached, ZenonT(20) DEF Success
<1>. QED  BY <1>2, <1>8, MoveCallers, ZenonT(20) DEF Goal

-----------------------------------------------------------------------------
(* The invariant is inductive.                                             *)
LEMMA Inductive == DInv /\ [Next]_vars => DInv'
<1> SUFFICES ASSUME DInv, [Next]_vars PROVE Goal
  BY TypeInv, ZenonT(20) DEF DInv, Goal
<1>1. ASSUME NEW g \in Caller, Reconcile(g) PROVE Goal
  BY <1>1, BuildStep, ReadStep, ConfigureStep, LookStep, DropStep, CreateStep, ListStep,
     AppendStep, DeleteStep, DoneStep, ZenonT(20) DEF Reconcile
<1>2. ASSUME NEW g \in Caller, Fail(g) PROVE Goal
  BY <1>2, ErrorStep, ZenonT(20) DEF Fail, Goal
<1>3. ASSUME NEW g \in Caller, NEW n, Begin(g, n), UNCHANGED inputs \/ Change PROVE Goal
  <2>1. \A h \in Caller : pc'[h] = pc[h] \/ (~Busy(h) /\ ~Busy(h)')
    BY <1>3, ZenonT(20) DEF Begin, Busy, DInv, TInv, TypeOK
  <2>. QED  BY <1>3, <2>1, StartStep, ZenonT(20) DEF Begin, Change
<1>4. ASSUME NEW p \in Peer, NEW h \in Hosts[p], WriteHost(p, h) PROVE Goal
  <2>1. UNCHANGED <<kernel, st, dev, add, del, history, pc>> /\ ver' = ver + 1
    BY <1>4, ZenonT(20) DEF WriteHost, Change, locals
  <2>. QED  BY <2>1, StartStep, ZenonT(20)
<1>5. ASSUME NEW g \in Caller, Alarm(g) PROVE Goal
  BY <1>3, <1>5, ZenonT(20) DEF Alarm
<1>6. ASSUME NEW g \in Caller, NEW c \in Confs, Reload(g, c) PROVE Goal
  BY <1>3, <1>6, ZenonT(20) DEF Reload
<1>7. ASSUME NEW g \in Caller, NEW p \in Peer, NEW a, HearHello(g, p, a) PROVE Goal
  BY <1>3, <1>7, ZenonT(20) DEF HearHello
<1>8. ASSUME NEW g \in Caller, NEW p \in Peer, NEW x, HearSubnet(g, p, x) PROVE Goal
  BY <1>3, <1>8, ZenonT(20) DEF HearSubnet
<1>9. CASE UNCHANGED vars
  <2>1. UNCHANGED <<kernel, st, dev, add, del, history, pc, inputs>>
    BY <1>9, ZenonT(20) DEF vars, locals
  <2>. QED  BY <2>1, StartStep, ZenonT(20)
<1>. QED
  BY <1>1, <1>2, <1>4, <1>5, <1>6, <1>7, <1>8, <1>9, ZenonT(20) DEF Next

(* It holds when the callers start.                                        *)
LEMMA InitInv == ASSUME Init PROVE DInv
<1>1. NoState \in State
  BY DataplaneAssumption DEF NoState, State
<1>2. TInv
  BY <1>1, DataplaneAssumption DEF Init, TInv, TypeOK, Conf, NoDev
<1>3. \A g \in Caller : ~Busy(g)
  BY ZenonT(20) DEF Init, Busy
<1>4. Callers
  BY <1>3 DEF Init, Callers
<1>8. \A g \in Caller : Stage(g)
  BY <1>3, ZenonT(20) DEF Stage
<1>5. BuildState.peers = {} /\ BuildState.mode = InitConf.mode /\ BuildState.src = InitConf.src
  BY ZenonT(20) DEF Init, BuildState
<1>6. WGHas(BuildState)
  BY <1>5, ZenonT(20) DEF Init, WGHas, Keys, Claimants
<1>7. OverlayOf(BuildState) => VXHas(BuildState)
  <2>1. Rows(BuildState) = {}
    BY <1>5, ZenonT(20) DEF Rows, Addressed
  <2>2. fdb = {} /\ (OverlayOf(BuildState) => vx = [idx |-> 1, src |-> InitConf.src])
    BY <1>5, ZenonT(20) DEF Init, OverlayOf
  <2>3. OverlayOf(BuildState) => vx # NoDev /\ vx.src = BuildState.src
    BY <1>5, <2>2 DEF NoDev
  <2>. QED  BY <2>1, <2>2, <2>3, ZenonT(20) DEF VXHas
<1>. QED  BY <1>2, <1>4, <1>6, <1>7, <1>8, ZenonT(20) DEF DInv, Right, Init

(* Every variable of the daemon and of the kernel keeps its type.          *)
THEOREM DataplaneTypes == Spec => []TypeOK
<1>1. DInv => TypeOK
  BY ZenonT(20) DEF DInv, TInv
<1>. QED  BY <1>1, InitInv, Inductive, PTL DEF Spec

(* The invariant holds throughout.                                         *)
LEMMA DInvHolds == Spec => []DInv
  BY InitInv, Inductive, PTL DEF Spec

(* One Reconcile that ran alone has repaired WireGuard (configureWGPeers), *)
(* whatever overlapping and failing ones came before.                      *)
THEOREM PeersFollowHolds == Spec => []PeersFollow
<1>1. DInv => PeersFollow
  BY ZenonT(20) DEF DInv, Right, PeersFollow, Calm, WGMatches, WGHas
<1>. QED  BY <1>1, DInvHolds, PTL

(* And the VXLAN device with its rows (ensureVXLAN, reconcileFDB).         *)
THEOREM OverlayFollowsHolds == Spec => []OverlayFollows
<1>1. DInv => OverlayFollows
  <2> SUFFICES ASSUME DInv, Calm, Overlay PROVE VXLANMatches
    BY ZenonT(20) DEF OverlayFollows
  <2>1. VXHas(BuildState)
    BY BuildFields, ZenonT(20) DEF DInv, Right, Calm, Overlay, OverlayOf
  <2>. QED  BY <2>1, BuildFields, ZenonT(20) DEF VXHas, VXLANMatches, ManagedMACs
<1>. QED  BY <1>1, DInvHolds, PTL

-----------------------------------------------------------------------------
(* Peers keep to the prefixes that are theirs.                             *)
LEMMA UnsharedInv ==
  ASSUME OwnPrefixes, TypeOK, Unshared, [Next]_vars PROVE Unshared'
<1> USE DataplaneAssumption DEF OwnPrefixes, TypeOK, Unshared
<1>1. CASE UNCHANGED inputs
  BY <1>1, ZenonT(20) DEF inputs
<1>2. ASSUME NEW g \in Caller, NEW p \in Peer, NEW a \in AddrsOf[p] \cup {NoAddr},
             HearHello(g, p, a)
      PROVE  Unshared'
  BY <1>2, SMTT(30) DEF HearHello
<1>3. ASSUME NEW g \in Caller, NEW p \in Peer, NEW x \in AddrsOf[p], HearSubnet(g, p, x)
      PROVE  Unshared'
  BY <1>3, SMTT(30) DEF HearSubnet
<1>4. ASSUME NEW p \in Peer, NEW h \in Hosts[p], WriteHost(p, h) PROVE Unshared'
  BY <1>4 DEF WriteHost
<1>5. ASSUME NEW g \in Caller, NEW c \in Confs, Reload(g, c) PROVE Unshared'
  BY <1>5, ZenonT(20) DEF Reload
<1>6. ASSUME NEW g \in Caller, Reconcile(g) \/ Fail(g) \/ Alarm(g) PROVE UNCHANGED inputs
  BY <1>6, ZenonT(20) DEF Reconcile, Fail, Alarm, Build, ReadDevice, Configure, Look, Drop, Create,
     List, AppendRow, DeleteRow, Done
<1>7. UNCHANGED vars => UNCHANGED inputs
  BY ZenonT(20) DEF vars
<1>. QED
  BY <1>1, <1>2, <1>3, <1>4, <1>5, <1>6, <1>7, ZenonT(20) DEF Next

(* Then two peers of a state do not claim the same prefix.                 *)
LEMMA OneClaimant ==
  ASSUME OwnPrefixes, TypeOK, Unshared, NEW x \in Addr,
         NEW k \in Claimants(BuildState, x), NEW l \in Claimants(BuildState, x)
  PROVE  k = l
<1>1. PICK p \in nodes : hosts[p].key = k /\ x \in AllowedIPsFor(p)
  BY SMTT(30) DEF Claimants, BuildState
<1>2. PICK q \in nodes : hosts[q].key = l /\ x \in AllowedIPsFor(q)
  BY SMTT(30) DEF Claimants, BuildState
<1>3. \A n \in nodes : AllowedIPsFor(n) \subseteq AddrsOf[n]
  BY DataplaneAssumption, ZenonT(20) DEF TypeOK, Unshared, AllowedIPsFor, Underlay
<1>4. p = q
  BY <1>1, <1>2, <1>3, ZenonT(20) DEF OwnPrefixes, TypeOK
<1>. QED  BY <1>1, <1>2, <1>4, SMTT(30)

(* So that no call of a Reconcile changes a kernel that is right.          *)
LEMMA KernelKept ==
  ASSUME OwnPrefixes, DInv, Unshared, [Next]_vars, alone = ver, ver' = ver
  PROVE  UNCHANGED kernel
<1>1. ASSUME NEW g \in Caller, Configure(g) PROVE UNCHANGED kernel
  <2>1. Busy(g) /\ st[g] = BuildState /\ WGHas(BuildState)
    BY <1>1, ZenonT(20) DEF Configure, Busy, DInv, Callers, Right
  <2>2. wg' = wg
    BY <1>1, <2>1, SMTT(30) DEF Configure, PeersConfigured, WGHas
  <2>3. \A x \in Addr : routes'[x] = routes[x]
    <3>1. \A x \in Addr : \A k, l \in Claimants(BuildState, x) : k = l
      BY OneClaimant, ZenonT(20) DEF DInv, TInv
    <3>2. \A x \in Addr : IF Claimants(BuildState, x) = {} THEN routes[x] = NoKey
                          ELSE routes[x] \in Claimants(BuildState, x)
      BY <2>1, ZenonT(20) DEF WGHas
    <3>3. \A x \in Addr :
            IF Claimants(BuildState, x) # {} THEN routes'[x] \in Claimants(BuildState, x)
            ELSE routes'[x] = routes[x] \/ routes'[x] = NoKey
      BY <1>1, <2>1, ConfigureRoutes, ZenonT(20)
    <3>. QED  BY <3>1, <3>2, <3>3, ZenonT(20)
  <2>4. routes' = [x \in Addr |-> routes'[x]] /\ routes = [x \in Addr |-> routes[x]]
    BY <1>1, ConfigureRoutes, ZenonT(20) DEF DInv, TInv, TypeOK
  <2>5. UNCHANGED <<vx, fdb, links>>
    BY <1>1, ZenonT(20) DEF Configure
  <2>. QED  BY <2>2, <2>3, <2>4, <2>5, ZenonT(20) DEF kernel
<1>2. ASSUME NEW g \in Caller, Drop(g) \/ Create(g) PROVE UNCHANGED kernel
  BY <1>2, ZenonT(20) DEF Drop, Create, DInv, Right
<1>3. ASSUME NEW g \in Caller, NEW r,
             (r \in add[g] /\ AppendRow(g, r)) \/ (r \in del[g] /\ DeleteRow(g, r))
      PROVE  UNCHANGED kernel
  BY <1>3, ZenonT(20) DEF AppendRow, DeleteRow, DInv, Right
<1>4. ASSUME NEW g \in Caller,
             Build(g) \/ ReadDevice(g) \/ Look(g) \/ List(g) \/ Done(g) \/ Fail(g)
      PROVE  UNCHANGED kernel
  BY <1>4, ZenonT(20) DEF Build, ReadDevice, Look, List, Done, Fail, Error
<1>5. ASSUME NEW g \in Caller, NEW n, Begin(g, n) PROVE UNCHANGED kernel
  BY <1>5, ZenonT(20) DEF Begin
<1>6. ASSUME NEW p, NEW h, WriteHost(p, h) PROVE UNCHANGED kernel
  BY <1>6, ZenonT(20) DEF WriteHost
<1>7. UNCHANGED vars => UNCHANGED kernel
  BY ZenonT(20) DEF vars
<1>. QED
  BY <1>1, <1>2, <1>3, <1>4, <1>5, <1>6, <1>7, ZenonT(20)
  DEF Next, Reconcile, Alarm, Reload, HearHello, HearSubnet

(* "Reconcile is idempotent" (linux.Reconcile): once one that ran alone    *)
(* has applied the current inputs, no netlink call of another changes      *)
(* anything, if no prefix is claimed twice.                                *)
THEOREM IdempotentHolds == ASSUME OwnPrefixes PROVE Spec => Idempotent
<1>1. Init => Unshared
  BY DataplaneAssumption DEF Init, Unshared, OwnPrefixes
<1>2. TypeOK /\ Unshared /\ [Next]_vars => Unshared'
  BY UnsharedInv, ZenonT(20)
<1>3. DInv /\ Unshared /\ [Next]_vars => [alone = ver /\ ver' = ver => UNCHANGED kernel]_vars
  BY KernelKept, ZenonT(20)
<1>. QED  BY <1>1, <1>2, <1>3, DInvHolds, DataplaneTypes, PTL DEF Spec, Idempotent
=============================================================================
