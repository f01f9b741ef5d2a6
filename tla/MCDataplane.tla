---------------------------- MODULE MCDataplane ----------------------------
(* Instances of Dataplane for TLC.                                         *)
EXTENDS Dataplane

CONSTANTS p, q, kp, kr, kq, x1, x2, y1, u1, u2

(* p may move between two addresses; q has one.                            *)
OwnAddrs == [n \in Peer |-> IF n = p THEN {x1, x2} ELSE {y1}]

Switch1 == [mode |-> "switch", src |-> u1]
Switch2 == [mode |-> "switch", src |-> u2]
Router1 == [mode |-> "router", src |-> u1]
Unaddressed == [mode |-> "switch", src |-> NoAddr]

AllConfs == {Switch1, Switch2, Router1, Unaddressed}
NoConfs == {}

KeyOnly(k) == [key |-> k, addr |-> NoAddr]
FirstHosts == [n \in Peer |-> KeyOnly(IF n = p THEN kp ELSE kq)]

(* The file of p is rekeyed, given a fallback address or removed.          *)
EditedHosts ==
  [n \in Peer |-> IF n = p THEN {KeyOnly(kr), [key |-> kp, addr |-> x2], NoHost} ELSE {}]
SameHosts == [n \in Peer |-> {}]

(* What DataplaneProofs asks of an instance for Idempotent.                *)
ASSUME NothingShared == OwnPrefixes
=============================================================================
