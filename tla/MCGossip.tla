------------------------------ MODULE MCGossip ------------------------------
(* Instances of Gossip for TLC.                                            *)
EXTENDS Gossip

CONSTANTS a, b, c, ab, ba, cb, a1, a2, s1

(* a is dialled by b.                                                      *)
PairDialer == [x \in Conn |-> IF x = ab THEN a ELSE b]
PairAcceptor == [x \in Conn |-> IF x = ab THEN b ELSE a]
PairConf == [n \in Node |-> IF n = a THEN [addr |-> a1, subnets |-> <<s1>>]
                                     ELSE [addr |-> NoAddr, subnets |-> <<>>]]

(* b dials a and c dials b; nobody dials c.                                *)
LineDialer == [x \in Conn |-> IF x = ba THEN b ELSE c]
LineAcceptor == [x \in Conn |-> IF x = ba THEN a ELSE b]

(* Nobody has subnets.                                                     *)
BareConf == [n \in Node |-> [addr |-> IF n = a THEN a1 ELSE a2, subnets |-> <<>>]]
(* A reload finds a new address and no subnets.                            *)
Readdressed == {[addr |-> a2, subnets |-> <<>>]}
(* A reload finds a new address.                                           *)
Moved == {[addr |-> a2, subnets |-> <<s1>>]}

(* b has not joined yet: its hosts/ directory is empty.                    *)
KnowSelf == [n \in Node |-> IF n = a THEN {a} ELSE {}]
KnowAll == [n \in Node |-> Node]
NoConfs == {}

(* Environment events allowed in a run: each of the given ones once, and   *)
(* at most so many of them together.                                       *)
AtMost(k, events) ==
  [e \in Event |-> IF e = "any" THEN k ELSE IF e \in events THEN 1 ELSE 0]
PairBudget == AtMost(1, {"break", "crash", "reload", "discover", "heartbeat", "redial"})
JoinBudget == AtMost(2, {"invite", "discover", "announce"})
ReloadBudget == AtMost(1, {"reload"})
InviteBudget == AtMost(1, {"invite"})
NoBudget == AtMost(0, {})
=============================================================================
