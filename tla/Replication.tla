---------------------------- MODULE Replication ----------------------------
(***************************************************************************)
(* What gossip promises about its facts, without queues or threads: each   *)
(* fact is a register with one writer, its origin.  The writer issues      *)
(* versions; every node records versions of it, only ever a newer one than *)
(* the one it has.  Only the writer may record its own versions out of     *)
(* order, and only a crash makes a node forget.                            *)
(***************************************************************************)
EXTENDS Naturals

CONSTANTS Node, FactId

VARIABLES
  issued,   \* versions announced so far
  known     \* time stamp of the version each node has recorded, 0 for none

Writer(id) == id[1]

Init ==
  /\ issued = {}
  /\ known = [n \in Node |-> [id \in FactId |-> 0]]

(* A new version is newer than the issued ones and than any recorded one.  *)
Issue(e) ==
  /\ \A d \in issued : d.fact.id = e.fact.id => d.ts < e.ts
  /\ \A n \in Node : known[n][e.fact.id] < e.ts
  /\ issued' = issued \cup {e}
  /\ UNCHANGED known

Record(n, e) ==
  /\ Writer(e.fact.id) = n \/ known[n][e.fact.id] < e.ts
  /\ known' = [known EXCEPT ![n][e.fact.id] = e.ts]
  /\ UNCHANGED issued

Forget(n) ==
  /\ known' = [known EXCEPT ![n] = [id \in FactId |-> 0]]
  /\ UNCHANGED issued

Next ==
  \/ \E e \in issued' : Issue(e)
  \/ \E n \in Node : Forget(n) \/ \E e \in issued : Record(n, e)

Spec == Init /\ [][Next]_<<issued, known>>
=============================================================================
