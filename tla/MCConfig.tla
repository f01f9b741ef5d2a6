------------------------------ MODULE MCConfig ------------------------------
(* Instances of Config and Invitation for TLC.                             *)
EXTENDS Invitation, TLC

CONSTANTS p1, p2, p3

Spaces == ("s1 " :> "s1") @@ (" " :> "")

(* The exports of two nodes with a line in front, a comment among them.    *)
Exports == << Entry("Address", "x"),
              Entry("Name", "b"), Comment, Entry("Port", "1"),
              Entry("Name", "a"), Entry("WGPublicKey", "k") >>

Op(op, k, v) == [op |-> op, key |-> k, value |-> v]

Commands ==
  {[op |-> "init", name |-> n] : n \in {"a", "b", "junk"}}
  \cup {[op |-> "import", stream |-> Exports]}
  \cup {Op("set", "Subnet", v) : v \in {"s1 ", "junk", " "}}
  \cup {Op("add", "Subnet", "s2"), Op("add", "ConnectTo", "b"),
        Op("set", "Name", "a"), Op("set", "Address", "x"), Op("set", "Mode", "junk"),
        Op("del", "Subnet", "s1"), Op("del", "Name", "")}

Fragments == <<Comment, Entry("Subnet", "s3")>>

ASSUME AsIntended == NameInConf /\ HostsOnly /\ EditsAKey /\ ConnectsInConf

Symmetry == Permutations(Proc)
=============================================================================
