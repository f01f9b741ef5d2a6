------------------------------ MODULE Topology ------------------------------
(***************************************************************************)
(* The operations of the in-memory topology (internal/graph).  A graph is  *)
(* a record: the known nodes, the adjacency map as a set of directed       *)
(* halves <<from, to, weight>>, and the pairs <<owner, subnet>>.           *)
(* Every operation runs under the graph's own mutex, so each is one value  *)
(* transformer.                                                            *)
(***************************************************************************)
EXTENDS Naturals

EmptyGraph == [nodes |-> {}, adj |-> {}, subnets |-> {}]

AddNode(g, n) == [g EXCEPT !.nodes = @ \cup {n}]

(* The halves of the adjacency map stored between a and b, in either       *)
(* direction.                                                              *)
Halves(g, a, b) == {h \in g.adj : {h[1], h[2]} = {a, b}}

AddEdge(g, a, b, w) ==
  [g EXCEPT !.nodes = @ \cup {a, b},
            !.adj = (@ \ Halves(g, a, b)) \cup {<<a, b, w>>, <<b, a, w>>}]

DelEdge(g, a, b) == [g EXCEPT !.adj = @ \ Halves(g, a, b)]

AddSubnet(g, o, s) ==
  [g EXCEPT !.nodes = @ \cup {o}, !.subnets = @ \cup {<<o, s>>}]

DelSubnet(g, o, s) == [g EXCEPT !.subnets = @ \ {<<o, s>>}]

(* The loop "for every edge that touches n: DelEdge" of KindDelNode.       *)
DropEdgesOf(g, n) == [g EXCEPT !.adj = {h \in @ : n \notin {h[1], h[2]}}]
=============================================================================
