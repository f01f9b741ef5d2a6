---------------------------- MODULE MCDiscovery ----------------------------
(* Instances of Discovery for TLC.                                         *)
EXTENDS Discovery

CONSTANTS q1, q2

(* A change at the router and a reload, among two failures or none.        *)
Faulty == [fault |-> 2, move |-> 1, reload |-> 1]
Calm == [fault |-> 0, move |-> 1, reload |-> 1]
=============================================================================
