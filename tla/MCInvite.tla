------------------------------ MODULE MCInvite ------------------------------
(* Instances of Invite for TLC.                                            *)
EXTENDS Invite

CONSTANTS c1, c2, bob, carol, r1, r2, r3, m1, m2

(* r1 and r2 use the same invitation; r3 another one, on another machine.  *)
Names == [c \in Cookie |-> IF c = c1 THEN bob ELSE carol]
Urls == [r \in Run |-> IF r = r3 THEN c2 ELSE c1]

(* r2 retries on the same machine what r1 tried.                           *)
Retried == [r \in Run |-> IF r = r3 THEN m2 ELSE m1]

(* What the theorems of InviteProofs ask of an instance.                   *)
ASSUME UsedAsIntended == RetriedInPlace /\ InvitedOnce /\ JoinsOnce

OneOfEach == [e \in Fault |-> 1]
=============================================================================
