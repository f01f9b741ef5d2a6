---------------------------- MODULE InviteProofs ----------------------------
(***************************************************************************)
(* An invitation is used once, and what a machine loads is registered, for *)
(* any number of invitations, join commands and machines and any faults.   *)
(***************************************************************************)
EXTENDS Invite, TLAPS

-----------------------------------------------------------------------------
(* Request and reply alternate, a command does nothing before the          *)
(* invitation exists, and a handler serves the request it was started for. *)
Sync ==
  \A r \in Run :
    /\ reply[r] # "none" => hpc[r] = "none" /\ jpc[r] \in {"get", "join"}
    /\ hpc[r] = "get" => jpc[r] \in {"get", "failed"}
    /\ hpc[r] \in {"read", "write", "remove", "announce"} => jpc[r] \in {"join", "failed"}
    /\ jpc[r] # "new" => UrlOf[r] \in issued

Files == present \subseteq issued

(* Commands in progress exclude each other on a machine.                   *)
Active(r) == jpc[r] # "new" /\ ~Ended(r)
OneAtATime == \A r, s \in Run : Active(r) /\ Active(s) /\ On[r] = On[s] => r = s

(* The command was accepted, now or before it was killed.                  *)
Took(r) == Accepted(r) \/ \E f \in File : tree[On[r]][f] = r

(* An invitation that was taken is gone, and whoever else still handles it *)
(* does so for a command that has given up.                                *)
Consumed ==
  \A r \in Run :
    /\ Took(r) \/ hpc[r] = "announce" => UrlOf[r] \in issued \ present
    /\ Took(r) => \A s \in Run \ {r} : UrlOf[s] = UrlOf[r] =>
                    /\ ~Took(s)
                    /\ hpc[s] \in {"write", "remove", "announce"} => Ended(s)

UseInv == TypeOK /\ Sync /\ OneAtATime /\ Consumed

(* Until a command hangs up every handler has a command that waits, and    *)
(* what the last handler wrote to hosts/<name> is what the command has.    *)
Registered ==
  /\ budget["hangup"] <= Budget["hangup"]
  /\ ~HungUp =>
       \A r \in Run :
         /\ hpc[r] # "none" => jpc[r] \in {"get", "join"}
         /\ Took(r) \/ hpc[r] \in {"remove", "announce"} => hosts[InviteeOf[UrlOf[r]]] = r

(* The configuration is written in order, by one command.                  *)
InOrder ==
  /\ \A m \in Machine, f \in File : tree[m][f] # NoKey => On[tree[m][f]] = m
  /\ \A r \in Run : LET t == tree[On[r]] IN
       /\ jpc[r] = "wg" => t["ed25519"] = r
       /\ jpc[r] = "conf" \/ t["conf"] = r => t["ed25519"] = r /\ t["wg"] = r

(* Every variable keeps its type.                                          *)
LEMMA TypeInv == TypeOK /\ [Next]_vars => TypeOK'
<1> SUFFICES ASSUME TypeOK, [Next]_vars PROVE TypeOK'
  BY ZenonT(20)
<1> USE InviteAssumption DEF TypeOK, server, Spend, Reply, Request, File
<1>1. ASSUME NEW c \in Cookie, CmdInvite(c) PROVE TypeOK'
  BY <1>1, ZenonT(20) DEF CmdInvite
<1>2. ASSUME NEW r \in Run, CmdJoin(r) PROVE TypeOK'
  BY <1>2, ZenonT(20) DEF CmdJoin
<1>3. ASSUME NEW r \in Run, ReceiveGet(r) PROVE TypeOK'
  BY <1>3, ZenonT(20) DEF ReceiveGet
<1>4. ASSUME NEW r \in Run, ReceiveJoin(r) PROVE TypeOK'
  BY <1>4, ZenonT(20) DEF ReceiveJoin
<1>5. ASSUME NEW r \in Run, WriteTree(r) PROVE TypeOK'
  <2>1. jpc[r] \in File /\ On[r] \in Machine
    BY <1>5, ZenonT(20) DEF WriteTree
  <2>2. After(jpc[r]) \in {"joined"} \cup File
    BY <2>1, ZenonT(20) DEF After
  <2>3. tree' \in [Machine -> [File -> Run \cup {NoKey}]]
    BY <1>5, <2>1, ZenonT(20) DEF WriteTree
  <2>. QED  BY <1>5, <2>2, <2>3, ZenonT(20) DEF WriteTree
<1>6. ASSUME NEW r \in Run, HandleGet(r) PROVE TypeOK'
  BY <1>6, ZenonT(20) DEF HandleGet
<1>7. ASSUME NEW r \in Run, ReadInvitation(r) PROVE TypeOK'
  BY <1>7, ZenonT(20) DEF ReadInvitation
<1>8. ASSUME NEW r \in Run, WriteHost(r) PROVE TypeOK'
  <2>1. CASE Spend("disk") /\ Reply(r, "err") /\ UNCHANGED hosts
    BY <1>8, <2>1 DEF WriteHost, Fault
  <2>2. CASE /\ hosts' = [hosts EXCEPT ![InviteeOf[UrlOf[r]]] = r]
             /\ hpc' = [hpc EXCEPT ![r] = "remove"] /\ UNCHANGED <<reply, budget>>
    BY <1>8, <2>2, ZenonT(20) DEF WriteHost
  <2>. QED  BY <1>8, <2>1, <2>2, ZenonT(20) DEF WriteHost
<1>9. ASSUME NEW r \in Run, RemoveInvitation(r) PROVE TypeOK'
  BY <1>9, ZenonT(20) DEF RemoveInvitation
<1>10. ASSUME NEW r \in Run, AnnounceJoin(r) PROVE TypeOK'
  BY <1>10 DEF AnnounceJoin
<1>11. ASSUME NEW r \in Run, LoseReply(r) PROVE TypeOK'
  BY <1>11 DEF LoseReply, Fault
<1>12. ASSUME NEW r \in Run, Hangup(r) PROVE TypeOK'
  BY <1>12 DEF Hangup, Fault
<1>13. ASSUME NEW r \in Run, Kill(r) PROVE TypeOK'
  BY <1>13 DEF Kill, Fault
<1>14. CASE Crash
  <2>1. jpc' \in [Run -> {"new", "get", "join", "joined", "failed"} \cup File]
    BY <1>14, ZenonT(20) DEF Crash
  <2>2. budget' \in [Fault -> Nat]
    BY <1>14 DEF Crash, Fault
  <2>. QED  BY <1>14, <2>1, <2>2, ZenonT(20) DEF Crash
<1>15. CASE Restart
  BY <1>15, ZenonT(20) DEF Restart
<1>16. CASE UNCHANGED vars
  BY <1>16, ZenonT(20) DEF vars
<1>. QED
  BY <1>1, <1>2, <1>3, <1>4, <1>5, <1>6, <1>7, <1>8, <1>9, <1>10, <1>11, <1>12,
     <1>13, <1>14, <1>15, <1>16, ZenonT(20) DEF Next, Command, Handler

(* A request, its handler and its reply follow each other.                 *)
LEMMA SyncInv == TypeOK /\ Sync /\ [Next]_vars => Sync'
<1> SUFFICES ASSUME TypeOK, Sync, [Next]_vars PROVE Sync'
  BY ZenonT(20)
<1> USE InviteAssumption DEF TypeOK, Sync, server, File, Ended
<1>1. ASSUME NEW c \in Cookie, CmdInvite(c) PROVE Sync'
  BY <1>1, ZenonT(20) DEF CmdInvite
<1>2. ASSUME NEW r \in Run, CmdJoin(r) PROVE Sync'
  BY <1>2 DEF CmdJoin, Request
<1>3. ASSUME NEW r \in Run, ReceiveGet(r) PROVE Sync'
  BY <1>3 DEF ReceiveGet, Request
<1>4. ASSUME NEW r \in Run, ReceiveJoin(r) PROVE Sync'
  BY <1>4, ZenonT(20) DEF ReceiveJoin
<1>5. ASSUME NEW r \in Run, WriteTree(r) PROVE Sync'
  BY <1>5, ZenonT(20) DEF WriteTree
<1>6. ASSUME NEW r \in Run, HandleGet(r) PROVE Sync'
  BY <1>6 DEF HandleGet, Reply
<1>7. ASSUME NEW r \in Run, ReadInvitation(r) PROVE Sync'
  BY <1>7 DEF ReadInvitation, Reply
<1>8. ASSUME NEW r \in Run, WriteHost(r) PROVE Sync'
  BY <1>8 DEF WriteHost, Reply
<1>9. ASSUME NEW r \in Run, RemoveInvitation(r) PROVE Sync'
  BY <1>9, ZenonT(20) DEF RemoveInvitation
<1>10. ASSUME NEW r \in Run, AnnounceJoin(r) PROVE Sync'
  BY <1>10, ZenonT(20) DEF AnnounceJoin, Reply
<1>11. ASSUME NEW r \in Run, LoseReply(r) PROVE Sync'
  BY <1>11, ZenonT(20) DEF LoseReply
<1>12. ASSUME NEW r \in Run, Hangup(r) PROVE Sync'
  BY <1>12, ZenonT(20) DEF Hangup
<1>13. ASSUME NEW r \in Run, Kill(r) PROVE Sync'
  BY <1>13, ZenonT(20) DEF Kill
<1>14. CASE Crash
  BY <1>14, ZenonT(20) DEF Crash
<1>15. CASE Restart
  BY <1>15, ZenonT(20) DEF Restart
<1>16. CASE UNCHANGED vars
  BY <1>16, ZenonT(20) DEF vars
<1>. QED
  BY <1>1, <1>2, <1>3, <1>4, <1>5, <1>6, <1>7, <1>8, <1>9, <1>10, <1>11, <1>12,
     <1>13, <1>14, <1>15, <1>16, ZenonT(20) DEF Next, Command, Handler

(* At most one command runs on a machine at a time.                        *)
LEMMA OneAtATimeInv == TypeOK /\ OneAtATime /\ [Next]_vars => OneAtATime'
<1> SUFFICES ASSUME TypeOK, OneAtATime, [Next]_vars PROVE OneAtATime'
  BY ZenonT(20)
<1> USE InviteAssumption DEF TypeOK, OneAtATime, Active, server, File, Ended
<1>1. ASSUME NEW c \in Cookie, CmdInvite(c) PROVE OneAtATime'
  BY <1>1, ZenonT(20) DEF CmdInvite
<1>2. ASSUME NEW r \in Run, CmdJoin(r) PROVE OneAtATime'
  <2>1. \A s \in Run : On[s] = On[r] => ~Active(s)
    BY <1>2, ZenonT(20) DEF CmdJoin
  <2>2. \A s \in Run \ {r} : jpc'[s] = jpc[s]
    BY <1>2, ZenonT(20) DEF CmdJoin, Request
  <2>3. \A s \in Run : On[s] = On[r] /\ Active(s)' => s = r
    BY <2>1, <2>2, ZenonT(20)
  <2>. QED  BY <2>1, <2>2, <2>3, ZenonT(20)
<1>3. ASSUME NEW r \in Run, ReceiveGet(r) PROVE OneAtATime'
  BY <1>3 DEF ReceiveGet, Request
<1>4. ASSUME NEW r \in Run, ReceiveJoin(r) PROVE OneAtATime'
  BY <1>4, ZenonT(20) DEF ReceiveJoin
<1>5. ASSUME NEW r \in Run, WriteTree(r) PROVE OneAtATime'
  BY <1>5, ZenonT(20) DEF WriteTree
<1>6. ASSUME NEW r \in Run, HandleGet(r) PROVE OneAtATime'
  BY <1>6, ZenonT(20) DEF HandleGet, Reply
<1>7. ASSUME NEW r \in Run, ReadInvitation(r) PROVE OneAtATime'
  BY <1>7, ZenonT(20) DEF ReadInvitation, Reply
<1>8. ASSUME NEW r \in Run, WriteHost(r) PROVE OneAtATime'
  BY <1>8, ZenonT(20) DEF WriteHost, Reply
<1>9. ASSUME NEW r \in Run, RemoveInvitation(r) PROVE OneAtATime'
  BY <1>9, ZenonT(20) DEF RemoveInvitation
<1>10. ASSUME NEW r \in Run, AnnounceJoin(r) PROVE OneAtATime'
  BY <1>10, ZenonT(20) DEF AnnounceJoin, Reply
<1>11. ASSUME NEW r \in Run, LoseReply(r) PROVE OneAtATime'
  BY <1>11, ZenonT(20) DEF LoseReply
<1>12. ASSUME NEW r \in Run, Hangup(r) PROVE OneAtATime'
  BY <1>12, ZenonT(20) DEF Hangup
<1>13. ASSUME NEW r \in Run, Kill(r) PROVE OneAtATime'
  BY <1>13, ZenonT(20) DEF Kill
<1>14. CASE Crash
  BY <1>14, ZenonT(20) DEF Crash
<1>15. CASE Restart
  BY <1>15, ZenonT(20) DEF Restart
<1>16. CASE UNCHANGED vars
  BY <1>16, ZenonT(20) DEF vars
<1>. QED
  BY <1>1, <1>2, <1>3, <1>4, <1>5, <1>6, <1>7, <1>8, <1>9, <1>10, <1>11, <1>12,
     <1>13, <1>14, <1>15, <1>16, ZenonT(20) DEF Next, Command, Handler

(* A command is accepted when its handler is done, and not otherwise; and  *)
(* what the handlers, the commands and the invitations do not take back.   *)
New(r) == hpc[r] = "announce" /\ jpc[r] = "join"
Progress ==
  \A s \in Run :
    /\ Ended(s) => Ended(s)'
    /\ Took(s)' => Took(s) \/ New(s)
    /\ UrlOf[s] \in issued \ present => UrlOf[s] \in issued' \ present'
    /\ hpc'[s] = "announce" => hpc[s] = "announce" \/ UrlOf[s] \in issued' \ present'
    /\ hpc'[s] \in {"write", "remove", "announce"} =>
         hpc[s] \in {"write", "remove", "announce"} \/ UrlOf[s] \in present

(* Every step is such a step.                                              *)
LEMMA Progresses == TypeOK /\ Sync /\ [Next]_vars => Progress
<1> SUFFICES ASSUME TypeOK, Sync, [Next]_vars PROVE Progress
  BY ZenonT(20)
<1> USE InviteAssumption DEF Progress, New, Took, Accepted, TypeOK, Sync, server, File, Ended
<1>1. ASSUME NEW c \in Cookie, CmdInvite(c) PROVE Progress
  BY <1>1, ZenonT(20) DEF CmdInvite
<1>2. ASSUME NEW r \in Run, CmdJoin(r) PROVE Progress
  BY <1>2 DEF CmdJoin, Request
<1>3. ASSUME NEW r \in Run, ReceiveGet(r) PROVE Progress
  BY <1>3 DEF ReceiveGet, Request
<1>4. ASSUME NEW r \in Run, ReceiveJoin(r) PROVE Progress
  BY <1>4, ZenonT(20) DEF ReceiveJoin
<1>5. ASSUME NEW r \in Run, WriteTree(r) PROVE Progress
  BY <1>5 DEF WriteTree, After
<1>6. ASSUME NEW r \in Run, HandleGet(r) PROVE Progress
  BY <1>6 DEF HandleGet, Reply
<1>7. ASSUME NEW r \in Run, ReadInvitation(r) PROVE Progress
  BY <1>7 DEF ReadInvitation, Reply
<1>8. ASSUME NEW r \in Run, WriteHost(r) PROVE Progress
  BY <1>8 DEF WriteHost, Reply
<1>9. ASSUME NEW r \in Run, RemoveInvitation(r) PROVE Progress
  BY <1>9 DEF RemoveInvitation
<1>10. ASSUME NEW r \in Run, AnnounceJoin(r) PROVE Progress
  BY <1>10 DEF AnnounceJoin, Reply
<1>11. ASSUME NEW r \in Run, LoseReply(r) PROVE Progress
  BY <1>11, ZenonT(20) DEF LoseReply
<1>12. ASSUME NEW r \in Run, Hangup(r) PROVE Progress
  BY <1>12, ZenonT(20) DEF Hangup
<1>13. ASSUME NEW r \in Run, Kill(r) PROVE Progress
  BY <1>13, ZenonT(20) DEF Kill
<1>14. CASE Crash
  BY <1>14, ZenonT(20) DEF Crash
<1>15. CASE Restart
  BY <1>15, ZenonT(20) DEF Restart
<1>16. CASE UNCHANGED vars
  BY <1>16, ZenonT(20) DEF vars
<1>. QED
  BY <1>1, <1>2, <1>3, <1>4, <1>5, <1>6, <1>7, <1>8, <1>9, <1>10, <1>11, <1>12,
     <1>13, <1>14, <1>15, <1>16, ZenonT(20) DEF Next, Command, Handler

(* An invitation is taken once, and is gone from then on.                  *)
LEMMA ConsumedInv ==
  ASSUME RetriedInPlace, UseInv, [Next]_vars
  PROVE  Consumed'
<1>1. Progress
  BY Progresses, ZenonT(20) DEF UseInv
<1>2. ASSUME NEW r \in Run, NEW s \in Run \ {r}, UrlOf[s] = UrlOf[r], New(r)
      PROVE  ~New(s) /\ (hpc[s] \in {"write", "remove", "announce"} => Ended(s))
  <2>1. On[r] = On[s] /\ Active(r)
    BY <1>2, ZenonT(20) DEF RetriedInPlace, New, Active, Ended
  <2>2. ~Active(s)
    BY <2>1, ZenonT(20) DEF UseInv, OneAtATime
  <2>. QED  BY <2>2, ZenonT(20) DEF UseInv, Sync, New, Active, Ended
<1>3. ASSUME NEW r \in Run, Took(r) \/ New(r)
      PROVE  UrlOf[r] \in issued \ present
  BY <1>3, ZenonT(20) DEF UseInv, Consumed, New
<1>4. ASSUME NEW r \in Run, NEW s \in Run \ {r}, UrlOf[s] = UrlOf[r], Took(r) \/ New(r)
      PROVE  /\ ~(Took(s) \/ New(s))
             /\ hpc[s] \in {"write", "remove", "announce"} => Ended(s)
  BY <1>2, <1>4, ZenonT(20) DEF UseInv, Consumed, New, Ended
<1>5. ASSUME NEW r \in Run, Took(r)' \/ hpc'[r] = "announce"
      PROVE  UrlOf[r] \in issued' \ present'
  BY <1>1, <1>3, <1>5, ZenonT(20) DEF Progress, UseInv, Consumed
<1>6. ASSUME NEW r \in Run, NEW s \in Run \ {r}, UrlOf[s] = UrlOf[r], Took(r)'
      PROVE  /\ ~Took(s)'
             /\ hpc'[s] \in {"write", "remove", "announce"} => Ended(s)'
  BY <1>1, <1>3, <1>4, <1>6, ZenonT(20) DEF Progress
<1>. QED  BY <1>5, <1>6, ZenonT(20) DEF Consumed

(* The key on file is the one in use, unless a command has hung up.        *)
LEMMA RegisteredInv ==
  ASSUME RetriedInPlace, InvitedOnce, UseInv, Registered, [Next]_vars
  PROVE  Registered'
<1>0. \A s \in Run : Took(s)' => Took(s) \/ hpc[s] = "announce"
  BY Progresses, ZenonT(20) DEF UseInv, Progress, New
<1> USE InviteAssumption DEF UseInv, TypeOK, Sync, Registered, HungUp, server, File, Ended
<1>1. ASSUME NEW c \in Cookie, CmdInvite(c) PROVE Registered'
  BY <1>1, <1>0, ZenonT(20) DEF CmdInvite
<1>2. ASSUME NEW r \in Run, CmdJoin(r) PROVE Registered'
  BY <1>2, <1>0 DEF CmdJoin, Request
<1>3. ASSUME NEW r \in Run, ReceiveGet(r) PROVE Registered'
  BY <1>3, <1>0 DEF ReceiveGet, Request
<1>4. ASSUME NEW r \in Run, ReceiveJoin(r) PROVE Registered'
  BY <1>4, <1>0 DEF ReceiveJoin
<1>5. ASSUME NEW r \in Run, WriteTree(r) PROVE Registered'
  BY <1>5, <1>0 DEF WriteTree
<1>6. ASSUME NEW r \in Run, HandleGet(r) PROVE Registered'
  BY <1>6, <1>0 DEF HandleGet, Reply
<1>7. ASSUME NEW r \in Run, ReadInvitation(r) PROVE Registered'
  BY <1>7, <1>0 DEF ReadInvitation, Reply
<1>8. ASSUME NEW r \in Run, WriteHost(r) PROVE Registered'
  <2>1. CASE Spend("disk") /\ Reply(r, "err") /\ UNCHANGED hosts
    BY <1>0, <1>8, <2>1 DEF WriteHost, Spend, Reply, Fault
  <2>2. CASE /\ hosts' = [hosts EXCEPT ![InviteeOf[UrlOf[r]]] = r]
             /\ hpc' = [hpc EXCEPT ![r] = "remove"] /\ UNCHANGED <<reply, budget>>
    <3>1. ASSUME ~HungUp, NEW s \in Run \ {r}, Took(s) \/ hpc[s] \in {"remove", "announce"}
          PROVE  UrlOf[s] # UrlOf[r]
      <4>1. hpc[r] = "write" /\ jpc[r] = "join"
        BY <1>8, <3>1, ZenonT(20) DEF WriteHost
      <4>2. CASE Took(s)
        BY <4>1, <4>2, ZenonT(20) DEF Consumed
      <4>3. CASE hpc[s] \in {"remove", "announce"}
        <5>1. Active(r) /\ Active(s)
          BY <3>1, <4>1, <4>3, ZenonT(20) DEF Active
        <5>2. On[r] # On[s]
          BY <3>1, <5>1, ZenonT(20) DEF OneAtATime
        <5>. QED  BY <5>2, ZenonT(20) DEF RetriedInPlace
      <4>. QED  BY <3>1, <4>2, <4>3, ZenonT(20)
    <3>2. \A s \in Run \ {r} : UrlOf[s] # UrlOf[r] => InviteeOf[UrlOf[s]] # InviteeOf[UrlOf[r]]
      BY ZenonT(20) DEF InvitedOnce
    <3>. QED  BY <1>0, <1>8, <2>2, <3>1, <3>2 DEF WriteHost
  <2>. QED  BY <1>8, <2>1, <2>2, ZenonT(20) DEF WriteHost
<1>9. ASSUME NEW r \in Run, RemoveInvitation(r) PROVE Registered'
  BY <1>9, <1>0 DEF RemoveInvitation
<1>10. ASSUME NEW r \in Run, AnnounceJoin(r) PROVE Registered'
  BY <1>10, <1>0 DEF AnnounceJoin, Reply
<1>11. ASSUME NEW r \in Run, LoseReply(r) PROVE Registered'
  BY <1>11, <1>0 DEF LoseReply, Spend, Fault
<1>12. ASSUME NEW r \in Run, Hangup(r) PROVE Registered'
  BY <1>12, <1>0 DEF Hangup, Spend, Fault
<1>13. ASSUME NEW r \in Run, Kill(r) PROVE Registered'
  BY <1>13, <1>0 DEF Kill, Spend, Fault
<1>14. CASE Crash
  BY <1>14, <1>0, ZenonT(20) DEF Crash, Spend, Fault
<1>15. CASE Restart
  BY <1>15, <1>0, ZenonT(20) DEF Restart
<1>16. CASE UNCHANGED vars
  BY <1>16, <1>0, ZenonT(20) DEF vars
<1>. QED
  BY <1>1, <1>2, <1>3, <1>4, <1>5, <1>6, <1>7, <1>8, <1>9, <1>10, <1>11, <1>12,
     <1>13, <1>14, <1>15, <1>16, ZenonT(20) DEF Next, Command, Handler

(* The files of a machine come from one command, in the order of step 3.   *)
LEMMA InOrderInv ==
  ASSUME JoinsOnce, UseInv, InOrder, [Next]_vars
  PROVE  InOrder'
<1> USE InviteAssumption DEF UseInv, TypeOK, InOrder, server, File, Ended
<1>1. ASSUME NEW c \in Cookie, CmdInvite(c) PROVE InOrder'
  BY <1>1 DEF CmdInvite
<1>2. ASSUME NEW r \in Run, CmdJoin(r) PROVE InOrder'
  BY <1>2 DEF CmdJoin, Request
<1>3. ASSUME NEW r \in Run, ReceiveGet(r) PROVE InOrder'
  BY <1>3 DEF ReceiveGet, Request
<1>4. ASSUME NEW r \in Run, ReceiveJoin(r) PROVE InOrder'
  BY <1>4 DEF ReceiveJoin
<1>5. ASSUME NEW r \in Run, WriteTree(r) PROVE InOrder'
  BY <1>5 DEF WriteTree, After, Took, Accepted, Consumed, OneAtATime, Active, JoinsOnce
<1>6. ASSUME NEW r \in Run, HandleGet(r) PROVE InOrder'
  BY <1>6 DEF HandleGet, Reply
<1>7. ASSUME NEW r \in Run, ReadInvitation(r) PROVE InOrder'
  BY <1>7 DEF ReadInvitation, Reply
<1>8. ASSUME NEW r \in Run, WriteHost(r) PROVE InOrder'
  BY <1>8 DEF WriteHost, Reply
<1>9. ASSUME NEW r \in Run, RemoveInvitation(r) PROVE InOrder'
  BY <1>9 DEF RemoveInvitation
<1>10. ASSUME NEW r \in Run, AnnounceJoin(r) PROVE InOrder'
  BY <1>10 DEF AnnounceJoin, Reply
<1>11. ASSUME NEW r \in Run, LoseReply(r) PROVE InOrder'
  BY <1>11 DEF LoseReply
<1>12. ASSUME NEW r \in Run, Hangup(r) PROVE InOrder'
  BY <1>12 DEF Hangup
<1>13. ASSUME NEW r \in Run, Kill(r) PROVE InOrder'
  BY <1>13 DEF Kill
<1>14. CASE Crash
  BY <1>14 DEF Crash
<1>15. CASE Restart
  BY <1>15 DEF Restart
<1>16. CASE UNCHANGED vars
  BY <1>16 DEF vars
<1>. QED
  BY <1>1, <1>2, <1>3, <1>4, <1>5, <1>6, <1>7, <1>8, <1>9, <1>10, <1>11, <1>12,
     <1>13, <1>14, <1>15, <1>16, ZenonT(20) DEF Next, Command, Handler

-----------------------------------------------------------------------------
(* Every variable of the exchange keeps its type.                          *)
THEOREM InviteTypes == Spec => []TypeOK
<1>1. Init => TypeOK
  BY InviteAssumption DEF Init, TypeOK, File
<1>. QED  BY <1>1, TypeInv, PTL DEF Spec

(* The facts about the use of an invitation hold throughout, if a command  *)
(* is retried on the machine on which it was tried.                        *)
LEMMA UseInvariant == ASSUME RetriedInPlace PROVE Spec => []UseInv
<1>1. Init => UseInv
  BY InviteAssumption
  DEF Init, UseInv, TypeOK, Sync, OneAtATime, Active, Consumed, Took, Accepted, Ended, File
<1>2. UseInv /\ [Next]_vars => UseInv'
  BY TypeInv, SyncInv, OneAtATimeInv, ConsumedInv, ZenonT(20) DEF UseInv
<1>. QED  BY <1>1, <1>2, PTL DEF Spec

(* An invitation is good for one accepted join (handleInviteJoin), for any *)
(* invitations and retries and any crashes, lost replies and hang-ups.     *)
THEOREM SingleUseHolds == ASSUME RetriedInPlace PROVE Spec => []SingleUse
<1>1. UseInv => SingleUse
  BY ZenonT(20) DEF UseInv, Consumed, Took, SingleUse
<1>. QED  BY <1>1, UseInvariant, PTL

(* The registration facts hold throughout, if names are invited once.      *)
LEMMA RegisteredInvariant ==
  ASSUME RetriedInPlace, InvitedOnce PROVE Spec => []Registered
<1>1. Init => Registered
  BY InviteAssumption DEF Init, Registered, HungUp, Took, Accepted, Fault, File
<1>2. UseInv /\ Registered /\ [Next]_vars => Registered'
  BY RegisteredInv, ZenonT(20)
<1>. QED  BY <1>1, <1>2, UseInvariant, PTL DEF Spec

(* The key that handleInviteJoin has put into hosts/<name> is the one of   *)
(* the join that was accepted, unless a command hung up on its handler.    *)
THEOREM RegistrationHolds ==
  ASSUME RetriedInPlace, InvitedOnce PROVE Spec => []AcceptedIsRegistered
<1>1. Registered => AcceptedIsRegistered
  BY ZenonT(20) DEF Registered, AcceptedIsRegistered, Took
<1>. QED  BY <1>1, RegisteredInvariant, PTL

(* A tree that loads holds the keys of one run of cmdJoin, the registered  *)
(* ones, wherever a run was killed.                                        *)
THEOREM LoadableHolds ==
  ASSUME RetriedInPlace, InvitedOnce, JoinsOnce PROVE Spec => []LoadableIsRegistered
<1>1. Init => InOrder
  BY InviteAssumption DEF Init, InOrder, File
<1>2. UseInv /\ InOrder /\ [Next]_vars => InOrder'
  BY InOrderInv, ZenonT(20)
<1>3. UseInv /\ InOrder /\ Registered => LoadableIsRegistered
  <2> SUFFICES ASSUME UseInv, InOrder, Registered, NEW m \in Machine, tree[m]["conf"] # NoKey
               PROVE  LET r == tree[m]["conf"] IN
                      /\ tree[m]["ed25519"] = r /\ tree[m]["wg"] = r
                      /\ HungUp \/ hosts[InviteeOf[UrlOf[r]]] = r
    BY ZenonT(20) DEF LoadableIsRegistered
  <2> DEFINE r == tree[m]["conf"]
  <2>1. r \in Run /\ On[r] = m
    BY DEF UseInv, TypeOK, InOrder, File
  <2>2. Took(r)
    BY <2>1, ZenonT(20) DEF Took, File
  <2>. QED  BY <2>1, <2>2 DEF InOrder, Registered
<1>. QED  BY <1>1, <1>2, <1>3, UseInvariant, RegisteredInvariant, PTL DEF Spec
=============================================================================
