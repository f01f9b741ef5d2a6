-------------------------- MODULE LifecycleProofs --------------------------
(***************************************************************************)
(* Proofs about module Lifecycle: the types, that a request is executed by *)
(* the daemon it was meant for, that none is at work in a daemon that runs *)
(* gsnet-down, that Run tidies up, and that a daemon which serves can be   *)
(* reached if none is started while another is stopping.                   *)
(***************************************************************************)
EXTENDS Lifecycle, SequenceTheorems, TLAPS

(* What Run has logged when Serve returns, and after gsnet-down; what has  *)
(* not returned, and what has.                                             *)
Ran == {<<"up", "serve">>, <<"up", "serve", "fail">>}
Undone == {<<"up", "serve", "down">>, <<"up", "serve", "fail", "down">>}
Going == {<<>>, <<"up">>} \cup Ran \cup Undone
Returned == {<<"up", "serve", "down", "return">>, <<"up", "serve", "fail", "down", "return">>,
             <<"up", "return">>}

(* The milestones follow the program counter, and so do the files.         *)
LogsAt(stage) ==
  CASE stage \in {"off", "bound"} -> {<<>>}
    [] stage \in {"up", "pid", "listen"} -> {<<"up">>}
    [] stage = "serve" -> {<<"up", "serve">>}
    [] stage \in {"close", "down"} -> Ran
    [] stage = "shut" -> Undone
    [] stage \in {"unsock", "unpid"} -> Undone \cup {<<"up">>}
    [] stage = "gone" -> Going \cup Returned

Logged(d) ==
  /\ log[d] \in LogsAt(pc[d])
  /\ pc[d] = "unpid" => sock # d
  /\ log[d] \in Returned => pidfile # d /\ sock # d

(* A connection in the hands of the server is one of a daemon that serves, *)
(* unless Serve returned without waiting.  A command that is not connected *)
(* has no connection, and one that was let in showed the right cookie.     *)
Held == {"accepted", "auth", "ready", "busy", "orphan", "exit"}
Connected(k) ==
  /\ cli[k] \in {"idle", "dial"} => srv[k] = "none"
  /\ to[k] \in IF srv[k] = "none" THEN {None} ELSE Proc
  /\ srv[k] \in {"ready", "busy", "orphan", "exit"} => cookie[k] = to[k]
  /\ srv[k] \in Held => pc[to[k]] = "serve" \/ Has(to[k], "fail")

(* One process at a time: it owns the files from the moment it makes them. *)
Live(d) == pc[d] \notin {"off", "gone"}
Alone ==
  /\ \A d, e \in Proc : Live(d) /\ Live(e) => d = e
  /\ \A d \in Proc : /\ Live(d) /\ pc[d] \notin {"bound", "up"} => pidfile = d
                     /\ pc[d] \in {"listen", "serve"} /\ d \notin cancelled => sock = d

LInv == TypeOK /\ (\A d \in Proc : Logged(d)) /\ (\A k \in Client : Connected(k))
-----------------------------------------------------------------------------
(***************************************************************************)
(* Types.                                                                  *)
(***************************************************************************)
(* What the server answers.                                                *)
LEMMA AnswerType == ASSUME NEW r PROVE Answer(r) \in Seq(Line)
<1>1. <<"row", "end">> \in Seq(Line) /\ <<"ok">> \in Seq(Line)
  BY DEF Line
<1>. QED  BY <1>1 DEF Answer

(* What a command sends.                                                   *)
LEMMA SendsType == ASSUME NEW k, NEW l PROVE Sends(k, l) \in Seq({"auth", "request"})
<1>1. /\ <<"auth">> \in Seq({"auth", "request"}) /\ <<"request">> \in Seq({"auth", "request"})
      /\ <<>> \in Seq({"auth", "request"})
  OBVIOUS
<1>. QED  BY <1>1, ZenonT(20) DEF Sends

(* Saying lines keeps the types.                                           *)
LEMMA SayType ==
  ASSUME lines \in [Client -> Seq(Line)], NEW k \in Client, NEW ls \in Seq(Line), Say(k, ls)
  PROVE  lines' \in [Client -> Seq(Line)]
<1>1. lines[k] \o ls \in Seq(Line)
  OBVIOUS
<1>. QED  BY <1>1 DEF Say

(* Moving a connection of the control server on keeps its type.            *)
LEMMA SrvType ==
  ASSUME TypeOK, NEW k \in Client, NEW stage \in Held \cup {"none", "queued", "closed"},
         SetSrv(k, stage)
  PROVE  srv' \in [Client -> {"none", "queued", "accepted", "auth", "ready", "busy",
                             "orphan", "exit", "closed"}]
  BY DEF TypeOK, SetSrv, Held

(* So does moving Run on.                                                  *)
LEMMA GotoType ==
  ASSUME TypeOK, NEW d \in Proc, NEW stage \in Stage, Goto(d, stage)
  PROVE  pc' \in [Proc -> Stage]
  BY DEF TypeOK, Goto

(* So does moving a gossip connection on.                                  *)
LEMMA ConnType ==
  ASSUME TypeOK, NEW x \in Peer, NEW stage \in {"reading", "last", "done"}, SetConn(x, stage)
  PROVE  TypeOK'
  BY DEF TypeOK, SetConn, runVars, fileVars, cliVars

(* What the end of a process changes.                                      *)
LEMMA ExitType ==
  ASSUME TypeOK, NEW d \in Proc \cup {None}, Exit(d), faults' \in 0..Faults,
         UNCHANGED <<log, fileVars>>
  PROVE  TypeOK'
<1> USE DEF TypeOK, Stage, fileVars
<1>1. /\ pc' \in [Proc -> Stage] /\ lsn' \subseteq Proc
      /\ cancelled' \subseteq Proc /\ swept' \subseteq Proc
  BY ZenonT(20) DEF Exit
<1>2. tcp' \in Proc \cup {None}
  BY DEF Exit, TCPClosed
<1>3. srv' \in [Client -> {"none", "queued", "accepted", "auth", "ready", "busy",
                          "orphan", "exit", "closed"}]
  BY DEF Exit
<1>4. conn' \in [Peer -> {"none", "queued", "taken", "first", "reading", "apply", "last", "done"}]
  BY DEF Exit
<1>. QED  BY <1>1, <1>2, <1>3, <1>4 DEF Exit

(* Every step keeps them.                                                  *)
LEMMA TypeInv == TypeOK /\ [Next]_vars => TypeOK'
<1> SUFFICES ASSUME TypeOK, [Next]_vars PROVE TypeOK'
  OBVIOUS
<1> USE LifecycleAssumption DEF TypeOK, Stage, runVars, fileVars, cliVars, peerVars
<1>1. ASSUME NEW d \in Proc, Start(d) PROVE TypeOK'
  <2>1. Goto(d, "bound") \/ Goto(d, "gone")
    BY <1>1, ZenonT(20) DEF Start
  <2>2. pc' \in [Proc -> Stage]
    BY <2>1, GotoType, ZenonT(20)
  <2>3. tcp' \in Proc \cup {None} /\ UNCHANGED fileVars
    BY <1>1, ZenonT(20) DEF Start
  <2>4. {pidfile', sock', tcp'} \subseteq Proc \cup {None}
    BY <2>3
  <2>. QED  BY <1>1, <2>2, <2>4, ZenonT(20) DEF Start
<1>2. ASSUME NEW d \in Proc, RunUp(d) PROVE TypeOK'
  BY <1>2 DEF RunUp, Goto, Log
<1>3. ASSUME NEW d \in Proc, WritePID(d) PROVE TypeOK'
  BY <1>3 DEF WritePID, Goto
<1>4. ASSUME NEW d \in Proc, Listen(d) PROVE TypeOK'
  BY <1>4 DEF Listen, Goto
<1>5. ASSUME NEW d \in Proc, Sandbox(d) PROVE TypeOK'
  BY <1>5 DEF Sandbox, Goto, Log
<1>6. ASSUME NEW d \in Proc, Leave(d) PROVE TypeOK'
  BY <1>6 DEF Leave, Goto, TCPClosed, ClosePool
<1>7. ASSUME NEW d \in Proc, CloseWait(d) PROVE TypeOK'
  BY <1>7 DEF CloseWait, Goto
<1>8. ASSUME NEW d \in Proc, RunDown(d) PROVE TypeOK'
  BY <1>8 DEF RunDown, Goto, Log
<1>9. ASSUME NEW d \in Proc, Shutdown(d) PROVE TypeOK'
  BY <1>9 DEF Shutdown, Goto
<1>10. ASSUME NEW d \in Proc, RemoveSocket(d) PROVE TypeOK'
  BY <1>10 DEF RemoveSocket, Goto
<1>11. ASSUME NEW d \in Proc, RemovePID(d) PROVE TypeOK'
  BY <1>11 DEF RemovePID, Log, Exit, TCPClosed
<1>12. ASSUME NEW d \in Proc, StartFails(d) PROVE TypeOK'
  <2>1. faults' \in 0..Faults
    BY <1>12 DEF StartFails, Fault
  <2>2. CASE Exit(d) /\ UNCHANGED fileVars
    BY <1>12, <2>1, <2>2, ExitType, ZenonT(20) DEF StartFails
  <2>3. CASE Goto(d, "unpid") /\ sock' = None
               /\ UNCHANGED <<cancelled, lsn, tcp, swept, pidfile, cliVars, peerVars>>
    BY <1>12, <2>1, <2>3 DEF StartFails, Goto
  <2>4. CASE Goto(d, "unsock")
               /\ UNCHANGED <<cancelled, lsn, tcp, swept, fileVars, cliVars, peerVars>>
    BY <1>12, <2>1, <2>4 DEF StartFails, Goto
  <2>. QED  BY <1>12, <2>2, <2>3, <2>4, ZenonT(20) DEF StartFails
<1>13. ASSUME NEW d \in Proc, ServeFails(d) PROVE TypeOK'
  BY <1>13 DEF ServeFails, Goto, Log, Fault, TCPClosed, ClosePool
<1>14. ASSUME NEW d \in Proc, Signal(d) PROVE TypeOK'
  BY <1>14 DEF Signal
<1>15. ASSUME NEW d \in Proc, Crash(d) PROVE TypeOK'
  BY <1>15 DEF Crash, Fault, Exit, TCPClosed
<1>16. ASSUME NEW d \in Proc, CloseControl(d) PROVE TypeOK'
  BY <1>16 DEF CloseControl, CloseHandlers
<1>17. ASSUME NEW d \in Proc, CloseTransport(d) PROVE TypeOK'
  BY <1>17 DEF CloseTransport, TCPClosed, ClosePool
<1>18. ASSUME NEW k \in Client, ReadPID(k) PROVE TypeOK'
  BY <1>18 DEF ReadPID, SetCli
<1>19. ASSUME NEW k \in Client, Connect(k) PROVE TypeOK'
  <2>1. SetCli(k, "greet") \/ SetCli(k, "end")
    BY <1>19, ZenonT(20) DEF Connect
  <2>2. cli' \in [Client -> {"idle", "dial", "greet", "auth", "wait", "end"}]
    BY <2>1, ZenonT(20) DEF SetCli
  <2>3. to' \in [Client -> Proc \cup {None}]
    BY <1>19, ZenonT(20) DEF Connect
  <2>4. SetSrv(k, "queued") \/ UNCHANGED srv
    BY <1>19, ZenonT(20) DEF Connect
  <2>. QED  BY <1>19, <2>2, <2>3, <2>4, SrvType, ZenonT(20) DEF Connect, Held
<1>20. ASSUME NEW k \in Client, ReadLine(k) PROVE TypeOK'
  <2>1. Head(lines[k]) \in Line /\ Tail(lines[k]) \in Seq(Line)
    BY <1>20 DEF ReadLine
  <2>2. After(k, Head(lines[k])) \in {"auth", "wait", "end"}
    BY <2>1 DEF After, Line
  <2>3. asked[k] \o Sends(k, Head(lines[k])) \in Seq({"auth", "request"})
    BY SendsType
  <2>. QED  BY <1>20, <2>1, <2>2, <2>3, ZenonT(20) DEF ReadLine, SetCli
<1>21. ASSUME NEW k \in Client, ReadEOF(k) PROVE TypeOK'
  BY <1>21 DEF ReadEOF, SetCli
<1>22. ASSUME NEW k \in Client, Accept(k) PROVE TypeOK'
  BY <1>22 DEF Accept, SetSrv
<1>23. ASSUME NEW k \in Client, Track(k) PROVE TypeOK'
  BY <1>23 DEF Track, SetSrv, Say, Line
<1>24. ASSUME NEW k \in Client, Authenticate(k) PROVE TypeOK'
  <2>1. Tail(asked[k]) \in Seq({"auth", "request"}) /\ <<"ack">> \in Seq(Line)
    BY <1>24 DEF Authenticate, Line
  <2>2. SetSrv(k, "ready") \/ SetSrv(k, "closed")
    BY <1>24, ZenonT(20) DEF Authenticate
  <2>3. Say(k, <<"ack">>) \/ UNCHANGED lines
    BY <1>24, ZenonT(20) DEF Authenticate
  <2>. QED  BY <1>24, <2>1, <2>2, <2>3, SayType, SrvType, ZenonT(20) DEF Authenticate, Held
<1>25. ASSUME NEW k \in Client, ReadRequest(k) PROVE TypeOK'
  BY <1>25 DEF ReadRequest, SetSrv
<1>26. ASSUME NEW k \in Client, Reply(k) PROVE TypeOK'
  <2>1. SetSrv(k, "exit") \/ SetSrv(k, "ready") \/ SetSrv(k, "closed")
    BY <1>26, ZenonT(20) DEF Reply
  <2>2. (\E r : Say(k, Answer(r))) \/ UNCHANGED lines
    BY <1>26, ZenonT(20) DEF Reply
  <2>. QED  BY <1>26, <2>1, <2>2, AnswerType, SayType, SrvType, ZenonT(20) DEF Reply, Held
<1>27. ASSUME NEW k \in Client, ExitNow(k) PROVE TypeOK'
  BY <1>27, ExitType, ZenonT(20) DEF ExitNow
<1>28. ASSUME NEW k \in Client, HangUp(k) PROVE TypeOK'
  BY <1>28 DEF HangUp, SetSrv
<1>29. ASSUME NEW x \in Peer, PeerConnect(x) PROVE TypeOK'
  BY <1>29 DEF PeerConnect
<1>30. ASSUME NEW x \in Peer, TCPAccept(x) PROVE TypeOK'
  BY <1>30 DEF TCPAccept, SetConn
<1>31. ASSUME NEW x \in Peer, TCPSpawn(x) PROVE TypeOK'
  BY <1>31 DEF TCPSpawn, SetConn
<1>32. ASSUME NEW x \in Peer, Applied(x) PROVE TypeOK'
  BY <1>32 DEF Applied, SetConn, Loop
<1>33. ASSUME NEW x \in Peer, Finish(x) PROVE TypeOK'
  BY <1>33 DEF Finish, SetConn
<1>34. ASSUME NEW x \in Peer, Speak(x) PROVE TypeOK'
  <2>1. SetConn(x, "reading") \/ SetConn(x, "done") \/ SetConn(x, "last")
    BY <1>34, ZenonT(20) DEF Speak, Loop
  <2>. QED  BY <2>1, ConnType, ZenonT(20)
<1>35. ASSUME NEW x \in Peer, Gossip(x) PROVE TypeOK'
  BY <1>35 DEF Gossip, SetConn
<1>36. ASSUME NEW x \in Peer, PeerCloses(x) PROVE TypeOK'
  BY <1>36 DEF PeerCloses, SetConn
<1>37. CASE UNCHANGED vars
  BY <1>37 DEF vars
<1>. QED  BY <1>1, <1>2, <1>3, <1>4, <1>5, <1>6, <1>7, <1>8, <1>9, <1>10, <1>11, <1>12,
          <1>13, <1>14, <1>15, <1>16, <1>17, <1>18, <1>19, <1>20, <1>21, <1>22, <1>23,
          <1>24, <1>25, <1>26, <1>27, <1>28, <1>29, <1>30, <1>31, <1>32, <1>33, <1>34,
          <1>35, <1>36, <1>37, ZenonT(20) DEF Next, Main, Command, Handler, Reader

(* Every variable has its type (module Lifecycle).                         *)
THEOREM LifecycleTypes == Spec => []TypeOK
<1>1. Init => TypeOK
  BY LifecycleAssumption DEF Init, TypeOK, Stage
<1>. QED  BY <1>1, TypeInv, PTL DEF Spec

-----------------------------------------------------------------------------
(***************************************************************************)
(* The milestones of Run.                                                  *)
(***************************************************************************)
Milestone == {"up", "serve", "fail", "down", "return"}

(* Appending to logs of one, two, three and four.                          *)
LEMMA Append1 ==
  ASSUME NEW a \in Milestone, NEW w \in Milestone
  PROVE  Append(<<a>>, w) = <<a, w>>
<1> DEFINE s == Append(<<a>>, w)
           t == <<a, w>>
<1>1. /\ s \in Seq(Milestone) /\ t \in Seq(Milestone) /\ Len(s) = 2 /\ Len(t) = 2
      /\ \A i \in 1..2 : s[i] = t[i]
  OBVIOUS
<1> HIDE DEF s, t
<1>2. s = t
  BY <1>1, SeqEqual
<1>. QED  BY <1>2 DEF s, t

(* The same of a log of two milestones.                                    *)
LEMMA Append2 ==
  ASSUME NEW a \in Milestone, NEW b \in Milestone, NEW w \in Milestone
  PROVE  Append(<<a, b>>, w) = <<a, b, w>>
<1> DEFINE s == Append(<<a, b>>, w)
           t == <<a, b, w>>
<1>1. /\ s \in Seq(Milestone) /\ t \in Seq(Milestone) /\ Len(s) = 3 /\ Len(t) = 3
      /\ \A i \in 1..3 : s[i] = t[i]
  OBVIOUS
<1> HIDE DEF s, t
<1>2. s = t
  BY <1>1, SeqEqual
<1>. QED  BY <1>2 DEF s, t

(* The same of a log of three milestones.                                  *)
LEMMA Append3 ==
  ASSUME NEW a \in Milestone, NEW b \in Milestone, NEW c \in Milestone, NEW w \in Milestone
  PROVE  Append(<<a, b, c>>, w) = <<a, b, c, w>>
<1> DEFINE s == Append(<<a, b, c>>, w)
           t == <<a, b, c, w>>
<1>1. /\ s \in Seq(Milestone) /\ t \in Seq(Milestone) /\ Len(s) = 4 /\ Len(t) = 4
      /\ \A i \in 1..4 : s[i] = t[i]
  OBVIOUS
<1> HIDE DEF s, t
<1>2. s = t
  BY <1>1, SeqEqual
<1>. QED  BY <1>2 DEF s, t

(* The same of a log of four milestones.                                   *)
LEMMA Append4 ==
  ASSUME NEW a \in Milestone, NEW b \in Milestone, NEW c \in Milestone, NEW d \in Milestone,
         NEW w \in Milestone
  PROVE  Append(<<a, b, c, d>>, w) = <<a, b, c, d, w>>
<1> DEFINE s == Append(<<a, b, c, d>>, w)
           t == <<a, b, c, d, w>>
<1>1. /\ s \in Seq(Milestone) /\ t \in Seq(Milestone) /\ Len(s) = 5 /\ Len(t) = 5
      /\ \A i \in 1..5 : s[i] = t[i]
  OBVIOUS
<1> HIDE DEF s, t
<1>2. s = t
  BY <1>1, SeqEqual
<1>. QED  BY <1>2 DEF s, t

(* What the milestones, one after the other, make of a log.                *)
LEMMA Milestones ==
  /\ Append(<<>>, "up") = <<"up">> /\ Append(<<"up">>, "serve") = <<"up", "serve">>
  /\ Append(<<"up", "serve">>, "fail") \in Ran
  /\ \A l \in Ran : Append(l, "down") \in Undone
  /\ \A l \in Undone \cup {<<"up">>} : Append(l, "return") \in Returned
<1>1. Append(<<>>, "up") = <<"up">>
  OBVIOUS
<1>2. /\ Append(<<"up">>, "serve") = <<"up", "serve">>
      /\ Append(<<"up">>, "return") = <<"up", "return">>
  BY Append1, ZenonT(20) DEF Milestone
<1>3. /\ Append(<<"up", "serve">>, "fail") = <<"up", "serve", "fail">>
      /\ Append(<<"up", "serve">>, "down") = <<"up", "serve", "down">>
  BY Append2, ZenonT(20) DEF Milestone
<1>4. Append(<<"up", "serve", "fail">>, "down") = <<"up", "serve", "fail", "down">>
  BY Append3, ZenonT(20) DEF Milestone
<1>5. Append(<<"up", "serve", "down">>, "return") = <<"up", "serve", "down", "return">>
  BY Append3, ZenonT(20) DEF Milestone
<1>6. Append(<<"up", "serve", "fail", "down">>, "return")
        = <<"up", "serve", "fail", "down", "return">>
  <2>1. "up" \in Milestone /\ "serve" \in Milestone /\ "fail" \in Milestone /\ "down" \in Milestone
          /\ "return" \in Milestone
    BY DEF Milestone
  <2>. QED  BY <2>1, Append4
<1>. QED  BY <1>1, <1>2, <1>3, <1>4, <1>5, <1>6, ZenonT(20) DEF Ran, Undone, Returned

(* A log says that the milestone w was passed.                             *)
In(w, l) == \E i \in DOMAIN l : l[i] = w

(* A log of a Run that has not returned does not say "return".             *)
LEMMA GoingOn == \A l \in Going : ~In("return", l)
<1>1. ~In("return", <<>>) /\ ~In("return", <<"up">>)
  BY DEF In
<1>2. ~In("return", <<"up", "serve">>) /\ ~In("return", <<"up", "serve", "fail">>)
  BY DEF In
<1>3. ~In("return", <<"up", "serve", "down">>) /\ ~In("return", <<"up", "serve", "fail", "down">>)
  BY DEF In
<1>. QED  BY <1>1, <1>2, <1>3, ZenonT(20) DEF Going, Ran, Undone

(* Such a log is not one of a Run that has returned.                       *)
LEMMA Distinct == \A l \in Going : l \notin Returned
<1>1. In("return", <<"up", "return">>)
  BY DEF In
<1>2. In("return", <<"up", "serve", "down", "return">>)
  BY DEF In
<1>3. In("return", <<"up", "serve", "fail", "down", "return">>)
  BY DEF In
<1>. QED  BY <1>1, <1>2, <1>3, GoingOn, ZenonT(20) DEF Returned

(* The logs at every stage.                                                *)
LEMMA LogsAtStages ==
  /\ LogsAt("off") = {<<>>} /\ LogsAt("bound") = {<<>>}
  /\ LogsAt("up") = {<<"up">>} /\ LogsAt("pid") = {<<"up">>} /\ LogsAt("listen") = {<<"up">>}
  /\ LogsAt("serve") = {<<"up", "serve">>} /\ LogsAt("close") = Ran /\ LogsAt("down") = Ran
  /\ LogsAt("shut") = Undone /\ LogsAt("unsock") = Undone \cup {<<"up">>}
  /\ LogsAt("unpid") = Undone \cup {<<"up">>} /\ LogsAt("gone") = Going \cup Returned
  BY ZenonT(20) DEF LogsAt

(* A process that has not ended has not returned.                          *)
LEMMA LogsGoing == \A stage \in Stage \ {"gone"} : LogsAt(stage) \subseteq Going
  BY LogsAtStages, ZenonT(20) DEF Stage, Going, Ran

(* A process does not touch the others, and takes no file for them.        *)
Elsewhere(d) ==
  \A e \in Proc \ {d} : /\ pc'[e] = pc[e] /\ log'[e] = log[e]
                        /\ pidfile' = e => pidfile = e
                        /\ sock' = e => sock = e

ProcStep(d) ==
  \/ Start(d) \/ Main(d) \/ StartFails(d) \/ ServeFails(d) \/ Signal(d) \/ Crash(d)
  \/ CloseControl(d) \/ CloseTransport(d)

(* A step of a process leaves the other processes alone.                   *)
LEMMA OneProcess ==
  ASSUME TypeOK, NEW d \in Proc, ProcStep(d) PROVE Elsewhere(d)
<1>1. \A stage : Goto(d, stage) => \A e \in Proc \ {d} : pc'[e] = pc[e]
  BY DEF TypeOK, Goto
<1>2. Exit(d) => \A e \in Proc \ {d} : pc'[e] = pc[e]
  BY DEF TypeOK, Exit
<1>3. \A what : Log(d, what) => \A e \in Proc \ {d} : log'[e] = log[e]
  BY DEF TypeOK, Log
<1>4. (\E stage : Goto(d, stage)) \/ Exit(d) \/ UNCHANGED pc
  BY ZenonT(20) DEF ProcStep, Start, Main, RunUp, WritePID, Listen, Sandbox, Leave, CloseWait,
                    RunDown, Shutdown, RemoveSocket, RemovePID, StartFails, ServeFails,
                    Signal, Crash, CloseControl, CloseTransport
<1>5. (\E what : Log(d, what)) \/ UNCHANGED log
  BY ZenonT(20) DEF ProcStep, Start, Main, RunUp, WritePID, Listen, Sandbox, Leave, CloseWait,
                    RunDown, Shutdown, RemoveSocket, RemovePID, StartFails, ServeFails,
                    Signal, Crash, CloseControl, CloseTransport
<1>6. pidfile' \in {d, None, pidfile} /\ sock' \in {d, None, sock}
  BY ZenonT(20) DEF ProcStep, Start, Main, RunUp, WritePID, Listen, Sandbox, Leave, CloseWait,
                    RunDown, Shutdown, RemoveSocket, RemovePID, StartFails, ServeFails,
                    Signal, Crash, CloseControl, CloseTransport, fileVars
<1>. QED  BY <1>1, <1>2, <1>3, <1>4, <1>5, <1>6, LifecycleAssumption, ZenonT(20) DEF Elsewhere

(* Up to the removal of the PID file the log alone says where Run is.      *)
LEMMA GoOn ==
  ASSUME NEW d \in Proc, NEW stage \in Stage \ {"unpid", "gone"}, pc'[d] = stage,
         log'[d] \in LogsAt(stage)
  PROVE  Logged(d)'
  BY LogsGoing, Distinct, ZenonT(20) DEF Logged

(* A process may end anywhere, and nothing undoes what it did.             *)
LEMMA GoAway ==
  ASSUME NEW d \in Proc, Logged(d), pc[d] \in Stage, pc'[d] = "gone", UNCHANGED <<log, fileVars>>
  PROVE  Logged(d)'
<1>1. log[d] \in Going \cup Returned
  BY LogsGoing, LogsAtStages, ZenonT(20) DEF Logged
<1>. QED  BY <1>1, LogsAtStages, ZenonT(20) DEF Logged, fileVars

(* Every step of a process keeps to this.                                  *)
LEMMA OwnLog ==
  ASSUME TypeOK, NEW d \in Proc, Logged(d), ProcStep(d) PROVE Logged(d)'
<1> USE LogsAtStages, GoOn
<1>1. \A stage \in Stage : Goto(d, stage) => pc'[d] = stage
  BY DEF TypeOK, Goto
<1>2. \A what : Log(d, what) => log'[d] = Append(log[d], what)
  BY DEF TypeOK, Log
<1>3. Exit(d) => pc'[d] = "gone"
  BY DEF TypeOK, Exit
<1>4. pc[d] \in Stage
  BY DEF TypeOK
<1>5. CASE Start(d)
  <2>1. CASE Goto(d, "bound")
    BY <1>1, <1>5, <2>1, ZenonT(20) DEF Start, Logged, Stage
  <2>2. CASE Goto(d, "gone")
    BY <1>1, <1>4, <1>5, <2>2, GoAway, ZenonT(20) DEF Start, Stage
  <2>. QED  BY <1>5, <2>1, <2>2, ZenonT(20) DEF Start
<1>6. CASE RunUp(d)
  <2>1. pc'[d] = "up" /\ log'[d] = Append(log[d], "up") /\ log[d] = <<>>
    BY <1>1, <1>2, <1>6, ZenonT(20) DEF RunUp, Logged, Stage
  <2>2. log'[d] = <<"up">>
    BY <2>1, Milestones, ZenonT(20)
  <2>. QED  BY <2>1, <2>2, ZenonT(20) DEF Stage
<1>7. CASE WritePID(d)
  BY <1>1, <1>7, ZenonT(20) DEF WritePID, Logged, Stage
<1>8. CASE Listen(d)
  BY <1>1, <1>8, ZenonT(20) DEF Listen, Logged, Stage
<1>9. CASE Sandbox(d)
  <2>1. pc'[d] = "serve" /\ log'[d] = Append(log[d], "serve") /\ log[d] = <<"up">>
    BY <1>1, <1>2, <1>9, ZenonT(20) DEF Sandbox, Logged, Stage
  <2>2. log'[d] = <<"up", "serve">>
    BY <2>1, Milestones, ZenonT(20)
  <2>. QED  BY <2>1, <2>2, ZenonT(20) DEF Stage
<1>10. CASE Leave(d)
  BY <1>1, <1>10, ZenonT(20) DEF Leave, Drained, Logged, Stage, Ran
<1>11. CASE ServeFails(d)
  <2>1. pc'[d] = "close" /\ log'[d] = Append(log[d], "fail") /\ log[d] = <<"up", "serve">>
    BY <1>1, <1>2, <1>11, ZenonT(20) DEF ServeFails, Logged, Stage
  <2>2. log'[d] \in Ran
    BY <2>1, Milestones, ZenonT(20)
  <2>. QED  BY <2>1, <2>2, ZenonT(20) DEF Stage
<1>12. CASE CloseWait(d)
  BY <1>1, <1>12, ZenonT(20) DEF CloseWait, Logged, Stage
<1>13. CASE RunDown(d)
  <2>1. pc'[d] = "shut" /\ log'[d] = Append(log[d], "down") /\ log[d] \in Ran
    BY <1>1, <1>2, <1>13, ZenonT(20) DEF RunDown, Logged, Stage
  <2>2. log'[d] \in Undone
    BY <2>1, Milestones, ZenonT(20)
  <2>. QED  BY <2>1, <2>2, ZenonT(20) DEF Stage
<1>14. CASE Shutdown(d)
  BY <1>1, <1>14, ZenonT(20) DEF Shutdown, Logged, Stage
<1>15. ASSUME pc'[d] = "unpid", sock' = None, log'[d] \in Undone \cup {<<"up">>} PROVE Logged(d)'
  BY <1>15, LogsGoing, Distinct, LifecycleAssumption, ZenonT(20) DEF Logged, Stage
<1>16. CASE RemoveSocket(d)
  BY <1>1, <1>15, <1>16, ZenonT(20) DEF RemoveSocket, Logged, Stage
<1>17. CASE StartFails(d)
  <2>1. CASE Exit(d) /\ UNCHANGED fileVars
    BY <1>3, <1>4, <1>17, <2>1, GoAway, ZenonT(20) DEF StartFails
  <2>2. CASE pc[d] = "pid" /\ Goto(d, "unpid") /\ sock' = None
    BY <1>1, <1>15, <1>17, <2>2, ZenonT(20) DEF StartFails, Logged, Stage
  <2>3. CASE pc[d] = "listen" /\ Goto(d, "unsock")
    BY <1>1, <1>17, <2>3, ZenonT(20) DEF StartFails, Logged, Stage
  <2>. QED  BY <1>17, <2>1, <2>2, <2>3, ZenonT(20) DEF StartFails
<1>18. CASE RemovePID(d)
  <2>1. pc'[d] = "gone" /\ log'[d] = Append(log[d], "return") /\ log[d] \in Undone \cup {<<"up">>}
    BY <1>2, <1>3, <1>18, ZenonT(20) DEF RemovePID, Logged
  <2>2. log'[d] \in Returned
    BY <2>1, Milestones, ZenonT(20)
  <2>. QED  BY <1>18, <2>1, <2>2, LifecycleAssumption, ZenonT(20) DEF RemovePID, Logged
<1>19. CASE Crash(d)
  BY <1>3, <1>4, <1>19, GoAway, ZenonT(20) DEF Crash
<1>20. CASE Signal(d) \/ CloseTransport(d)
  BY <1>20, ZenonT(20) DEF Signal, CloseTransport, Logged, fileVars
<1>21. CASE CloseControl(d)
  BY <1>21, LifecycleAssumption, ZenonT(20) DEF CloseControl, Logged
<1>. QED  BY <1>5, <1>6, <1>7, <1>8, <1>9, <1>10, <1>11, <1>12, <1>13, <1>14, <1>16, <1>17,
             <1>18, <1>19, <1>20, <1>21, ZenonT(20) DEF ProcStep, Main

(* Nor do the commands and the peers touch a log, but that a stop request  *)
(* ends a process.                                                         *)
ClientStep(k) == ReadPID(k) \/ Command(k) \/ Handler(k)
PeerStep(x) == PeerConnect(x) \/ Reader(x) \/ Speak(x) \/ Gossip(x) \/ PeerCloses(x)

(* A command or its handler leaves processes and files alone, unless it    *)
(* stops one.                                                              *)
LEMMA ClientFrame ==
  ASSUME NEW k \in Client, ClientStep(k)
  PROVE  UNCHANGED <<runVars, fileVars>> \/ ExitNow(k)
  BY ZenonT(20) DEF ClientStep, Command, Handler, ReadPID, Connect, ReadLine, ReadEOF, Accept,
                    Track, Authenticate, ReadRequest, Reply, HangUp

(* A gossip connection leaves processes, files and commands alone.         *)
LEMMA PeerFrame ==
  ASSUME NEW x \in Peer, PeerStep(x)
  PROVE  UNCHANGED <<runVars, fileVars, cliVars>>
  BY ZenonT(20) DEF PeerStep, PeerConnect, Reader, TCPAccept, TCPSpawn, Applied, Finish, Speak,
                    Gossip, PeerCloses, SetConn

(* A step is one of a process, a command, a connection, or none of these   *)
(* moves.                                                                  *)
LEMMA Steps ==
  ASSUME [Next]_vars
  PROVE  \/ \E d \in Proc : ProcStep(d)
         \/ \E k \in Client : ClientStep(k)
         \/ \E x \in Peer : PeerStep(x)
         \/ UNCHANGED <<runVars, fileVars, cliVars>>
  BY ZenonT(20) DEF Next, vars, ProcStep, ClientStep, PeerStep

(* Every step keeps the milestones and the files in line with the program  *)
(* counter.                                                                *)
LEMMA LoggedInv ==
  ASSUME TypeOK, \A d \in Proc : Logged(d), [Next]_vars, NEW e \in Proc PROVE Logged(e)'
<1>1. ASSUME UNCHANGED <<runVars, fileVars>> PROVE Logged(e)'
  BY <1>1, ZenonT(20) DEF Logged, runVars, fileVars
<1>2. ASSUME NEW d \in Proc, ProcStep(d) PROVE Logged(e)'
  <2>1. CASE d = e
    BY <1>2, <2>1, OwnLog, ZenonT(20)
  <2>2. CASE d # e
    <3>1. /\ pc'[e] = pc[e] /\ log'[e] = log[e]
          /\ pidfile' = e => pidfile = e
          /\ sock' = e => sock = e
      BY <1>2, <2>2, OneProcess, ZenonT(20) DEF Elsewhere
    <3>. QED  BY <3>1, ZenonT(20) DEF Logged
  <2>. QED  BY <2>1, <2>2
<1>3. ASSUME NEW k \in Client, ExitNow(k) PROVE Logged(e)'
  <2>1. CASE to[k] = e
    <3>1. pc'[e] = "gone" /\ pc[e] \in Stage
      BY <1>3, <2>1 DEF ExitNow, Exit, TypeOK
    <3>. QED  BY <1>3, <3>1, GoAway, ZenonT(20) DEF ExitNow
  <2>2. CASE to[k] # e
    <3>1. pc'[e] = pc[e]
      BY <1>3, <2>2 DEF ExitNow, Exit, TypeOK
    <3>. QED  BY <1>3, <3>1, ZenonT(20) DEF ExitNow, Logged, fileVars
  <2>. QED  BY <2>1, <2>2
<1>. QED  BY <1>1, <1>2, <1>3, Steps, ClientFrame, PeerFrame, ZenonT(20)

-----------------------------------------------------------------------------
(***************************************************************************)
(* The control connections.                                                *)
(***************************************************************************)
(* A failure of Accept stays in the log.                                   *)
LEMMA FailKept ==
  ASSUME TypeOK, NEW d \in Proc, (\E what \in Milestone : Log(d, what)) \/ UNCHANGED log,
         NEW e \in Proc, Has(e, "fail")
  PROVE  Has(e, "fail")'
<1>1. CASE UNCHANGED log
  BY <1>1 DEF Has
<1>2. CASE \E what \in Milestone : Log(d, what)
  <2>1. PICK what \in Milestone : Log(d, what)
    BY <1>2
  <2>2. CASE e # d
    <3>1. log'[e] = log[e]
      BY <2>1, <2>2 DEF TypeOK, Log
    <3>. QED  BY <3>1 DEF Has
  <2>3. CASE e = d
    <3>1. log[d] \in Seq(Milestone) /\ log'[d] = Append(log[d], what)
      BY <2>1 DEF TypeOK, Log, Milestone
    <3>2. \A i \in DOMAIN log[d] : i \in DOMAIN log'[d] /\ log'[d][i] = log[d][i]
      BY <3>1
    <3>. QED  BY <2>3, <3>2 DEF Has
  <2>. QED  BY <2>2, <2>3
<1>. QED  BY <1>1, <1>2

(* A connection that the server drops, or that it does not touch while the *)
(* daemon goes on serving.                                                 *)
LEMMA Dropped ==
  ASSUME NEW k \in Client, Connected(k), cli'[k] = cli[k], to'[k] = to[k], srv'[k] = "closed",
         srv[k] # "none"
  PROVE  Connected(k)'
  BY ZenonT(20) DEF Connected, Held

(* A connection is as before when its daemon goes on serving or has        *)
(* failed.                                                                 *)
LEMMA Untouched ==
  ASSUME NEW k \in Client, Connected(k), cli'[k] = cli[k], to'[k] = to[k], cookie'[k] = cookie[k],
         srv'[k] = srv[k],
         srv[k] \in Held /\ pc[to[k]] = "serve" => pc'[to[k]] = "serve" \/ Has(to[k], "fail")',
         srv[k] \in Held /\ Has(to[k], "fail") => Has(to[k], "fail")'
  PROVE  Connected(k)'
  BY ZenonT(20) DEF Connected, Held

(* The end of a process closes its connections.                            *)
LEMMA ExitConnected ==
  ASSUME TypeOK, NEW k \in Client, Connected(k), NEW d \in Proc, Exit(d),
         \A e \in Proc : Has(e, "fail") => Has(e, "fail")'
  PROVE  Connected(k)'
<1>1. UNCHANGED <<cli, cookie, to>> /\ srv'[k] = IF to[k] = d THEN "closed" ELSE srv[k]
  BY DEF Exit
<1>2. CASE to[k] # d
  <2>1. to[k] \in Proc => pc'[to[k]] = pc[to[k]]
    BY <1>2 DEF TypeOK, Exit
  <2>. QED  BY <1>1, <1>2, <2>1, Untouched, ZenonT(20) DEF Connected, Held
<1>3. CASE to[k] = d
  <2>1. srv[k] # "none"
    BY <1>3, LifecycleAssumption, ZenonT(20) DEF Connected
  <2>. QED  BY <1>1, <1>3, <2>1, Dropped, ZenonT(20)
<1>. QED  BY <1>2, <1>3

(* Serve lets go of no connection: it returns when there is none, or fails.*)
LEMMA ProcConnected ==
  ASSUME TypeOK, NEW k \in Client, Connected(k), NEW d \in Proc, ProcStep(d)
  PROVE  Connected(k)'
<1>1. (\E what \in Milestone : Log(d, what)) \/ UNCHANGED log
  BY ZenonT(20) DEF ProcStep, Start, Main, RunUp, WritePID, Listen, Sandbox, Leave, CloseWait,
                    RunDown, Shutdown, RemoveSocket, RemovePID, StartFails, ServeFails,
                    Signal, Crash, CloseControl, CloseTransport, Milestone
<1>2. \A e \in Proc : Has(e, "fail") => Has(e, "fail")'
  BY <1>1, FailKept, ZenonT(20)
<1>3. CASE Exit(d)
  BY <1>2, <1>3, ExitConnected, ZenonT(20)
<1>4. CASE UNCHANGED <<pc, cliVars>>
  <2>1. srv[k] \in Held => to[k] \in Proc
    BY ZenonT(20) DEF Connected, Held
  <2>. QED  BY <1>2, <1>4, <2>1, Untouched, ZenonT(20) DEF cliVars
<1>5. CASE pc[d] # "serve" /\ (\E stage : Goto(d, stage)) /\ UNCHANGED cliVars
  <2>1. \A e \in Proc : pc[e] = "serve" => pc'[e] = "serve"
    BY <1>5 DEF TypeOK, Goto
  <2>. QED  BY <1>2, <1>5, <2>1, Untouched, ZenonT(20) DEF cliVars, Connected, Held
<1>6. CASE Leave(d)
  <2>1. ~(to[k] = d /\ srv[k] \in Held)
    BY <1>6, ZenonT(20) DEF Leave, Drained, Handled, ClientsOf, Held
  <2>2. \A e \in Proc \ {d} : pc'[e] = pc[e]
    BY <1>6 DEF Leave, Goto, TypeOK
  <2>. QED  BY <1>2, <1>6, <2>1, <2>2, Untouched, ZenonT(20) DEF Leave, cliVars, Connected, Held
<1>7. CASE ServeFails(d)
  <2>1. Has(d, "fail")'
    <3>1. log[d] \in Seq(Milestone) /\ log'[d] = Append(log[d], "fail")
      BY <1>7 DEF ServeFails, Log, TypeOK, Milestone
    <3>2. Len(log[d]) + 1 \in DOMAIN log'[d] /\ log'[d][Len(log[d]) + 1] = "fail"
      BY <3>1
    <3>. QED  BY <3>2 DEF Has
  <2>2. \A e \in Proc \ {d} : pc'[e] = pc[e]
    BY <1>7 DEF ServeFails, Goto, TypeOK
  <2>. QED  BY <1>2, <1>7, <2>1, <2>2, Untouched, ZenonT(20)
                DEF ServeFails, cliVars, Connected, Held
<1>8. CASE CloseControl(d)
  <2>1. UNCHANGED <<pc, cli, to, cookie>> /\ srv'[k] = CloseHandlers(d)[k]
    BY <1>8, ZenonT(20) DEF CloseControl
  <2>2. \/ srv'[k] = srv[k]
        \/ srv[k] \in {"queued", "auth", "ready"} /\ srv'[k] = "closed"
        \/ srv[k] = "busy" /\ srv'[k] = "orphan"
    BY <2>1 DEF CloseHandlers
  <2>3. CASE srv'[k] = srv[k]
    BY <1>2, <2>1, <2>3, Untouched, ZenonT(20) DEF Connected, Held
  <2>4. CASE srv[k] \in {"queued", "auth", "ready"} /\ srv'[k] = "closed"
    BY <2>1, <2>4, Dropped, ZenonT(20)
  <2>5. CASE srv[k] = "busy" /\ srv'[k] = "orphan"
    BY <1>2, <2>1, <2>5, ZenonT(20) DEF Connected, Held
  <2>. QED  BY <2>2, <2>3, <2>4, <2>5, ZenonT(20)
<1>9. CASE Start(d)
  BY <1>5, <1>9, ZenonT(20) DEF Start
<1>10. CASE StartFails(d)
  BY <1>3, <1>5, <1>10, ZenonT(20) DEF StartFails
<1>11. CASE RunUp(d) \/ WritePID(d) \/ Listen(d) \/ Sandbox(d) \/ CloseWait(d) \/ RunDown(d)
               \/ Shutdown(d) \/ RemoveSocket(d)
  BY <1>5, <1>11, ZenonT(20) DEF RunUp, WritePID, Listen, Sandbox, CloseWait, RunDown, Shutdown,
                                 RemoveSocket
<1>. QED  BY <1>3, <1>4, <1>6, <1>7, <1>8, <1>9, <1>10, <1>11, ZenonT(20)
          DEF ProcStep, Main, RemovePID, Crash, Signal, CloseTransport

(* A handler lets in who shows the cookie of its process.                  *)
LEMMA OwnConnected ==
  ASSUME TypeOK, NEW k \in Client, Connected(k), ClientStep(k), ~ExitNow(k)
  PROVE  Connected(k)'
<1>1. UNCHANGED <<pc, log>> /\ \A d : Has(d, "fail")' = Has(d, "fail")
  BY ClientFrame, ZenonT(20) DEF runVars, Has
<1>2. \A stage : SetCli(k, stage) => cli'[k] = stage
  BY DEF SetCli, TypeOK
<1>3. \A stage : SetSrv(k, stage) => srv'[k] = stage
  BY DEF SetSrv, TypeOK
<1>. USE <1>1 DEF Connected, Held
<1>4. CASE ReadPID(k)
  BY <1>2, <1>4, ZenonT(20) DEF ReadPID
<1>5. CASE Connect(k)
  <2>1. CASE sock \in lsn
    <3>1. to'[k] = sock /\ sock \in Proc
      BY <1>5, <2>1 DEF Connect, TypeOK
    <3>. QED  BY <1>2, <1>3, <1>5, <2>1, <3>1, ZenonT(20) DEF Connect
  <2>2. CASE sock \notin lsn
    BY <1>2, <1>5, <2>2, ZenonT(20) DEF Connect
  <2>. QED  BY <2>1, <2>2
<1>6. CASE ReadLine(k)
  <2>1. Head(lines[k]) \in Line
    BY <1>6 DEF ReadLine, TypeOK
  <2>2. cli'[k] \in {"auth", "wait", "end"}
    BY <1>2, <1>6, <2>1 DEF ReadLine, After, Line
  <2>. QED  BY <1>6, <2>2, ZenonT(20) DEF ReadLine
<1>7. CASE ReadEOF(k)
  BY <1>2, <1>7, ZenonT(20) DEF ReadEOF
<1>8. CASE Accept(k)
  BY <1>3, <1>8, ZenonT(20) DEF Accept
<1>9. CASE Track(k)
  BY <1>3, <1>9, ZenonT(20) DEF Track
<1>10. CASE Authenticate(k)
  BY <1>3, <1>10, ZenonT(20) DEF Authenticate, Authentic
<1>11. CASE ReadRequest(k)
  BY <1>3, <1>11, ZenonT(20) DEF ReadRequest
<1>12. CASE Reply(k)
  BY <1>3, <1>12, ZenonT(20) DEF Reply
<1>13. CASE HangUp(k)
  BY <1>3, <1>13, ZenonT(20) DEF HangUp
<1>. QED  BY <1>4, <1>5, <1>6, <1>7, <1>8, <1>9, <1>10, <1>11, <1>12, <1>13, ZenonT(20)
          DEF ClientStep, Command, Handler

(* What one command does is nothing to the others.                         *)
LEMMA ClientConnected ==
  ASSUME TypeOK, \A j \in Client : Connected(j), NEW k \in Client, ClientStep(k), NEW j \in Client
  PROVE  Connected(j)'
<1>1. CASE ExitNow(k)
  <2>1. Exit(to[k]) /\ to[k] \in Proc /\ UNCHANGED log
    BY <1>1, ZenonT(20) DEF ExitNow, Connected
  <2>2. \A e \in Proc : Has(e, "fail") => Has(e, "fail")'
    BY <2>1 DEF Has
  <2>. QED  BY <2>1, <2>2, ExitConnected, ZenonT(20)
<1>2. CASE ~ExitNow(k)
  <2>1. UNCHANGED <<pc, log>> /\ \A d : Has(d, "fail")' = Has(d, "fail")
    BY <1>2, ClientFrame, ZenonT(20) DEF runVars, Has
  <2>2. CASE j # k
    <3>1. cli'[j] = cli[j] /\ to'[j] = to[j] /\ cookie'[j] = cookie[j] /\ srv'[j] = srv[j]
      <4>1. \A stage : /\ SetCli(k, stage) => cli'[j] = cli[j]
                       /\ SetSrv(k, stage) => srv'[j] = srv[j]
        BY <2>2 DEF SetCli, SetSrv, TypeOK
      <4>2. \A v : to' = [to EXCEPT ![k] = v] => to'[j] = to[j]
        BY <2>2 DEF TypeOK
      <4>3. \A v : cookie' = [cookie EXCEPT ![k] = v] => cookie'[j] = cookie[j]
        BY <2>2 DEF TypeOK
      <4>. QED  BY <1>2, <4>1, <4>2, <4>3, ZenonT(20)
                DEF ClientStep, Command, Handler, ReadPID, Connect, ReadLine, ReadEOF, Accept,
                    Track, Authenticate, ReadRequest, Reply, HangUp
    <3>. QED  BY <2>1, <3>1, Untouched, ZenonT(20)
  <2>3. CASE j = k
    BY <1>2, <2>3, OwnConnected, ZenonT(20)
  <2>. QED  BY <2>2, <2>3
<1>. QED  BY <1>1, <1>2

(* Together these are inductive.                                           *)
LEMMA Inductive == LInv /\ [Next]_vars => LInv'
<1> SUFFICES ASSUME LInv, [Next]_vars PROVE LInv'
  OBVIOUS
<1>1. TypeOK'
  BY TypeInv, ZenonT(20) DEF LInv
<1>2. \A d \in Proc : Logged(d)'
  BY LoggedInv, ZenonT(20) DEF LInv
<1>3. \A k \in Client : Connected(k)'
  <2>1. ASSUME UNCHANGED <<runVars, cliVars>>, NEW k \in Client PROVE Connected(k)'
    <3>1. Connected(k)
      BY DEF LInv
    <3>. QED  BY <2>1, <3>1, ZenonT(20) DEF runVars, cliVars, Connected, Has
  <2>. QED  BY <2>1, Steps, ProcConnected, ClientConnected, PeerFrame, ZenonT(20) DEF LInv
<1>. QED  BY <1>1, <1>2, <1>3 DEF LInv

(* The inductive invariant holds at the start.                             *)
LEMMA InitInv == Init => LInv
<1> SUFFICES ASSUME Init PROVE LInv
  OBVIOUS
<1>1. TypeOK
  BY LifecycleAssumption DEF Init, TypeOK, Stage
<1>2. ASSUME NEW d \in Proc PROVE Logged(d)
  <2>1. log[d] = <<>> /\ pc[d] = "off" /\ pidfile # d /\ sock # d
    BY LifecycleAssumption DEF Init
  <2>. QED  BY <2>1, LogsAtStages, ZenonT(20) DEF Logged
<1>3. ASSUME NEW k \in Client PROVE Connected(k)
  <2>1. srv[k] = "none" /\ to[k] = None
    BY DEF Init
  <2>. QED  BY <2>1, ZenonT(20) DEF Connected, Held
<1>. QED  BY <1>1, <1>2, <1>3 DEF LInv

(* The inductive invariant holds always.                                   *)
LEMMA LInvHolds == Spec => []LInv
  BY InitInv, Inductive, PTL DEF Spec

(* Serve has waited for every handler before gsnet-down runs, also for     *)
(* those accepted while the listener was being closed (control.Serve,      *)
(* Daemon.Run).                                                            *)
THEOREM QuiescedHolds == Spec => []Quiesced
<1>1. LInv => Quiesced
  <2> SUFFICES ASSUME LInv, NEW d \in Proc, pc[d] \in {"down", "shut", "unsock"}, ~Has(d, "fail"),
                      NEW k \in Handled(d)
               PROVE  FALSE
    BY DEF Quiesced
  <2>1. k \in Client /\ to[k] = d /\ srv[k] \in Held
    BY DEF Handled, ClientsOf, Held
  <2>2. Connected(k)
    BY <2>1 DEF LInv
  <2>. QED  BY <2>1, <2>2 DEF Connected
<1>. QED  BY <1>1, LInvHolds, PTL

(* A request is only executed by the daemon whose PID file the command has *)
(* read, however many processes come and go in between (control.handle,    *)
(* dialControl).                                                           *)
THEOREM RightDaemonHolds == Spec => []RightDaemon
<1>1. LInv => RightDaemon
  BY ZenonT(20) DEF LInv, Connected, RightDaemon
<1>. QED  BY <1>1, LInvHolds, PTL

(* A Run that returns leaves no PID file and no socket of its own, and if  *)
(* it served, gsnet-down has run exactly once since (the defers of         *)
(* Daemon.Run).                                                            *)
THEOREM TidyExitHolds == Spec => []TidyExit
<1>1. LInv => TidyExit
  <2> SUFFICES ASSUME LInv, NEW d \in Proc, Has(d, "return")
               PROVE  /\ pidfile # d /\ sock # d
                      /\ Has(d, "serve") => log[d] \in {<<"up", "serve", "down", "return">>,
                                                        <<"up", "serve", "fail", "down", "return">>}
    BY DEF TidyExit
  <2>1. Logged(d) /\ pc[d] \in Stage
    BY DEF LInv, TypeOK
  <2>2. log[d] \notin Going
    BY GoingOn DEF Has, In
  <2>3. log[d] \in Returned
    BY <2>1, <2>2, LogsGoing, LogsAtStages, ZenonT(20) DEF Logged
  <2>4. ~In("serve", <<"up", "return">>)
    BY DEF In
  <2>5. Has(d, "serve") => log[d] # <<"up", "return">>
    BY <2>4 DEF Has, In
  <2>. QED  BY <2>1, <2>3, <2>5, ZenonT(20) DEF Logged, Returned
<1>. QED  BY <1>1, LInvHolds, PTL

-----------------------------------------------------------------------------
(***************************************************************************)
(* A daemon that is not started before its predecessor is gone.            *)
(***************************************************************************)
(* What a process does to Alone when it is the only one.                   *)
LEMMA OwnFiles ==
  ASSUME TypeOK, Alone, NEW d \in Proc, ProcStep(d), Live(d)
  PROVE  /\ pc'[d] \notin {"off", "gone", "bound", "up"} => pidfile' = d
         /\ pc'[d] \in {"listen", "serve"} /\ d \notin cancelled' => sock' = d
<1>1. \A stage \in Stage : Goto(d, stage) => pc'[d] = stage
  BY DEF TypeOK, Goto
<1>2. Exit(d) => pc'[d] = "gone"
  BY DEF TypeOK, Exit
<1>3. /\ pc[d] \notin {"off", "gone", "bound", "up"} => pidfile = d
      /\ pc[d] \in {"listen", "serve"} /\ d \notin cancelled => sock = d
  BY ZenonT(20) DEF Alone, Live
<1>4. CASE Start(d)
  BY <1>4, ZenonT(20) DEF Start, Live
<1>5. CASE RunUp(d)
  BY <1>1, <1>5, ZenonT(20) DEF RunUp, Stage
<1>6. CASE WritePID(d)
  BY <1>1, <1>6, ZenonT(20) DEF WritePID, Stage
<1>7. CASE Listen(d)
  BY <1>1, <1>3, <1>7, ZenonT(20) DEF Listen, Stage
<1>8. CASE Sandbox(d)
  BY <1>1, <1>3, <1>8, ZenonT(20) DEF Sandbox, Stage, fileVars
<1>9. CASE Leave(d) \/ ServeFails(d)
  BY <1>1, <1>3, <1>9, ZenonT(20) DEF Leave, Drained, ServeFails, Stage, fileVars
<1>10. CASE CloseWait(d) \/ RunDown(d) \/ Shutdown(d) \/ RemoveSocket(d)
  BY <1>1, <1>3, <1>10, ZenonT(20) DEF CloseWait, RunDown, Shutdown, RemoveSocket, Stage, fileVars
<1>11. CASE RemovePID(d) \/ Crash(d)
  BY <1>2, <1>11, ZenonT(20) DEF RemovePID, Crash
<1>12. CASE StartFails(d)
  BY <1>1, <1>2, <1>3, <1>12, ZenonT(20) DEF StartFails, Stage, fileVars
<1>13. CASE Signal(d) \/ CloseControl(d) \/ CloseTransport(d)
  BY <1>3, <1>13, ZenonT(20) DEF Signal, CloseControl, CloseTransport, fileVars
<1>. QED  BY <1>4, <1>5, <1>6, <1>7, <1>8, <1>9, <1>10, <1>11, <1>12, <1>13, ZenonT(20)
          DEF ProcStep, Main

(* Nobody else is there, and only Start makes a process.                   *)
LEMMA AloneInv == ASSUME ~Overlap, LInv, Alone, [Next]_vars PROVE Alone'
<1>1. CASE UNCHANGED <<runVars, fileVars>>
  BY <1>1, ZenonT(20) DEF Alone, Live, runVars, fileVars
<1>2. ASSUME NEW d \in Proc, Start(d) PROVE Alone'
  <2>1. \A e \in Proc \ {d} : pc'[e] = pc[e]
    BY <1>2, OneProcess, ZenonT(20) DEF LInv, ProcStep, Elsewhere
  <2>2. UNCHANGED <<cancelled, fileVars>> /\ (Goto(d, "bound") \/ Goto(d, "gone"))
    BY <1>2, ZenonT(20) DEF Start
  <2>3. CASE Goto(d, "gone")
    <3>1. pc'[d] = "gone"
      BY <2>3 DEF Goto, LInv, TypeOK
    <3>2. \A e \in Proc : pc'[e] # "gone" => pc'[e] = pc[e]
      BY <2>1, <3>1, ZenonT(20)
    <3>. QED  BY <2>2, <3>2, ZenonT(20) DEF Alone, Live, fileVars
  <2>4. CASE Goto(d, "bound")
    <3>1. pc'[d] = "bound"
      BY <2>4 DEF Goto, LInv, TypeOK
    <3>2. tcp = None
      <4>1. tcp # None => pc' = [pc EXCEPT ![d] = "gone"]
        BY <1>2, ZenonT(20) DEF Start, Goto
      <4>. QED  BY <4>1, <3>1 DEF LInv, TypeOK
    <3>3. \A e \in Proc \ {d} : pc'[e] \in {"off", "gone"}
      BY <1>2, <2>1, <3>2, LifecycleAssumption, ZenonT(20) DEF Start
    <3>. QED  BY <3>1, <3>3, ZenonT(20) DEF Alone, Live
  <2>. QED  BY <2>2, <2>3, <2>4
<1>3. ASSUME NEW d \in Proc, ProcStep(d), Live(d) PROVE Alone'
  <2>1. \A e \in Proc \ {d} : pc[e] \in {"off", "gone"} /\ pc'[e] = pc[e]
    BY <1>3, OneProcess, ZenonT(20) DEF LInv, Elsewhere, Alone, Live
  <2>. QED  BY <1>3, <2>1, OwnFiles, ZenonT(20) DEF Alone, Live, LInv
<1>4. ASSUME NEW d \in Proc, Exit(d), UNCHANGED fileVars PROVE Alone'
  <2>1. /\ pc'[d] = "gone"
        /\ \A e \in Proc \ {d} : pc'[e] = pc[e] /\ (e \in cancelled' <=> e \in cancelled)
    BY <1>4 DEF Exit, LInv, TypeOK
  <2>2. \A e \in Proc : pc'[e] # "gone" => pc'[e] = pc[e] /\ (e \in cancelled' <=> e \in cancelled)
    BY <2>1, ZenonT(20)
  <2>. QED  BY <1>4, <2>2, ZenonT(20) DEF Alone, Live, fileVars
<1>5. ASSUME NEW d \in Proc, ProcStep(d) PROVE Alone'
  <2>1. Has(d, "serve") => pc[d] # "off"
    <3>1. pc[d] = "off" => log[d] = <<>>
      BY LogsAtStages, ZenonT(20) DEF LInv, Logged
    <3>. QED  BY <3>1 DEF Has
  <2>2. Live(d) \/ Start(d) \/ (Exit(d) /\ UNCHANGED fileVars)
    BY <1>5, <2>1, ZenonT(20) DEF ProcStep, Main, Live, RunUp, WritePID, Listen, Sandbox, Leave,
                            Drained,
                            CloseWait, RunDown, Shutdown, RemoveSocket, RemovePID, StartFails,
                            ServeFails, Signal, Crash, CloseControl, CloseTransport, Serving
  <2>. QED  BY <1>2, <1>3, <1>4, <1>5, <2>2, ZenonT(20)
<1>6. ASSUME NEW k \in Client, ExitNow(k) PROVE Alone'
  <2>1. Exit(to[k]) /\ to[k] \in Proc /\ UNCHANGED fileVars
    BY <1>6, ZenonT(20) DEF ExitNow, LInv, Connected
  <2>. QED  BY <1>4, <2>1
<1>. QED  BY <1>1, <1>5, <1>6, Steps, ClientFrame, PeerFrame, ZenonT(20)

(* A daemon that serves can be reached, whatever its predecessors left     *)
(* behind, if none is started while another is half-way through stopping   *)
(* (control.Listen, WritePID and the defers of Daemon.Run).                *)
THEOREM ReachableHolds == ASSUME ~Overlap PROVE Spec => []ServingIsReachable
<1>1. Init => Alone
  BY DEF Init, Alone, Live
<1>2. LInv /\ Alone /\ [Next]_vars => Alone'
  BY AloneInv
<1>3. Alone => ServingIsReachable
  BY ZenonT(20) DEF Alone, Live, ServingIsReachable
<1>. QED  BY <1>1, <1>2, <1>3, LInvHolds, PTL DEF Spec
=============================================================================
