----------------------------- MODULE Lifecycle -----------------------------
(***************************************************************************)
(* The life of gsnetd processes on one host and network name: start-up and *)
(* shutdown of Daemon.Run, the PID file and the control socket, the control*)
(* server with its connections, the gossip listener's connections, and the *)
(* gsnet commands that talk to the daemon.  A control cookie is fresh for  *)
(* every process, so a process stands for its cookie.                      *)
(***************************************************************************)
EXTENDS Naturals, Sequences

CONSTANTS
  Proc,      \* successive gsnetd processes
  Client,    \* invocations of the gsnet command
  Peer,      \* TCP connections other hosts open to the gossip port
  None,      \* no process
  Request,   \* what the commands ask for: see Answer
  Overlap,   \* may a daemon start while another is half-way through stopping?
  Faults     \* how many crashes and failing start-up steps may happen

ASSUME LifecycleAssumption ==
  /\ None \notin Proc /\ Overlap \in BOOLEAN /\ Faults \in Nat
  /\ Request \subseteq {"simple", "dump", "stop", "undumped"}

VARIABLES
  pc,         \* [Proc -> where Run is]
  cancelled,  \* live processes whose context is cancelled
  log,        \* [Proc -> the milestones of Run so far]
  pidfile,    \* the process the PID file names, or None
  sock,       \* the process whose socket is at the control path, or None
  lsn,        \* processes whose control listener is open
  tcp,        \* the process that holds the gossip port, or None
  swept,      \* processes whose transport has reacted to the cancellation
  cli,        \* [Client -> where the command is]
  req,        \* [Client -> its request]
  cookie,     \* [Client -> the process named by the PID file it read]
  to,         \* [Client -> the process it is connected to]
  srv,        \* [Client -> where the server is with its connection]
  asked,      \* [Client -> lines sent to the server and not read yet]
  lines,      \* [Client -> lines sent to the client and not read yet]
  host,       \* [Peer -> the process it is connected to]
  conn,       \* [Peer -> where the transport is with its connection]
  faults      \* faults left

fileVars == <<pidfile, sock>>
runVars == <<pc, cancelled, log, lsn, tcp, swept, faults>>
cliVars == <<cli, req, cookie, to, srv, asked, lines>>
peerVars == <<host, conn>>
vars == <<runVars, fileVars, cliVars, peerVars>>

Stage == {"off", "bound", "up", "pid", "listen", "serve", "close", "down",
          "shut", "unsock", "unpid", "gone"}
Line == {"greeting", "ack", "ok", "row", "end"}

TypeOK ==
  /\ pc \in [Proc -> Stage] /\ cancelled \subseteq Proc
  /\ log \in [Proc -> Seq({"up", "serve", "fail", "down", "return"})]
  /\ {pidfile, sock, tcp} \subseteq Proc \cup {None}
  /\ lsn \subseteq Proc /\ swept \subseteq Proc
  /\ cli \in [Client -> {"idle", "dial", "greet", "auth", "wait", "end"}]
  /\ req \in [Client -> Request]
  /\ cookie \in [Client -> Proc \cup {None}] /\ to \in [Client -> Proc \cup {None}]
  /\ srv \in [Client -> {"none", "queued", "accepted", "auth", "ready", "busy",
                          "orphan", "exit", "closed"}]
  /\ asked \in [Client -> Seq({"auth", "request"})]
  /\ lines \in [Client -> Seq(Line)]
  /\ host \in [Peer -> Proc \cup {None}]
  /\ conn \in [Peer -> {"none", "queued", "taken", "first", "reading", "apply",
                         "last", "done"}]
  /\ faults \in 0..Faults

Init ==
  /\ pc = [d \in Proc |-> "off"] /\ cancelled = {}
  /\ log = [d \in Proc |-> <<>>]
  /\ pidfile = None /\ sock = None /\ tcp = None /\ lsn = {} /\ swept = {}
  /\ cli = [k \in Client |-> "idle"] /\ req \in [Client -> Request]
  /\ cookie = [k \in Client |-> None] /\ to = [k \in Client |-> None]
  /\ srv = [k \in Client |-> "none"]
  /\ asked = [k \in Client |-> <<>>] /\ lines = [k \in Client |-> <<>>]
  /\ host = [x \in Peer |-> None] /\ conn = [x \in Peer |-> "none"]
  /\ faults = Faults

-----------------------------------------------------------------------------
(***************************************************************************)
(* The connections of a process.                                           *)
(***************************************************************************)
ClientsOf(d) == {k \in Client : to[k] = d}
PeersOf(d) == {x \in Peer : host[x] = d}

(* Handlers the control server's, and readers the transport's, WaitGroup   *)
(* counts.                                                                 *)
Handled(d) == {k \in ClientsOf(d) : srv[k] \in {"auth", "ready", "busy", "orphan", "exit"}}
Served(d) == {x \in PeersOf(d) : conn[x] \in {"first", "reading", "apply", "last"}}

(* The gossip listener and the pool are closed: what was not accepted is   *)
(* reset, a reader waiting for a line gets an error and one at work on an  *)
(* envelope will.  A connection that has not said GOSSIP goes on.          *)
ClosePool(d) ==
  [x \in Peer |-> CASE host[x] = d /\ conn[x] \in {"queued", "reading"} -> "done"
                    [] host[x] = d /\ conn[x] = "apply" -> "last"
                    [] OTHER -> conn[x]]
TCPClosed(d) == IF tcp = d THEN None ELSE tcp

(* The process ends: the kernel closes its listeners and connections.  A   *)
(* command still reads the lines that were sent to it.                     *)
Exit(d) ==
  /\ pc' = [pc EXCEPT ![d] = "gone"]
  /\ lsn' = lsn \ {d} /\ tcp' = TCPClosed(d)
  /\ cancelled' = cancelled \ {d} /\ swept' = swept \ {d}
  /\ srv' = [k \in Client |-> IF to[k] = d THEN "closed" ELSE srv[k]]
  /\ conn' = [x \in Peer |-> IF host[x] = d THEN "done" ELSE conn[x]]
  /\ UNCHANGED <<cli, req, cookie, to, asked, lines, host>>

Goto(d, stage) == pc' = [pc EXCEPT ![d] = stage]
Log(d, what) == log' = [log EXCEPT ![d] = Append(@, what)]

-----------------------------------------------------------------------------
(***************************************************************************)
(* Run, up to Serve.  Whatever fails makes Run return, through the defers  *)
(* registered by then.                                                     *)
(***************************************************************************)
Fault == faults > 0 /\ faults' = faults - 1

(* load() and the gossip listener.  The port is taken by one process.      *)
Start(d) ==
  /\ pc[d] = "off"
  /\ Overlap \/ \A e \in Proc : pc[e] \in {"off", "gone"} \/ tcp = e
  /\ IF tcp = None THEN tcp' = d /\ Goto(d, "bound")
                   ELSE UNCHANGED tcp /\ Goto(d, "gone")
  /\ UNCHANGED <<cancelled, log, lsn, swept, faults, fileVars, cliVars, peerVars>>

(* announceLocal, applyReconcile and the gsnet-up hook, whose errors are   *)
(* logged only.                                                            *)
RunUp(d) ==
  /\ pc[d] = "bound" /\ Goto(d, "up") /\ Log(d, "up")
  /\ UNCHANGED <<cancelled, lsn, tcp, swept, faults, fileVars, cliVars, peerVars>>

(* Mutant: a PID file that exists is kept.                                 *)
WritePIDOnce(d) ==
  /\ pc[d] = "up" /\ Goto(d, "pid")
  /\ pidfile' = IF pidfile = None THEN d ELSE pidfile
  /\ UNCHANGED <<cancelled, log, lsn, tcp, swept, faults, sock, cliVars, peerVars>>

WritePID(d) ==
  /\ pc[d] = "up" /\ Goto(d, "pid")
  /\ pidfile' = d
  /\ UNCHANGED <<cancelled, log, lsn, tcp, swept, faults, sock, cliVars, peerVars>>

(* Server.Listen: whatever is at the path is removed first.                *)
Listen(d) ==
  /\ pc[d] = "pid" /\ Goto(d, "listen")
  /\ sock' = d /\ lsn' = lsn \cup {d}
  /\ UNCHANGED <<cancelled, log, tcp, swept, faults, pidfile, cliVars, peerVars>>

(* applySandbox, and the goroutines.                                       *)
Sandbox(d) ==
  /\ pc[d] = "listen" /\ Goto(d, "serve") /\ Log(d, "serve")
  /\ UNCHANGED <<cancelled, lsn, tcp, swept, faults, fileVars, cliVars, peerVars>>

(* load, announceLocal, NewCookie or the PID file fail: nothing to undo.   *)
(* Listen fails (or its Chmod, which closes it): the PID file is removed.  *)
(* The sandbox fails: the socket is removed as well.                       *)
StartFails(d) ==
  /\ Fault
  /\ \/ /\ pc[d] \in {"off", "bound", "up"} /\ Exit(d)
        /\ UNCHANGED fileVars
     \/ /\ pc[d] = "pid" /\ Goto(d, "unpid") /\ sock' = None
        /\ UNCHANGED <<cancelled, lsn, tcp, swept, pidfile, cliVars, peerVars>>
     \/ /\ pc[d] = "listen" /\ Goto(d, "unsock")
        /\ UNCHANGED <<cancelled, lsn, tcp, swept, fileVars, cliVars, peerVars>>
  /\ UNCHANGED log

-----------------------------------------------------------------------------
(***************************************************************************)
(* Shutdown.                                                               *)
(***************************************************************************)
(* main: the first SIGINT or SIGTERM cancels the context.                  *)
Signal(d) ==
  /\ pc[d] \notin {"off", "gone"} /\ d \notin cancelled
  /\ cancelled' = cancelled \cup {d}
  /\ UNCHANGED <<pc, log, lsn, tcp, swept, faults, fileVars, cliVars, peerVars>>

(* The goroutines that Run starts before Serve are there.                  *)
Has(d, what) == \E i \in DOMAIN log[d] : log[d][i] = what
Serving(d) == Has(d, "serve") /\ pc[d] # "gone"

(* closeAllConns and the listener's queue: a handler that waits for a line *)
(* ends, one at work finishes without an audience.                         *)
CloseHandlers(d) ==
  [k \in Client |->
     CASE to[k] = d /\ srv[k] \in {"queued", "auth", "ready"} -> "closed"
       [] to[k] = d /\ srv[k] = "busy" -> "orphan"
       [] OTHER -> srv[k]]

(* The goroutine of control.Server.Serve.  Closing a UNIX listener unlinks *)
(* its path, whosever socket is there by now.                              *)
CloseControl(d) ==
  /\ d \in cancelled /\ Serving(d) /\ d \in lsn
  /\ lsn' = lsn \ {d} /\ sock' = None
  /\ srv' = CloseHandlers(d)
  /\ UNCHANGED <<pc, cancelled, log, tcp, swept, faults, pidfile,
                 cli, req, cookie, to, asked, lines, peerVars>>

(* The goroutine of transport.Server.Serve.                                *)
CloseTransport(d) ==
  /\ d \in cancelled \ swept /\ Serving(d) /\ swept' = swept \cup {d}
  /\ tcp' = TCPClosed(d) /\ conn' = ClosePool(d)
  /\ UNCHANGED <<pc, cancelled, log, lsn, faults, fileVars, cliVars, host>>

(* Mutant: Serve returns at once when its listener is closed.              *)
ServedAtOnce(d) ==
  /\ pc[d] = "serve" /\ d \notin lsn
  /\ \A k \in ClientsOf(d) : srv[k] # "accepted"

(* Serve's Accept fails because the listener is closed, and wg.Wait        *)
(* returns.                                                                *)
Drained(d) ==
  /\ pc[d] = "serve" /\ d \notin lsn
  /\ \A k \in ClientsOf(d) : srv[k] # "accepted"
  /\ Handled(d) = {}

(* Serve returns, and transport.Server.Close closes the port and the pool. *)
Leave(d) ==
  /\ Drained(d) /\ Goto(d, "close")
  /\ tcp' = TCPClosed(d) /\ conn' = ClosePool(d)
  /\ UNCHANGED <<cancelled, log, lsn, swept, faults, fileVars, cliVars, host>>

(* Accept fails for another reason: Serve returns without waiting.         *)
ServeFails(d) ==
  /\ pc[d] = "serve" /\ d \in lsn /\ Fault
  /\ \A k \in ClientsOf(d) : srv[k] # "accepted"
  /\ Goto(d, "close") /\ Log(d, "fail")
  /\ tcp' = TCPClosed(d) /\ conn' = ClosePool(d)
  /\ UNCHANGED <<cancelled, lsn, swept, fileVars, cliVars, host>>

(* Close's wg.Wait.                                                        *)
CloseWait(d) ==
  /\ pc[d] = "close" /\ Served(d) = {} /\ Goto(d, "down")
  /\ UNCHANGED <<cancelled, log, lsn, tcp, swept, faults, fileVars, cliVars, peerVars>>

RunDown(d) ==
  /\ pc[d] = "down" /\ Goto(d, "shut") /\ Log(d, "down")
  /\ UNCHANGED <<cancelled, lsn, tcp, swept, faults, fileVars, cliVars, peerVars>>

(* Reconciler.Shutdown; Run returns.                                       *)
Shutdown(d) ==
  /\ pc[d] = "shut" /\ Goto(d, "unsock")
  /\ UNCHANGED <<cancelled, log, lsn, tcp, swept, faults, fileVars, cliVars, peerVars>>

(* The defers, last registered first: cancel and remove the socket, ...    *)
RemoveSocket(d) ==
  /\ pc[d] = "unsock" /\ Goto(d, "unpid")
  /\ sock' = None /\ cancelled' = cancelled \cup {d}
  /\ UNCHANGED <<log, lsn, tcp, swept, faults, pidfile, cliVars, peerVars>>

(* Mutant: the PID file stays.                                             *)
KeepPID(d) ==
  /\ pc[d] = "unpid" /\ Log(d, "return") /\ Exit(d)
  /\ UNCHANGED <<faults, fileVars>>

(* ... then remove the PID file.  main returns.                            *)
RemovePID(d) ==
  /\ pc[d] = "unpid" /\ pidfile' = None /\ Log(d, "return") /\ Exit(d)
  /\ UNCHANGED <<faults, sock>>

(* The process is killed.                                                  *)
Crash(d) ==
  /\ pc[d] \notin {"off", "gone"} /\ Fault /\ Exit(d)
  /\ UNCHANGED <<log, fileVars>>

-----------------------------------------------------------------------------
(***************************************************************************)
(* The control server.                                                     *)
(***************************************************************************)
SetSrv(k, stage) == srv' = [srv EXCEPT ![k] = stage]
Say(k, ls) == lines' = [lines EXCEPT ![k] = @ \o ls]

(* Accept returns a connection; one at a time.                             *)
Accept(k) ==
  LET d == to[k]
  IN /\ srv[k] = "queued" /\ pc[d] = "serve" /\ d \in lsn
     /\ \A j \in ClientsOf(d) : srv[j] # "accepted"
     /\ SetSrv(k, "accepted")
     /\ UNCHANGED <<runVars, fileVars, peerVars, cli, req, cookie, to, asked, lines>>

(* It is tracked, counted and greeted, even if everything was closed since.*)
Track(k) ==
  /\ srv[k] = "accepted" /\ SetSrv(k, "auth") /\ Say(k, <<"greeting">>)
  /\ UNCHANGED <<runVars, fileVars, peerVars, cli, req, cookie, to, asked>>

(* Mutant: any cookie will do.                                             *)
AuthenticateAny(k) == TRUE

Authentic(k) == cookie[k] = to[k]

Authenticate(k) ==
  /\ srv[k] = "auth" /\ asked[k] # <<>>
  /\ asked' = [asked EXCEPT ![k] = Tail(@)]
  /\ IF Authentic(k) THEN SetSrv(k, "ready") /\ Say(k, <<"ack">>)
                     ELSE SetSrv(k, "closed") /\ UNCHANGED lines
  /\ UNCHANGED <<runVars, fileVars, peerVars, cli, req, cookie, to>>

ReadRequest(k) ==
  /\ srv[k] = "ready" /\ asked[k] # <<>> /\ SetSrv(k, "busy")
  /\ asked' = [asked EXCEPT ![k] = Tail(@)]
  /\ UNCHANGED <<runVars, fileVars, peerVars, cli, req, cookie, to, lines>>

(* Mutant: a dump without its last line.                                   *)
Unterminated(r) == IF r = "dump" THEN <<"row">> ELSE <<"ok">>

(* controlHandler: reload, purge and stop answer with one line, the dumps  *)
(* of nodes, edges, subnets and traffic with rows and an end mark; the     *)
(* other dumps ("undumped") are answered like any unknown request.         *)
Answer(r) == IF r = "dump" THEN <<"row", "end">> ELSE <<"ok">>

Reply(k) ==
  /\ \/ srv[k] = "busy" /\ req[k] = "stop" /\ SetSrv(k, "exit") /\ Say(k, Answer("stop"))
     \/ srv[k] = "busy" /\ req[k] # "stop" /\ SetSrv(k, "ready") /\ Say(k, Answer(req[k]))
     \/ srv[k] = "orphan" /\ req[k] = "stop" /\ SetSrv(k, "exit") /\ UNCHANGED lines
     \/ srv[k] = "orphan" /\ req[k] # "stop" /\ SetSrv(k, "closed") /\ UNCHANGED lines
  /\ UNCHANGED <<runVars, fileVars, peerVars, cli, req, cookie, to, asked>>

(* os.Exit(0) of a stop request.                                           *)
ExitNow(k) ==
  /\ srv[k] = "exit" /\ Exit(to[k])
  /\ UNCHANGED <<log, faults, fileVars>>

(* The handler reads the end of a connection whose command has finished.   *)
HangUp(k) ==
  /\ srv[k] \in {"auth", "ready"} /\ asked[k] = <<>> /\ cli[k] = "end"
  /\ SetSrv(k, "closed")
  /\ UNCHANGED <<runVars, fileVars, peerVars, cli, req, cookie, to, asked, lines>>

-----------------------------------------------------------------------------
(***************************************************************************)
(* The gsnet command: dialControl, then cmdSimple or runControlDump.       *)
(***************************************************************************)
SetCli(k, stage) == cli' = [cli EXCEPT ![k] = stage]

ReadPID(k) ==
  /\ cli[k] = "idle"
  /\ cookie' = [cookie EXCEPT ![k] = pidfile]
  /\ SetCli(k, IF pidfile = None THEN "end" ELSE "dial")
  /\ UNCHANGED <<runVars, fileVars, peerVars, req, to, srv, asked, lines>>

Connect(k) ==
  /\ cli[k] = "dial"
  /\ IF sock \in lsn THEN /\ to' = [to EXCEPT ![k] = sock]
                          /\ SetCli(k, "greet") /\ SetSrv(k, "queued")
                     ELSE SetCli(k, "end") /\ UNCHANGED <<to, srv>>
  /\ UNCHANGED <<runVars, fileVars, peerVars, req, cookie, asked, lines>>

(* Mutant: the cookie is sent without the words around it.                 *)
BareCookie(k, l) ==
  CASE l = "greeting" -> <<cookie[k]>> [] l = "ack" -> <<"request">> [] OTHER -> <<>>

(* What a line read makes the command send, and where it leaves it.  A dump*)
(* ends with its end mark alone.                                           *)
Sends(k, l) == CASE l = "greeting" -> <<"auth">> [] l = "ack" -> <<"request">> [] OTHER -> <<>>
After(k, l) ==
  CASE l = "greeting" -> "auth"
    [] l = "ack" -> "wait"
    [] l = "end" -> "end"
    [] l = "ok" -> IF req[k] = "undumped" THEN "wait" ELSE "end"
    [] l = "row" -> "wait"

ReadLine(k) ==
  /\ cli[k] \in {"greet", "auth", "wait"} /\ lines[k] # <<>>
  /\ lines' = [lines EXCEPT ![k] = Tail(@)]
  /\ asked' = [asked EXCEPT ![k] = @ \o Sends(k, Head(lines[k]))]
  /\ SetCli(k, After(k, Head(lines[k])))
  /\ UNCHANGED <<runVars, fileVars, peerVars, req, cookie, to, srv>>

ReadEOF(k) ==
  /\ cli[k] \in {"greet", "auth", "wait"} /\ lines[k] = <<>> /\ srv[k] = "closed"
  /\ SetCli(k, "end")
  /\ UNCHANGED <<runVars, fileVars, peerVars, req, cookie, to, srv, asked, lines>>

-----------------------------------------------------------------------------
(***************************************************************************)
(* The transport's inbound connections.                                    *)
(***************************************************************************)
SetConn(x, stage) ==
  /\ conn' = [conn EXCEPT ![x] = stage]
  /\ UNCHANGED <<runVars, fileVars, cliVars, host>>

PeerConnect(x) ==
  /\ conn[x] = "none" /\ tcp # None
  /\ host' = [host EXCEPT ![x] = tcp] /\ conn' = [conn EXCEPT ![x] = "queued"]
  /\ UNCHANGED <<runVars, fileVars, cliVars>>

(* Serve: Accept, and then wg.Add and the goroutine.                       *)
TCPAccept(x) ==
  /\ conn[x] = "queued" /\ Serving(host[x]) /\ tcp = host[x]
  /\ \A y \in PeersOf(host[x]) : conn[y] # "taken"
  /\ SetConn(x, "taken")
TCPSpawn(x) == conn[x] = "taken" /\ SetConn(x, "first")

(* Mutant: a reader looks at its connection only.                          *)
ReadOn(x) == "reading"

(* handleGossip's loop looks at the context before it reads.               *)
Loop(x) == IF host[x] \in cancelled THEN "done" ELSE "reading"

(* The first line: GOSSIP puts the connection into the pool; an invitation *)
(* is the last thing its connection carries.                               *)
Speak(x) == conn[x] = "first" /\ (SetConn(x, Loop(x)) \/ SetConn(x, "last"))
Gossip(x) == conn[x] = "reading" /\ SetConn(x, "apply")
Applied(x) == conn[x] = "apply" /\ SetConn(x, Loop(x))
Finish(x) == conn[x] = "last" /\ SetConn(x, "done")
PeerCloses(x) == conn[x] \in {"first", "reading"} /\ SetConn(x, "done")

-----------------------------------------------------------------------------
Main(d) ==
  \/ RunUp(d) \/ WritePID(d) \/ Listen(d) \/ Sandbox(d) \/ Leave(d) \/ CloseWait(d)
  \/ RunDown(d) \/ Shutdown(d) \/ RemoveSocket(d) \/ RemovePID(d)

Handler(k) ==
  Accept(k) \/ Track(k) \/ Authenticate(k) \/ ReadRequest(k) \/ Reply(k) \/ ExitNow(k) \/ HangUp(k)
Command(k) == Connect(k) \/ ReadLine(k) \/ ReadEOF(k)
Reader(x) == TCPAccept(x) \/ TCPSpawn(x) \/ Applied(x) \/ Finish(x)
First(x) == Speak(x) \/ (conn[x] = "first" /\ PeerCloses(x))

Next ==
  \/ \E d \in Proc : \/ Start(d) \/ Main(d) \/ StartFails(d) \/ ServeFails(d)
                     \/ Signal(d) \/ Crash(d)
                     \/ CloseControl(d) \/ CloseTransport(d)
  \/ \E k \in Client : ReadPID(k) \/ Command(k) \/ Handler(k)
  \/ \E x \in Peer : PeerConnect(x) \/ Reader(x) \/ Speak(x) \/ Gossip(x) \/ PeerCloses(x)

Spec == Init /\ [][Next]_vars

(* Every goroutine and command in progress goes on.  A peer that has       *)
(* connected says its first line or goes away (a dead one is detected by   *)
(* TCP's keep-alive); nothing makes it gossip, or close the connection.    *)
Fairness ==
  /\ \A d \in Proc : WF_vars(Main(d)) /\ WF_vars(CloseControl(d)) /\ WF_vars(CloseTransport(d))
  /\ \A k \in Client : WF_vars(Handler(k)) /\ WF_vars(Command(k))
  /\ \A x \in Peer : WF_vars(Reader(x)) /\ WF_vars(First(x))

FairSpec == Spec /\ Fairness

-----------------------------------------------------------------------------
(* A daemon that serves can be reached: the PID file holds its cookie and  *)
(* the control path its socket, whatever its predecessors left behind when *)
(* they were killed, failed half-way or were told to stop.                 *)
ServingIsReachable ==
  \A d \in Proc : pc[d] = "serve" /\ d \notin cancelled => pidfile = d /\ sock = d

(* No request is at work in a daemon that runs gsnet-down or is past it:   *)
(* Serve has waited for every handler, also for those of connections that  *)
(* were accepted while the listener was being closed.  (Not after an Accept*)
(* that failed on its own account.)                                        *)
Quiesced ==
  \A d \in Proc : pc[d] \in {"down", "shut", "unsock"} /\ ~Has(d, "fail") => Handled(d) = {}

(* A request is only ever executed by the daemon whose PID file the command*)
(* read, though the socket may meanwhile be its successor's.               *)
RightDaemon ==
  \A k \in Client : srv[k] \in {"ready", "busy", "orphan", "exit"} => cookie[k] = to[k]

(* A daemon that returns from Run leaves no PID file and no socket, and if *)
(* it served at all, gsnet-down has run once since.                        *)
TidyExit ==
  \A d \in Proc : Has(d, "return") =>
    /\ pidfile # d /\ sock # d
    /\ Has(d, "serve") => log[d] \in {<<"up", "serve", "down", "return">>,
                                      <<"up", "serve", "fail", "down", "return">>}

(* Every command ends, whatever happens to the daemon meanwhile.  (But an  *)
(* Accept that fails on its own account leaves a listener that nobody      *)
(* serves, until the last gossip connection is gone.)                      *)
CommandEnds ==
  \A k \in Client : cli[k] = "dial" ~> cli[k] = "end" \/ \E d \in Proc : Has(d, "fail")

(* A daemon told to stop ends, whatever its connections are doing.         *)
StopCompletes == \A d \in Proc : d \in cancelled ~> pc[d] = "gone"
=============================================================================
