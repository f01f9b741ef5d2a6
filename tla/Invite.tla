------------------------------- MODULE Invite -------------------------------
(***************************************************************************)
(* Joining by invitation: the commands "gsnet invite" and "gsnet join"     *)
(* (cmd/gsnet), the INVITE2 requests between the join command and the      *)
(* inviter's daemon (internal/transport), and the daemon's handlers        *)
(* (internal/daemon), one goroutine per connection without a common lock.  *)
(*                                                                         *)
(* A run is one execution of the join command.  It generates its own keys, *)
(* so the run also stands for the keys.                                    *)
(***************************************************************************)
EXTENDS Naturals

CONSTANTS
  Cookie,      \* invitations
  Name,        \* node names
  InviteeOf,   \* [Cookie -> Name], the name an invitation is for
  Run,         \* executions of the join command
  UrlOf,       \* [Run -> Cookie], the invitation URL given to each
  Machine,     \* hosts the join command is run on
  On,          \* [Run -> Machine]
  NoKey,       \* no key
  Budget       \* how often each fault may happen

Fault == {"crash", "lose", "hangup", "kill", "disk"}

ASSUME InviteAssumption ==
  /\ InviteeOf \in [Cookie -> Name]
  /\ UrlOf \in [Run -> Cookie] /\ On \in [Run -> Machine]
  /\ NoKey \notin Run
  /\ Budget \in [Fault -> Nat]

(* The files the join command writes once it is accepted, in this order:   *)
(* the two private keys, gsnet.conf, hosts/<self> and hosts/<inviter>.     *)
File == {"ed25519", "wg", "conf", "self", "inviter"}

VARIABLES
  issued,     \* invitations created so far
  present,    \* invitations/<cookie> files of the inviter
  hosts,      \* the key in the inviter's hosts/<name> files
  announced,  \* Hellos the inviter has originated for invitees
  up,         \* whether the inviter's daemon runs
  jpc,        \* where each join command is
  hpc,        \* where the daemon's handler of its connection is
  reply,      \* reply on the way to it
  tree,       \* the run that wrote each file of a machine's configuration
  budget      \* faults left

vars == <<issued, present, hosts, announced, up, jpc, hpc, reply, tree, budget>>

TypeOK ==
  /\ issued \subseteq Cookie /\ present \subseteq Cookie
  /\ hosts \in [Name -> Run \cup {NoKey}]
  /\ announced \subseteq Name \X Run
  /\ up \in BOOLEAN
  /\ jpc \in [Run -> {"new", "get", "join", "joined", "failed"} \cup File]
  /\ hpc \in [Run -> {"none", "get", "read", "write", "remove", "announce"}]
  /\ reply \in [Run -> {"none", "ok", "err"}]
  /\ tree \in [Machine -> [File -> Run \cup {NoKey}]]
  /\ budget \in [Fault -> Nat]

Init ==
  /\ issued = {} /\ present = {}
  /\ hosts = [n \in Name |-> NoKey] /\ announced = {} /\ up = TRUE
  /\ jpc = [r \in Run |-> "new"] /\ hpc = [r \in Run |-> "none"]
  /\ reply = [r \in Run |-> "none"]
  /\ tree = [m \in Machine |-> [f \in File |-> NoKey]]
  /\ budget = Budget

Spend(e) == budget[e] > 0 /\ budget' = [budget EXCEPT ![e] = @ - 1]

server == <<issued, present, hosts, announced, up>>
Ended(r) == jpc[r] \in {"joined", "failed"}

-----------------------------------------------------------------------------
(* "gsnet invite <name>" writes invitations/<cookie>.                      *)
CmdInvite(c) ==
  /\ c \notin issued
  /\ issued' = issued \cup {c} /\ present' = present \cup {c}
  /\ UNCHANGED <<hosts, announced, up, jpc, hpc, reply, tree, budget>>

(* A roundtrip opens a connection, on which the daemon starts a handler;   *)
(* a daemon that is down refuses.                                          *)
Request(r, waiting, handler) ==
  IF up THEN /\ jpc' = [jpc EXCEPT ![r] = waiting]
             /\ hpc' = [hpc EXCEPT ![r] = handler]
        ELSE jpc' = [jpc EXCEPT ![r] = "failed"] /\ UNCHANGED hpc

(* "gsnet join <url>": step 1, INVITE2 GET.  Nobody runs it twice at a     *)
(* time on one machine.                                                    *)
CmdJoin(r) ==
  /\ jpc[r] = "new" /\ UrlOf[r] \in issued
  /\ \A s \in Run : s # r /\ On[s] = On[r] => jpc[s] = "new" \/ Ended(s)
  /\ Request(r, "get", "get")
  /\ UNCHANGED <<server, reply, tree, budget>>

(* The reply to GET, then step 2, INVITE2 JOIN with the new public keys.   *)
ReceiveGet(r) ==
  /\ jpc[r] = "get" /\ reply[r] # "none"
  /\ reply' = [reply EXCEPT ![r] = "none"]
  /\ IF reply[r] = "ok" THEN Request(r, "join", "read")
     ELSE jpc' = [jpc EXCEPT ![r] = "failed"] /\ UNCHANGED hpc
  /\ UNCHANGED <<server, tree, budget>>

(* The reply to JOIN, after which step 3 writes the configuration.         *)
ReceiveJoin(r) ==
  /\ jpc[r] = "join" /\ reply[r] # "none"
  /\ reply' = [reply EXCEPT ![r] = "none"]
  /\ jpc' = [jpc EXCEPT ![r] = IF reply[r] = "ok" THEN "ed25519" ELSE "failed"]
  /\ UNCHANGED <<server, hpc, tree, budget>>

(* Mutant: gsnet.conf is written before the WireGuard key.                 *)
ConfEarly(f) ==
  CASE f = "ed25519" -> "conf" [] f = "conf" -> "wg" [] f = "wg" -> "self"
    [] f = "self" -> "inviter" [] f = "inviter" -> "joined"

After(f) ==
  CASE f = "ed25519" -> "wg" [] f = "wg" -> "conf" [] f = "conf" -> "self"
    [] f = "self" -> "inviter" [] f = "inviter" -> "joined"

(* os.WriteFile: an existing file is overwritten.                          *)
WriteTree(r) ==
  /\ jpc[r] \in File
  /\ tree' = [tree EXCEPT ![On[r]][jpc[r]] = r]
  /\ jpc' = [jpc EXCEPT ![r] = After(@)]
  /\ UNCHANGED <<server, hpc, reply, budget>>

-----------------------------------------------------------------------------
(* The daemon.  A reply to a command that has hung up is lost.             *)
Reply(r, status) ==
  /\ hpc' = [hpc EXCEPT ![r] = "none"]
  /\ reply' = [reply EXCEPT ![r] = IF Ended(r) THEN "none" ELSE status]

(* handleInvite2Get and handleInviteGet: the file is read, not consumed.   *)
HandleGet(r) ==
  /\ hpc[r] = "get"
  /\ Reply(r, IF UrlOf[r] \in present THEN "ok" ELSE "err")
  /\ UNCHANGED <<server, jpc, tree, budget>>

(* Mutant: an unknown invitation is not answered.                          *)
ReadSilently(r) ==
  /\ hpc[r] = "read"
  /\ hpc' = [hpc EXCEPT ![r] = IF UrlOf[r] \in present THEN "write" ELSE "none"]
  /\ UNCHANGED <<server, jpc, reply, tree, budget>>

(* handleInviteJoin reads the invitation and compares the names; the       *)
(* command sends the name it has read there.                               *)
ReadInvitation(r) ==
  /\ hpc[r] = "read"
  /\ IF UrlOf[r] \in present
     THEN hpc' = [hpc EXCEPT ![r] = "write"] /\ UNCHANGED reply
     ELSE Reply(r, "err")
  /\ UNCHANGED <<server, jpc, tree, budget>>

(* Mutant: the file is given the name instead of the host configuration.   *)
WriteName(r) ==
  /\ hpc[r] = "write"
  /\ hosts' = [hosts EXCEPT ![InviteeOf[UrlOf[r]]] = InviteeOf[UrlOf[r]]]
  /\ hpc' = [hpc EXCEPT ![r] = "remove"]
  /\ UNCHANGED <<issued, present, announced, up, jpc, reply, tree, budget>>

(* It writes hosts/<name>, which may fail, and answers the error.          *)
WriteHost(r) ==
  /\ hpc[r] = "write"
  /\ \/ /\ hosts' = [hosts EXCEPT ![InviteeOf[UrlOf[r]]] = r]
        /\ hpc' = [hpc EXCEPT ![r] = "remove"] /\ UNCHANGED <<reply, budget>>
     \/ Spend("disk") /\ Reply(r, "err") /\ UNCHANGED hosts
  /\ UNCHANGED <<issued, present, announced, up, jpc, tree>>

(* Mutant: the invitation is left in place.                                *)
KeepInvitation(r) ==
  /\ hpc[r] = "remove"
  /\ hpc' = [hpc EXCEPT ![r] = "announce"]
  /\ UNCHANGED <<server, jpc, reply, tree, budget>>

(* It removes the invitation; that it may be gone already is not noticed.  *)
RemoveInvitation(r) ==
  /\ hpc[r] = "remove"
  /\ present' = present \ {UrlOf[r]}
  /\ hpc' = [hpc EXCEPT ![r] = "announce"]
  /\ UNCHANGED <<issued, hosts, announced, up, jpc, reply, tree, budget>>

(* It announces a Hello with the invitee's key, and replies.               *)
AnnounceJoin(r) ==
  /\ hpc[r] = "announce"
  /\ announced' = announced \cup {<<InviteeOf[UrlOf[r]], r>>}
  /\ Reply(r, "ok")
  /\ UNCHANGED <<issued, present, hosts, up, jpc, tree, budget>>

-----------------------------------------------------------------------------
(* A reply is lost with its connection; the command gets an error.         *)
LoseReply(r) ==
  /\ reply[r] # "none" /\ Spend("lose")
  /\ reply' = [reply EXCEPT ![r] = "none"]
  /\ jpc' = [jpc EXCEPT ![r] = "failed"]
  /\ UNCHANGED <<server, hpc, tree>>

(* The command's deadline passes, or it is interrupted, while the handler  *)
(* is at work.  The handler does not notice.                               *)
Hangup(r) ==
  /\ hpc[r] # "none" /\ ~Ended(r) /\ Spend("hangup")
  /\ jpc' = [jpc EXCEPT ![r] = "failed"]
  /\ UNCHANGED <<server, hpc, reply, tree>>

(* The command is killed while it writes the configuration.                *)
Kill(r) ==
  /\ jpc[r] \in File /\ Spend("kill")
  /\ jpc' = [jpc EXCEPT ![r] = "failed"]
  /\ UNCHANGED <<server, hpc, reply, tree>>

(* The daemon dies with its handlers; their peers see the reset.           *)
Crash ==
  /\ up /\ Spend("crash") /\ up' = FALSE
  /\ hpc' = [r \in Run |-> "none"]
  /\ jpc' = [r \in Run |-> IF hpc[r] # "none" THEN "failed" ELSE jpc[r]]
  /\ UNCHANGED <<issued, present, hosts, announced, reply, tree>>

Restart ==
  /\ ~up /\ up' = TRUE
  /\ UNCHANGED <<issued, present, hosts, announced, jpc, hpc, reply, tree, budget>>

-----------------------------------------------------------------------------
Command(r) == ReceiveGet(r) \/ ReceiveJoin(r) \/ WriteTree(r)
Handler(r) ==
  HandleGet(r) \/ ReadInvitation(r) \/ WriteHost(r) \/ RemoveInvitation(r) \/ AnnounceJoin(r)

Next ==
  \/ \E c \in Cookie : CmdInvite(c)
  \/ \E r \in Run : CmdJoin(r) \/ Command(r) \/ Handler(r)
  \/ \E r \in Run : LoseReply(r) \/ Hangup(r) \/ Kill(r)
  \/ Crash \/ Restart

Spec == Init /\ [][Next]_vars

(* Both processes are scheduled.                                           *)
FairSpec == Spec /\ \A r \in Run : WF_vars(Command(r)) /\ WF_vars(Handler(r))

-----------------------------------------------------------------------------
(* The command has been told that it was accepted.                         *)
Accepted(r) ==
  \/ jpc[r] \in File \cup {"joined"}
  \/ jpc[r] = "join" /\ reply[r] = "ok"

(* An invitation is good for one accepted join (handleInviteJoin consumes  *)
(* the cookie), whatever crashes, lost replies and retries came before.    *)
SingleUse ==
  \A r, s \in Run : Accepted(r) /\ Accepted(s) /\ UrlOf[r] = UrlOf[s] => r = s

(* Some command has given up while the daemon was handling its request.    *)
HungUp == budget["hangup"] < Budget["hangup"]

(* The key that the inviter's hosts/<name> holds is the accepted join's,   *)
(* so that its envelopes verify and its tunnel comes up.  A handler that   *)
(* outlives its command may still overwrite it with a key nobody has.      *)
AcceptedIsRegistered ==
  \A r \in Run : Accepted(r) /\ ~HungUp => hosts[InviteeOf[UrlOf[r]]] = r

(* A machine with a gsnet.conf has both private keys, of one run, and the  *)
(* inviter has registered them, with the same exception: a join command    *)
(* that stops half-way leaves no node that loads but cannot be verified.   *)
LoadableIsRegistered ==
  \A m \in Machine : LET r == tree[m]["conf"] IN
    r # NoKey => /\ tree[m]["ed25519"] = r /\ tree[m]["wg"] = r
                 /\ HungUp \/ hosts[InviteeOf[UrlOf[r]]] = r

(* How invitations are used.  Nothing in the code enforces any of this: a  *)
(* join command is repeated on the machine on which it was first tried, a  *)
(* name is invited once, and a machine is given one invitation.            *)
RetriedInPlace == \A r, s \in Run : UrlOf[r] = UrlOf[s] => On[r] = On[s]
InvitedOnce == \A c, d \in Cookie : InviteeOf[c] = InviteeOf[d] => c = d
JoinsOnce == \A r, s \in Run : On[r] = On[s] => UrlOf[r] = UrlOf[s]

(* Every join command ends, with or without success.                       *)
JoinEnds == \A r \in Run : jpc[r] # "new" ~> Ended(r)
=============================================================================
