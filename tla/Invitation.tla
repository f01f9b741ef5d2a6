----------------------------- MODULE Invitation -----------------------------
(***************************************************************************)
(* What an invitation says: the URL and the file that "gsnet invite" makes *)
(* from the inviter's tree, and the tree that "gsnet join" writes from     *)
(* them (internal/invite, cmd/gsnet).  The exchange itself, in which the   *)
(* file travels, is module Invite.                                         *)
(***************************************************************************)
EXTENDS Config

CONSTANTS Netname, Invitee

(* The types Block and File.  Nothing reads the hints Ifconfig and Route.  *)
Value == Proc \cup STRING
HostBlock == [name : Value, address : Value, connectTo : Seq(Value), other : Seq(Line)]
File == [netname : Value, invitee : HostBlock, hosts : Seq(HostBlock)]

(* cmdInvite validates the name it is given.  An error and a missing file  *)
(* are no values of their own.                                             *)
ASSUME InvitationAssumption ==
  /\ Invitee \in Node
  /\ Netname \in STRING /\ (Netname # "" => Trim(Netname) # "")
  /\ Bad \notin Seq(Line) \cup Seq([path : Path, text : Seq(Line) \cup Seq(STRING)]) \cup File
  /\ NoFile \notin Seq(Line) \cup {<<"joiner">>}
  /\ "joiner" \notin DOMAIN Padded
  /\ {"joiner", "Address", "ConnectTo", "Netname"} \subseteq STRING

(* The keys of a block that are fields of their own.                       *)
Field == {"Name", "Address", "ConnectTo", "Ifconfig", "Route", "Netname"}

-----------------------------------------------------------------------------
(* File.Render: a block for the invitee, with the netname, and one for     *)
(* each host behind a separator, which starts with a "#".                  *)
WriteBlock(b, netname) ==
  LET Optional(k, v) == IF v = "" THEN <<>> ELSE <<Entry(k, v)>>
  IN  <<Entry("Name", b.name)>> \o Optional("Netname", netname)
        \o [i \in DOMAIN b.connectTo |-> Entry("ConnectTo", b.connectTo[i])]
        \o Optional("Address", b.address) \o b.other

RenderFile(file) ==
  LET To[n \in 0..Len(file.hosts)] ==
        IF n = 0 THEN WriteBlock(file.invitee, file.netname)
        ELSE To[n - 1] \o <<Comment>> \o WriteBlock(file.hosts[n], "")
  IN  To[Len(file.hosts)]

(* ParseFile.  A separator, or a Name line, ends the block before it.      *)
Flush(s) ==
  IF s.current = <<>> THEN s ELSE [blocks |-> Append(s.blocks, s.current), current |-> <<>>]

ParseLine(s, l) ==
  LET add(t) == [t EXCEPT !.current = Append(@, l)]
  IN  IF l = Comment THEN Flush(s)
      ELSE IF l.key = "Name" THEN add(Flush(s))
      ELSE add(s)

ParseLoop(text) ==
  LET After[i \in 0..Len(text)] ==
        IF i = 0 THEN [blocks |-> <<>>, current |-> <<>>]
        ELSE ParseLine(After[i - 1], text[i])
  IN  After[Len(text)]

LastOf(values) == IF values = <<>> THEN "" ELSE values[Len(values)]

BlockFromEntries(es) ==
  [name |-> LastOf(GetAll(es, "Name")), address |-> LastOf(GetAll(es, "Address")),
   connectTo |-> GetAll(es, "ConnectTo"),
   other |-> Filter(es, LAMBDA e : e.key \notin Field)]

ParseFile(text) ==
  LET s == Flush(ParseLoop(text))
      entries == [i \in DOMAIN s.blocks |-> Parse(s.blocks[i])]
      blocks == [i \in DOMAIN entries |-> BlockFromEntries(entries[i])]
  IN  IF blocks = <<>> \/ Bad \in Range(entries) THEN Bad
      ELSE IF \E i \in DOMAIN blocks : blocks[i].name = "" THEN Bad
      ELSE [netname |-> GetFirst(entries[1], "Netname"), invitee |-> blocks[1], hosts |-> Tail(blocks)]

-----------------------------------------------------------------------------
(* "gsnet invite": a URL with the address, the port and the fingerprint of *)
(* the private key, and a file with the inviter's host file in a block.  A *)
(* Port that is not a number leaves the default.                           *)
CmdInvite(d) ==
  LET entries == LoadDirectory(d["gsnet.conf"])
      self == GetFirst(entries, "Name")
      port == GetFirst(entries, "Port")
      addr == GetFirst(entries, "Address")
      host == IF d[self] = NoFile \/ Parse(d[self]) = Bad THEN <<>> ELSE Parse(d[self])
      Blk(n, a, to, es) == [name |-> n, address |-> a, connectTo |-> to, other |-> es]
  IN  IF entries = Bad \/ self = "" \/ ~ParsesAsKey(d["ed25519_key.priv"]) THEN Bad
      ELSE [url |-> [host |-> addr, port |-> IF Valid(port) THEN port ELSE "51820",
                     key |-> d["ed25519_key.priv"][1]],
            text |-> RenderFile([netname |-> Netname,
                                 invitee |-> Blk(Invitee, "", <<self>>, <<>>),
                                 hosts |-> <<Blk(self, addr, <<>>, host)>>])]

(* ParseURL wants a host and a port in range.                              *)
UsableURL(url) == url.host # "" /\ url.port # "0"

(* "gsnet join", run with p's keys: the first host block has to show the   *)
(* key of the URL.  It writes the keys, gsnet.conf, its own host file and  *)
(* the inviter's.                                                          *)
JoinWith(p, url, file) ==
  LET inviter == file.hosts[1]
      connect == [i \in DOMAIN file.invitee.connectTo |->
                    Entry("ConnectTo", file.invitee.connectTo[i])]
      address == IF inviter.address = "" THEN <<>> ELSE <<Entry("Address", inviter.address)>>
  IN  IF ~UsableURL(url) \/ file = Bad THEN Bad
      ELSE IF file.hosts = <<>> THEN Bad
      ELSE IF GetFirst(inviter.other, "Ed25519PublicKey") # url.key THEN Bad
      ELSE << Write("ed25519_key.priv", <<p>>), Write("wg.priv", <<p>>),
              Write("gsnet.conf", Render(<<Entry("Name", file.invitee.name)>> \o connect)),
              Write(file.invitee.name, Render(PublicKeys(p))),
              Write(inviter.name, Render(address \o inviter.other)) >>

CmdJoin(p, url, text) == JoinWith(p, url, ParseFile(text))

(* The tree that the writes leave on a machine without one.                *)
TreeOf(writes) ==
  [f \in Path |-> LET at == {i \in DOMAIN writes : writes[i].path = f}
                  IN  IF at = {} THEN NoFile ELSE writes[Max(at)].text]

(* The machine that joins has no fragments, or none that connect.          *)
ConnectsInConf == Parse(Fragment) # Bad => GetAll(Parse(Fragment), "ConnectTo") = <<>>

(* A tree of the invitee that passes fsck, connects to self and knows the  *)
(* keys of self, which are those on the disk, and its address.             *)
JoinedTo(self, address, tree) ==
  /\ FsckPasses(tree)
  /\ GetAll(Parse(tree["gsnet.conf"]), "Name") = <<Invitee>>
  /\ GetAll(Parse(tree["gsnet.conf"]), "ConnectTo") = <<self>>
  /\ CheckHostMatchesPrivate(disk, Parse(tree[self]))
  /\ GetFirst(Parse(tree[self]), "Address") = address

(* On a tree that fsck accepts and that has an Address and a Port in range *)
(* "gsnet invite" makes an invitation with which "gsnet join" succeeds,    *)
(* and the tree this leaves passes fsck too, connects to the inviter and   *)
(* knows the inviter's keys and address (cmdInvite, File.Render, ParseFile *)
(* and cmdJoin together).  The last Address wins, and one in the inviter's *)
(* host file comes after that of gsnet.conf; a Name there ends the block.  *)
InvitationWorks ==
  LET entries == LoadDirectory(disk["gsnet.conf"])
      self == GetFirst(entries, "Name")
      address == GetFirst(entries, "Address")
      host == Parse(disk[self])
      made == CmdInvite(disk)
      writes == CmdJoin("joiner", made.url, made.text)
  IN  FsckPasses(disk) /\ address # "" /\ GetFirst(entries, "Port") # "0"
        /\ self \in Node \ {Invitee} /\ GetAll(host, "Name") = <<>> =>
        /\ writes # Bad
        /\ JoinedTo(self, LastOf(<<address>> \o GetAll(host, "Address")), TreeOf(writes))
=============================================================================
