------------------------------- MODULE Config -------------------------------
(***************************************************************************)
(* The configuration tree of a node, /etc/gsnet/<net>: gsnet.conf with the *)
(* fragments of conf.d, the two private keys and the hosts/<name> files    *)
(* (internal/config, internal/daemon: init, fsck and load, internal/keys,  *)
(* and the commands of cmd/gsnet that read or write the tree).             *)
(*                                                                         *)
(* No command takes a lock, and a file is replaced by truncating and then  *)
(* writing it: other commands, a daemon that reloads and a crash find the  *)
(* tree as it is between two system calls.  A file is smaller than a disk  *)
(* block, so a write happens whole or not at all.                          *)
(*                                                                         *)
(* A file is a sequence of lines.  Every comparison of keys ignores case,  *)
(* so a key stands for all its spellings.  A private key is a line, named  *)
(* like its public half after the process that generated it.               *)
(***************************************************************************)
EXTENDS Naturals, Sequences, FiniteSetsExt

CONSTANTS
  Proc,       \* executions of a command
  Command,    \* what they may be asked to do
  Node,       \* node names
  Malformed,  \* values that the parsers of names, subnets and modes refuse
  Padded,     \* function from values with white space around to the trimmed
  Fragment,   \* the text of conf.d/*.conf, in lexical order
  NoFile,     \* the content of a file that does not exist
  Bad,        \* the outcome of a parser's error
  Overlap,    \* whether gsnet.conf may be edited by two commands at a time
  Loads,      \* how often the daemon reads the tree
  Faults      \* commands killed and writes that fail

Entry(k, v) == [key |-> k, value |-> v]
Comment == Entry("#", "")
Line == [key : STRING, value : Proc \cup STRING]
Path == {"gsnet.conf", "ed25519_key.priv", "wg.priv"} \cup Node
Edit == {"set", "add", "del"}

ASSUME ConfigAssumption ==
  /\ \A c \in Command :
       \/ c.op = "init" /\ c.name \in Node \cup Malformed
       \/ c.op \in Edit /\ Entry(c.key, c.value) \in Line
       \/ c.op = "import" /\ c.stream \in Seq(Line)
  /\ Fragment \in Seq(Line)
  /\ "" \notin Malformed \cup Node \cup DOMAIN Padded
  /\ Node \cap (Malformed \cup DOMAIN Padded) = {} /\ Node \subseteq STRING
  /\ \A v \in DOMAIN Padded : Padded[v] \in STRING \ DOMAIN Padded
  /\ NoFile # <<>> /\ \A p \in Proc : NoFile # <<p>>
  /\ Overlap \in BOOLEAN /\ Loads \in Nat /\ Faults \in Nat

(* The proof system has to be told that a literal is a string.             *)
ASSUME Literals == {"", "#", "Name", "Ed25519PublicKey", "WGPublicKey"} \subseteq STRING

VARIABLES
  disk,       \* content of each file
  dir,        \* whether the directories exist
  cmd,        \* what each process does
  pc,         \* where it is
  todo,       \* the files it has still to write, in order
  lpc, got,   \* the daemon's load: where it is, and what it has read
  loaded,     \* the configuration the daemon runs on
  was,        \* the entries of gsnet.conf when an edit last truncated it
  committed,  \* texts of gsnet.conf written in full
  loads, faults

vars == <<disk, dir, cmd, pc, todo, lpc, got, loaded, was, committed,
          loads, faults>>
daemon == <<lpc, got, loaded, loads>>

-----------------------------------------------------------------------------
(* The elements of s that satisfy Test, in order; SelectSeq in a form that *)
(* can be reasoned about.                                                  *)
Pick(s, I) ==
  LET F[i \in 0..Len(s)] ==
        IF i = 0 THEN <<>> ELSE IF i \in I THEN Append(F[i - 1], s[i]) ELSE F[i - 1]
  IN  F[Len(s)]
Filter(s, Test(_)) == Pick(s, {i \in DOMAIN s : Test(s[i])})

(* config.Parse, Entries and Render.  parseLine trims key and value and    *)
(* refuses a line without one of them.                                     *)

(* Mutant: values keep the white space around them.                        *)
Untrimmed(v) == v

Trim(v) == IF v \in DOMAIN Padded THEN Padded[v] ELSE v

(* parseLine on each line that is not a comment.                           *)
ParseEntries(lines) ==
  IF \E i \in DOMAIN lines : "" \in {lines[i].key, Trim(lines[i].value)} THEN Bad
  ELSE [i \in DOMAIN lines |-> Entry(lines[i].key, Trim(lines[i].value))]

Parse(text) == ParseEntries(Filter(text, LAMBDA l : l # Comment))

(* One line "key = value" per entry; comments are not entries.             *)
Render(entries) == [i \in DOMAIN entries |-> Entry(entries[i].key, entries[i].value)]

GetAll(entries, k) ==
  LET of == Filter(entries, LAMBDA e : e.key = k)
  IN  [i \in DOMAIN of |-> of[i].value]

(* A parsed value is never empty, so "" says that there is none.           *)
GetFirst(entries, k) ==
  IF GetAll(entries, k) = <<>> THEN "" ELSE GetAll(entries, k)[1]

(* gsnet.conf, which may be missing, then the fragments.                   *)
LoadDirectory(text) ==
  LET parts == <<IF text = NoFile THEN <<>> ELSE Parse(text), Parse(Fragment)>>
  IN  IF Bad \in {parts[1], parts[2]} THEN Bad ELSE parts[1] \o parts[2]

(* nodename.Validate, subnet.Parse and the switch over Mode.               *)
Valid(v) == v # "" /\ v \notin Malformed

(* ParseEd25519PrivatePEM and ParseWireGuardPrivate refuse an empty file.  *)
ParsesAsKey(text) == text # NoFile /\ text # <<>>

PublicKeys(p) == <<Entry("Ed25519PublicKey", p), Entry("WGPublicKey", p)>>

-----------------------------------------------------------------------------
(* Fsck: what a tree without an error looks like.                          *)

(* Mutant: a private key is not looked at.                                 *)
KeyUnchecked(text) == TRUE

CheckPrivateKey(text) == ParsesAsKey(text)

(* Mutant: the host file is not compared with the keys.                    *)
HostUnchecked(d, host) == TRUE

(* Only keys that parse are compared.                                      *)
CheckHostMatchesPrivate(d, host) ==
  \A k \in {<<"ed25519_key.priv", "Ed25519PublicKey">>, <<"wg.priv", "WGPublicKey">>} :
    ParsesAsKey(d[k[1]]) => GetFirst(host, k[2]) = d[k[1]][1]

FsckPasses(d) ==
  /\ d["gsnet.conf"] # NoFile
  /\ LET entries == LoadDirectory(d["gsnet.conf"])
         name == GetFirst(entries, "Name")
     IN  /\ entries # Bad
         /\ Valid(name)
         /\ \A s \in Range(GetAll(entries, "Subnet")) : Valid(s)
         /\ CheckPrivateKey(d["ed25519_key.priv"]) /\ CheckPrivateKey(d["wg.priv"])
         /\ d[name] # NoFile /\ Parse(d[name]) # Bad
         /\ CheckHostMatchesPrivate(d, Parse(d[name]))
         /\ \A t \in Range(GetAll(entries, "ConnectTo")) : Valid(t) /\ d[t] # NoFile

(* load: what it asks of gsnet.conf before and after reading the keys.     *)

(* Mutant: a configuration without a name is taken.                        *)
NameOptional(entries) == entries # Bad

HasName(entries) == entries # Bad /\ GetFirst(entries, "Name") # ""

ModeValid(entries) == GetFirst(entries, "Mode") \notin Malformed
WellFormed(entries) ==
  /\ ModeValid(entries)
  /\ \A s \in Range(GetAll(entries, "Subnet")) : Valid(s)

-----------------------------------------------------------------------------
(* What each command writes: paths with their texts, in order.             *)
Write(path, text) == [path |-> path, text |-> text]

InitWrites(p, name) ==
  << Write("ed25519_key.priv", <<p>>), Write("wg.priv", <<p>>),
     Write("gsnet.conf", Render(<<Entry("Name", name)>>)),
     Write(name, Render(PublicKeys(p))) >>

(* Mutant: "set" removes, like "del", an equal value only.                 *)
SetAdds(entries, c) ==
  LET Gone(e) == e.key = c.key /\ c.value \in {"", e.value}
      kept == IF c.op = "add" THEN entries ELSE Filter(entries, LAMBDA e : ~Gone(e))
  IN  IF c.op = "del" THEN kept ELSE Append(kept, Entry(c.key, c.value))

(* mutateConf and cmdDel: an empty value given to "del" matches them all.  *)
Edited(entries, c) ==
  LET Gone(e) == e.key = c.key /\ (c.op = "set" \/ c.value \in {"", e.value})
      kept == IF c.op = "add" THEN entries ELSE Filter(entries, LAMBDA e : ~Gone(e))
  IN  IF c.op = "del" THEN kept ELSE Append(kept, Entry(c.key, c.value))

(* Mutant: the lines of a host are also given to the next.                 *)
LinesKept(s, l) ==
  IF l.key # "Name" THEN [s EXCEPT !.lines = Append(@, l)]
  ELSE [name |-> Trim(l.value), lines |-> s.lines,
        out |-> IF s.name = "" THEN s.out ELSE Append(s.out, Write(s.name, s.lines))]

(* One turn of cmdImport's loop: a Name line ends the host before it.  All *)
(* other lines, comments too, belong to the host as they are.              *)
ImportLine(s, l) ==
  IF l.key # "Name" THEN [s EXCEPT !.lines = Append(@, l)]
  ELSE IF s.name = "" THEN [s EXCEPT !.name = Trim(l.value)]
  ELSE [name |-> Trim(l.value), lines |-> <<>>, out |-> Append(s.out, Write(s.name, s.lines))]

ImportLoop(stream) ==
  LET After[i \in 0..Len(stream)] ==
        IF i = 0 THEN [name |-> "", lines |-> <<>>, out |-> <<>>]
        ELSE ImportLine(After[i - 1], stream[i])
  IN  After[Len(stream)]

ImportWrites(stream) ==
  LET s == ImportLoop(stream)
  IN  IF s.name = "" THEN s.out ELSE Append(s.out, Write(s.name, s.lines))

(* Mutant: the entries of the host file are printed, not its lines.        *)
ExportParsed(d) ==
  LET entries == LoadDirectory(d["gsnet.conf"])
      name == GetFirst(entries, "Name")
  IN  IF entries = Bad \/ name \notin Node \/ d[name] = NoFile THEN Bad
      ELSE <<Entry("Name", name)>> \o Render(Parse(d[name]))

(* cmdExport prints the name and the host file, or fails.                  *)
Export(d) ==
  LET entries == LoadDirectory(d["gsnet.conf"])
      name == GetFirst(entries, "Name")
  IN  IF entries = Bad \/ name \notin Node \/ d[name] = NoFile THEN Bad
      ELSE <<Entry("Name", name)>> \o d[name]

-----------------------------------------------------------------------------
Ended == {"ok", "failed", "killed"}
None == [op |-> "none"]

Init ==
  /\ disk = [f \in Path |-> NoFile]
  /\ dir = (Fragment # <<>>)
  /\ cmd = [p \in Proc |-> None] /\ pc = [p \in Proc |-> "new"]
  /\ todo = [p \in Proc |-> <<>>]
  /\ lpc = "idle" /\ got = <<>> /\ loaded = NoFile
  /\ was = <<>> /\ committed = {}
  /\ loads = Loads /\ faults = Faults

Goto(p, where) == pc' = [pc EXCEPT ![p] = where]

(* Fails where the code returns an error.                                  *)
Fail(p) == Goto(p, "failed") /\ UNCHANGED todo

Proceed(p, writes) ==
  /\ Goto(p, IF writes = <<>> THEN "ok" ELSE "open")
  /\ todo' = [todo EXCEPT ![p] = writes]

Running(p) == pc[p] \notin Ended \cup {"new"}

(* Edits of gsnet.conf, and an edit and "gsnet init", are run one after    *)
(* the other unless Overlap says otherwise; everything else may overlap.   *)
MayStart(c) ==
  \/ Overlap
  \/ c.op = "import"
  \/ \A q \in Proc : Running(q) =>
       cmd[q].op = "import" \/ (cmd[q].op = "init" /\ c.op = "init")

(* "gsnet init" and "gsnet import" create the directories they need, init  *)
(* once it has accepted the name.                                          *)
Start(p, c) ==
  /\ pc[p] = "new" /\ MayStart(c)
  /\ cmd' = [cmd EXCEPT ![p] = c]
  /\ \/ c.op = "init" /\ Valid(c.name) /\ Proceed(p, InitWrites(p, c.name)) /\ dir' = TRUE
     \/ c.op = "init" /\ ~Valid(c.name) /\ Fail(p) /\ UNCHANGED dir
     \/ /\ c.op = "import" /\ Proceed(p, ImportWrites(c.stream))
        /\ dir' = (dir \/ ImportWrites(c.stream) # <<>>)
     \/ c.op \in Edit /\ Goto(p, "read") /\ UNCHANGED <<todo, dir>>
  /\ UNCHANGED <<disk, daemon, was, committed, faults>>

(* ParseFile in mutateConf and cmdDel: only "del" needs the file to exist. *)
ReadConf(p) ==
  LET text == disk["gsnet.conf"]
      entries == IF text = NoFile THEN <<>> ELSE Parse(text)
  IN  /\ pc[p] = "read"
      /\ IF entries = Bad \/ (text = NoFile /\ cmd[p].op = "del") THEN Fail(p)
         ELSE Proceed(p, <<Write("gsnet.conf", Render(Edited(entries, cmd[p])))>>)
      /\ UNCHANGED <<disk, dir, cmd, daemon, was, committed, faults>>

(* Mutant: writeFileExclusive without O_EXCL.                              *)
AnyFile(p) == TRUE

(* writeFileExclusive, the way init writes, refuses a file that exists.    *)
MayCreate(p) == cmd[p].op = "init" => disk[Head(todo[p]).path] = NoFile

(* The file is opened: created, or truncated by os.WriteFile.              *)
OpenFile(p) ==
  /\ pc[p] = "open"
  /\ IF dir /\ MayCreate(p)
     THEN /\ disk' = [disk EXCEPT ![Head(todo[p]).path] = <<>>]
          /\ Goto(p, "write") /\ UNCHANGED todo
          /\ was' = IF cmd[p].op \notin Edit THEN was
                    ELSE IF disk["gsnet.conf"] = NoFile THEN <<>>
                    ELSE Parse(disk["gsnet.conf"])
     ELSE Fail(p) /\ UNCHANGED <<disk, was>>
  /\ UNCHANGED <<dir, cmd, daemon, committed, faults>>

WriteFile(p) ==
  LET w == Head(todo[p])
  IN  /\ pc[p] = "write"
      /\ disk' = [disk EXCEPT ![w.path] = w.text]
      /\ Proceed(p, Tail(todo[p]))
      /\ committed' = IF w.path = "gsnet.conf" THEN committed \cup {w.text} ELSE committed
      /\ UNCHANGED <<dir, cmd, daemon, was, faults>>

(* A full disk fails the write, the file stays empty; or the process dies. *)
Fault(p) ==
  /\ faults > 0 /\ faults' = faults - 1
  /\ \/ pc[p] = "write" /\ Fail(p)
     \/ Running(p) /\ Goto(p, "killed") /\ UNCHANGED todo
  /\ UNCHANGED <<disk, dir, cmd, daemon, was, committed>>

-----------------------------------------------------------------------------
(* The daemon's load, at start or on a reload, which keep what was loaded  *)
(* if there is an error: gsnet.conf and the fragments, then each key.      *)
LoadConf ==
  LET entries == LoadDirectory(disk["gsnet.conf"])
  IN  /\ lpc = "idle" /\ loads > 0 /\ loads' = loads - 1
      /\ IF HasName(entries) THEN lpc' = "ed" /\ got' = entries ELSE UNCHANGED <<lpc, got>>
      /\ UNCHANGED <<disk, dir, cmd, pc, todo, loaded, was, committed, faults>>

LoadEd ==
  /\ lpc = "ed"
  /\ IF ParsesAsKey(disk["ed25519_key.priv"])
     THEN lpc' = "wg" /\ UNCHANGED got
     ELSE lpc' = "idle" /\ got' = <<>>
  /\ UNCHANGED <<disk, dir, cmd, pc, todo, loaded, was, committed, loads, faults>>

LoadWG ==
  /\ lpc = "wg" /\ lpc' = "idle" /\ got' = <<>>
  /\ loaded' = IF ParsesAsKey(disk["wg.priv"]) /\ WellFormed(got) THEN got ELSE loaded
  /\ UNCHANGED <<disk, dir, cmd, pc, todo, was, committed, loads, faults>>

Next ==
  \/ \E p \in Proc : \/ \E c \in Command : Start(p, c)
                     \/ ReadConf(p) \/ OpenFile(p) \/ WriteFile(p) \/ Fault(p)
  \/ LoadConf \/ LoadEd \/ LoadWG

Spec == Init /\ [][Next]_vars

(* What the code relies on and does not look at: that the fragments of     *)
(* conf.d give the node no name, that a stream to import names nodes, as   *)
(* one does that "gsnet export" printed, so that what is written is files  *)
(* of hosts/, apart from the three others, and that "set" and "add" are    *)
(* given a key, not nothing or a comment sign.                             *)
NameInConf ==
  \A text \in {NoFile, <<>>} :
    LoadDirectory(text) # Bad => GetFirst(LoadDirectory(text), "Name") = ""

HostsOnly ==
  /\ Node \cap {"gsnet.conf", "ed25519_key.priv", "wg.priv"} = {}
  /\ \A c \in Command : c.op = "import" => \A i \in DOMAIN c.stream :
       c.stream[i].key = "Name" => Trim(c.stream[i].value) \in Node

EditsAKey == \A c \in Command : c.op \in {"set", "add"} => c.key \notin {"", "#"}

-----------------------------------------------------------------------------
(* Files hold lines, comments and keys, and the daemon only entries that   *)
(* the parser has accepted.                                                *)
TypeOK ==
  /\ \A f \in Path : disk[f] # NoFile =>
       disk[f] \in IF f \in {"ed25519_key.priv", "wg.priv"} THEN Seq(Proc) ELSE Seq(Line)
  /\ dir \in BOOLEAN
  /\ \A p \in Proc : /\ cmd[p] \in Command \cup {None}
                     /\ pc[p] \in {"new", "read", "open", "write"} \cup Ended
                     /\ \A i \in DOMAIN todo[p] : todo[p][i].path \in Path
  /\ lpc \in {"idle", "ed", "wg"}
  /\ \A es \in {got, loaded} \ {NoFile} : \A i \in DOMAIN es :
       es[i].value \notin {""} \cup DOMAIN Padded
  /\ loads \in 0..Loads /\ faults \in 0..Faults

(* At most one "gsnet init" succeeds, and it leaves the keys it generated: *)
(* both private keys are its own and, unless the host is imported again,   *)
(* hosts/<name> holds their public halves, whatever other executions of    *)
(* init do in between and wherever they are killed (init.go).              *)
Touches(p) ==
  CASE cmd[p].op = "init" -> {cmd[p].name}
    [] cmd[p].op = "import" -> {w.path : w \in Range(ImportWrites(cmd[p].stream))}
    [] OTHER -> {}

OneIdentity ==
  \A p \in Proc : cmd[p].op = "init" /\ pc[p] = "ok" =>
    /\ disk["ed25519_key.priv"] = <<p>> /\ disk["wg.priv"] = <<p>>
    /\ \/ disk[cmd[p].name] = PublicKeys(p)
       \/ \E q \in Proc : cmd[q].op = "import" /\ cmd[p].name \in Touches(q)

(* A tree in which fsck finds no error is one the daemon starts on, except *)
(* for a Mode, which fsck does not look at, however the tree came about:   *)
(* commands killed half-way, edits, imports (fsck.go against load).        *)
FsckMeansLoads ==
  LET entries == LoadDirectory(disk["gsnet.conf"])
  IN  FsckPasses(disk) /\ ModeValid(entries) =>
        /\ HasName(entries) /\ WellFormed(entries)
        /\ ParsesAsKey(disk["ed25519_key.priv"]) /\ ParsesAsKey(disk["wg.priv"])

(* The daemon never runs on a gsnet.conf that a command was writing: what  *)
(* it loaded is a text that was written in full, although a reload may     *)
(* read the file when it has just been truncated (load's check of Name).   *)
LoadedIsCommitted ==
  loaded # NoFile => \E text \in committed : loaded = LoadDirectory(text)

(* An edit that reports success leaves in gsnet.conf, key by key, what was *)
(* there with its own change applied: after "set" the value alone, after   *)
(* "add" the value last, after "del" no equal value (mutateConf, cmdDel).  *)
Changed(values, c) ==
  CASE c.op = "set" -> <<Trim(c.value)>>
    [] c.op = "add" -> Append(values, Trim(c.value))
    [] c.op = "del" -> Filter(values, LAMBDA v : c.value \notin {"", v})

EditIsExact ==
  [][\A p \in Proc :
       pc[p] = "write" /\ pc'[p] = "ok" /\ cmd[p].op \in Edit
         /\ (cmd[p].op = "del" \/ Trim(cmd[p].value) # "") =>
         LET now == Parse(disk'["gsnet.conf"])
         IN  \A k \in {"Name", "Subnet", "ConnectTo", "Mode"} :
               GetAll(now, k) = IF k = cmd[p].key THEN Changed(GetAll(was, k), cmd[p])
                                ELSE GetAll(was, k)]_vars

(* An import that reports success has given each host it names the lines   *)
(* between its last Name line and the next one, and the first host those   *)
(* before its Name line too (cmdImport's loop).                            *)
Block(stream, n) ==
  LET heads == {i \in DOMAIN stream : stream[i].key = "Name"}
      at == Max({i \in heads : Trim(stream[i].value) = n})
      end == Min({i \in heads : i > at} \cup {Len(stream) + 1})
  IN  (IF at = Min(heads) THEN SubSeq(stream, 1, at - 1) ELSE <<>>)
        \o SubSeq(stream, at + 1, end - 1)

ImportIsFaithful ==
  \A p \in Proc : cmd[p].op = "import" /\ pc[p] = "ok" =>
    \A n \in Touches(p) :
      \/ disk[n] = Block(cmd[p].stream, n)
      \/ \E q \in Proc \ {p} : n \in Touches(q)

(* What "gsnet export" prints, "gsnet import" writes back as the same host *)
(* file, line by line, at any time at which the file has no Name line.     *)
ExportImports ==
  LET stream == Export(disk)
      name == Trim(stream[1].value)
  IN  stream # Bad => \/ \E i \in 2..Len(stream) : stream[i].key = "Name"
                      \/ ImportWrites(stream) = <<Write(name, disk[name])>>
=============================================================================
