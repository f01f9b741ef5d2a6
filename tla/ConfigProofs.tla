---------------------------- MODULE ConfigProofs ----------------------------
(***************************************************************************)
(* Proofs about module Config: a tree that passes fsck loads, the daemon   *)
(* never runs on a gsnet.conf half written, of all "gsnet init" at most    *)
(* one succeeds, with its own keys, an edit changes what it was asked to,  *)
(* an import gives each host its lines, and what is exported can be        *)
(* imported.                                                               *)
(***************************************************************************)
EXTENDS ConfigTypes

-----------------------------------------------------------------------------
(***************************************************************************)
(* fsck and load.                                                          *)
(***************************************************************************)
(* What fsck accepts, load accepts, for every tree (fsck.go, load).        *)
LEMMA FsckLoads ==
  FsckMeansLoads
BY ZenonT(20) DEF FsckMeansLoads, FsckPasses, Valid, HasName, WellFormed, CheckPrivateKey

(* A tree in which fsck finds no error is one the daemon starts on, except *)
(* for a Mode (fsck.go against load).                                      *)
THEOREM FsckHolds == Spec => []FsckMeansLoads
BY FsckLoads, PTL

-----------------------------------------------------------------------------
(***************************************************************************)
(* The daemon and gsnet.conf.                                              *)
(***************************************************************************)
(* gsnet.conf is missing, empty or written in full, and what load has read *)
(* of it is from a text that was.                                          *)
Committed(entries) == \E text \in committed : entries = LoadDirectory(text)
ConfInv ==
  /\ Total
  /\ disk["gsnet.conf"] \in {NoFile, <<>>} \cup committed
  /\ lpc # "idle" => Committed(got)
  /\ loaded # NoFile => Committed(loaded)

(* What was written in full stays so.                                      *)
LEMMA StaysCommitted ==
  ASSUME committed \subseteq committed', NEW e, Committed(e)
  PROVE  \E text \in committed' : e = LoadDirectory(text)
BY DEF Committed

(* Neither a file that is missing nor one just truncated gives a name, so  *)
(* load gets past its check of Name with a text written in full alone.     *)
LEMMA ConfStep ==
  ASSUME NameInConf, ConfInv, [Next]_vars
  PROVE  ConfInv'
<1>. USE ConfInv DEF ConfInv
<1>1. Total'
  BY TotalStep
<1>2. "gsnet.conf" \in Path
  BY DEF Path
<1>3. SUFFICES /\ disk'["gsnet.conf"] \in {NoFile, <<>>} \cup committed'
               /\ lpc' # "idle" => Committed(got)'
               /\ loaded' # NoFile => Committed(loaded)'
  BY <1>1, ZenonT(20)
<1>4. ASSUME UNCHANGED <<disk, committed, lpc, got, loaded>>
      PROVE  <1>3!1
  BY <1>4, ZenonT(20) DEF Committed
<1>5. ASSUME UNCHANGED <<lpc, got, loaded>>, committed \subseteq committed',
             disk'["gsnet.conf"] \in {NoFile, <<>>} \cup committed'
      PROVE  <1>3!1
  BY <1>5, StaysCommitted, ZenonT(20) DEF Committed
<1>6. ASSUME NEW p \in Proc, OpenFile(p)
      PROVE  <1>3!1
  BY <1>2, <1>5, <1>6, Put, ZenonT(20) DEF OpenFile, daemon
<1>7. ASSUME NEW p \in Proc, WriteFile(p)
      PROVE  <1>3!1
  BY <1>2, <1>5, <1>7, Put, ZenonT(20) DEF WriteFile, daemon
<1>8. CASE LoadConf
  <2>1. UNCHANGED <<disk, loaded, committed>>
    BY <1>8 DEF LoadConf
  <2>2. lpc' # "idle" => Committed(got)'
    BY <1>8, <2>1, NameInConf, ZenonT(20) DEF LoadConf, NameInConf, HasName, Committed
  <2>. QED  BY <2>1, <2>2, ZenonT(20) DEF Committed
<1>9. CASE LoadEd
  BY <1>9, ZenonT(20) DEF LoadEd, Committed
<1>10. CASE LoadWG
  BY <1>10, ZenonT(20) DEF LoadWG, Committed
<1>11. ASSUME NEW p \in Proc, (\E c \in Command : Start(p, c)) \/ ReadConf(p) \/ Fault(p)
       PROVE  <1>3!1
  BY <1>4, <1>11, ZenonT(20) DEF Start, ReadConf, Fault, daemon
<1>12. CASE UNCHANGED vars
  BY <1>4, <1>12, ZenonT(20) DEF vars
<1>. QED
  BY <1>6, <1>7, <1>8, <1>9, <1>10, <1>11, <1>12, ZenonT(20) DEF Next

(* The daemon never runs on a gsnet.conf that a command was writing, if    *)
(* the fragments of conf.d give no name (load's check of Name).            *)
THEOREM CommittedHolds ==
  ASSUME NameInConf
  PROVE  Spec => []LoadedIsCommitted
<1>1. Init => ConfInv
  BY DEF Init, ConfInv, Total, Path
<1>2. ConfInv /\ [Next]_vars => ConfInv'
  BY ConfStep
<1>3. ConfInv => LoadedIsCommitted
  BY DEF ConfInv, Committed, LoadedIsCommitted
<1>. QED  BY <1>1, <1>2, <1>3, PTL DEF Spec

-----------------------------------------------------------------------------
(***************************************************************************)
(* What "gsnet init" has left to write.                                    *)
(***************************************************************************)
(* What is left of the files that "gsnet init" writes.                     *)
Left1(p, n) == <<Write(n, Render(PublicKeys(p)))>>
Left2(p, n) ==
  <<Write("gsnet.conf", Render(<<Entry("Name", n)>>)), Write(n, Render(PublicKeys(p)))>>
Left3(p, n) == << Write("wg.priv", <<p>>), Write("gsnet.conf", Render(<<Entry("Name", n)>>)),
                  Write(n, Render(PublicKeys(p))) >>

(* What is written next of the list s, and what is left after it.          *)
Follows(p, n, s) ==
  /\ Tail(s) \in {Left3(p, n), Left2(p, n), Left1(p, n), <<>>}
  /\ IF s = InitWrites(p, n)
     THEN /\ Head(s).path = "ed25519_key.priv" /\ Head(s).text = <<p>>
          /\ Tail(s) \notin {Left2(p, n), Left1(p, n), <<>>}
     ELSE Head(s).path # "ed25519_key.priv"
  /\ IF s = Left3(p, n) THEN Head(s).path = "wg.priv" /\ Head(s).text = <<p>>
     ELSE Head(s).path # "wg.priv"
  /\ Tail(s) = <<>> => Head(s).path = n /\ Head(s).text = PublicKeys(p)

(* Lists of different lengths differ.                                      *)
LEMMA Lengths ==
  ASSUME NEW a, NEW b, NEW c, NEW d, NEW e, NEW f, NEW g, NEW h, NEW i, NEW j
  PROVE  /\ <<a, b, c, d>> \notin {<<e, f, g>>, <<h, i>>, <<j>>, <<>>}
         /\ <<e, f, g>> \notin {<<h, i>>, <<j>>, <<>>}
         /\ <<h, i>> \notin {<<j>>, <<>>}
         /\ <<j>> # <<>>
OBVIOUS

(* The files of init in order.                                             *)
LEMMA InitOrder ==
  ASSUME NEW p, NEW n
  PROVE  /\ Head(InitWrites(p, n)) = Write("ed25519_key.priv", <<p>>)
         /\ Tail(InitWrites(p, n)) = Left3(p, n)
         /\ Head(Left3(p, n)) = Write("wg.priv", <<p>>) /\ Tail(Left3(p, n)) = Left2(p, n)
         /\ Head(Left2(p, n)).path = "gsnet.conf" /\ Tail(Left2(p, n)) = Left1(p, n)
         /\ Head(Left1(p, n)) = Write(n, Render(PublicKeys(p))) /\ Tail(Left1(p, n)) = <<>>
<1>1. Head(InitWrites(p, n)) = Write("ed25519_key.priv", <<p>>)
  BY Lists DEF InitWrites
<1>2. Tail(InitWrites(p, n)) = Left3(p, n)
  BY Lists DEF InitWrites, Left3
<1>3. Head(Left3(p, n)) = Write("wg.priv", <<p>>) /\ Tail(Left3(p, n)) = Left2(p, n)
  BY Lists DEF Left3, Left2
<1>4. Head(Left2(p, n)).path = "gsnet.conf" /\ Tail(Left2(p, n)) = Left1(p, n)
  BY Lists, Fields DEF Left2, Left1
<1>5. Head(Left1(p, n)) = Write(n, Render(PublicKeys(p))) /\ Tail(Left1(p, n)) = <<>>
  BY Lists DEF Left1
<1>. QED  BY <1>1, <1>2, <1>3, <1>4, <1>5

(* They are different lists.                                               *)
LEMMA InitDistinct ==
  ASSUME NEW p, NEW n
  PROVE  /\ InitWrites(p, n) \notin {Left3(p, n), Left2(p, n), Left1(p, n), <<>>}
         /\ Left3(p, n) \notin {Left2(p, n), Left1(p, n), <<>>}
         /\ Left2(p, n) \notin {Left1(p, n), <<>>}
         /\ Left1(p, n) # <<>>
BY Lengths, Zenon DEF InitWrites, Left3, Left2, Left1

(* The order of the files, as the steps need it.                           *)
LEMMA InitNext ==
  ASSUME NEW p, NEW n, NEW s, n \notin {"ed25519_key.priv", "wg.priv"},
         s \in {InitWrites(p, n), Left3(p, n), Left2(p, n), Left1(p, n)}
  PROVE  Follows(p, n, s)
<1>1. /\ Write("ed25519_key.priv", <<p>>).path = "ed25519_key.priv"
      /\ Write("ed25519_key.priv", <<p>>).text = <<p>>
      /\ Write("wg.priv", <<p>>).path = "wg.priv" /\ Write("wg.priv", <<p>>).text = <<p>>
      /\ Write(n, PublicKeys(p)).path = n /\ Write(n, PublicKeys(p)).text = PublicKeys(p)
  BY Fields, Zenon
<1>2. Render(PublicKeys(p)) = PublicKeys(p)
  BY RenderKeys
<1>3. ASSUME s = InitWrites(p, n)
      PROVE  /\ Head(s).path = "ed25519_key.priv" /\ Head(s).text = <<p>>
             /\ Tail(s) = Left3(p, n)
  BY <1>1, <1>3, InitOrder, Zenon
<1>4. ASSUME s = Left3(p, n)
      PROVE  Head(s).path = "wg.priv" /\ Head(s).text = <<p>> /\ Tail(s) = Left2(p, n)
  BY <1>1, <1>4, InitOrder, Zenon
<1>5. ASSUME s = Left2(p, n)
      PROVE  Head(s).path = "gsnet.conf" /\ Tail(s) = Left1(p, n)
  BY <1>5, InitOrder, Zenon
<1>6. ASSUME s = Left1(p, n)
      PROVE  Head(s).path = n /\ Head(s).text = PublicKeys(p) /\ Tail(s) = <<>>
  BY <1>1, <1>2, <1>6, InitOrder, Zenon
<1>7. /\ InitWrites(p, n) \notin {Left3(p, n), Left2(p, n), Left1(p, n), <<>>}
      /\ Left3(p, n) \notin {Left2(p, n), Left1(p, n), <<>>}
      /\ Left2(p, n) \notin {Left1(p, n), <<>>} /\ Left1(p, n) # <<>>
  BY InitDistinct, Zenon
<1>8. Tail(s) \in {Left3(p, n), Left2(p, n), Left1(p, n), <<>>}
  BY <1>3, <1>4, <1>5, <1>6, Zenon
<1>9. s = InitWrites(p, n) => Tail(s) \notin {Left2(p, n), Left1(p, n), <<>>}
  BY <1>3, <1>7, Zenon
<1>10. s # InitWrites(p, n) => Head(s).path # "ed25519_key.priv"
  BY <1>4, <1>5, <1>6, Zenon
<1>11. s # Left3(p, n) => Head(s).path # "wg.priv"
  BY <1>3, <1>5, <1>6, Zenon
<1>12. Tail(s) = <<>> => s = Left1(p, n)
  BY <1>3, <1>4, <1>5, <1>7, Zenon
<1>. QED  BY <1>3, <1>4, <1>6, <1>8, <1>9, <1>10, <1>11, <1>12, Zenon DEF Follows

-----------------------------------------------------------------------------
(***************************************************************************)
(* The keys.                                                               *)
(***************************************************************************)
(* What each process has still to write.                                   *)
Inits(p) == cmd[p].op = "init" /\ Valid(cmd[p].name)
Doing(p) ==
  LET n == cmd[p].name
  IN  /\ IF pc[p] = "new" THEN cmd[p] = None ELSE cmd[p] \in Command
      /\ cmd[p].op = "init" =>
           IF Valid(n) THEN /\ todo[p] \in {InitWrites(p, n), Left3(p, n), Left2(p, n),
                                           Left1(p, n), <<>>}
                            /\ pc[p] \in {"open", "write"} => todo[p] # <<>>
                            /\ pc[p] = "ok" => todo[p] = <<>>
           ELSE pc[p] = "failed"
      /\ cmd[p].op = "import" =>
           /\ todo[p] \in Seq(Range(ImportWrites(cmd[p].stream)))
           /\ pc[p] \in {"open", "write"} => todo[p] # <<>>
      /\ cmd[p].op \in Edit /\ pc[p] \in {"open", "write"} =>
           \E text : todo[p] = <<Write("gsnet.conf", text)>>
      /\ pc[p] = "read" => cmd[p].op \in Edit

(* Who has created the file of the first key has it for good.              *)
Owns(p) == Inits(p) /\ (todo[p] # InitWrites(p, cmd[p].name) \/ pc[p] = "write")
Imported(n) == \E q \in Proc : cmd[q].op = "import" /\ n \in Touches(q)
Wrote(p) ==
  Inits(p) =>
    /\ Owns(p) => disk["ed25519_key.priv"] # NoFile
    /\ todo[p] # InitWrites(p, cmd[p].name) => disk["ed25519_key.priv"] = <<p>>
    /\ todo[p] \in {Left2(p, cmd[p].name), Left1(p, cmd[p].name), <<>>} => disk["wg.priv"] = <<p>>
    /\ todo[p] = <<>> => disk[cmd[p].name] = PublicKeys(p) \/ Imported(cmd[p].name)
IdInv ==
  /\ Total
  /\ \A p \in Proc : Doing(p) /\ Wrote(p)
  /\ \A p, q \in Proc : Owns(p) /\ Owns(q) => p = q

(* A step of a process changes its own entries alone.                      *)
LEMMA PutProc ==
  ASSUME NEW f, f = [q \in Proc |-> f[q]], NEW p \in Proc, NEW v,
         NEW g, g = [f EXCEPT ![p] = v]
  PROVE  /\ g = [q \in Proc |-> g[q]]
         /\ g[p] = v /\ \A q \in Proc : q # p => g[q] = f[q]
OBVIOUS

(* The name that init accepts is a node's.                                 *)
LEMMA NodeName ==
  ASSUME NEW p \in Proc, Doing(p), Inits(p)
  PROVE  cmd[p].name \in Node
<1>1. cmd[p] \in Command
  BY DEF Doing, Inits, None
<1>. QED  BY <1>1, ConfigAssumption, ZenonT(20) DEF Inits, Edit, Valid

(* A process that does not move is where it was.                           *)
LEMMA Same ==
  ASSUME NEW q \in Proc, cmd'[q] = cmd[q], todo'[q] = todo[q], pc'[q] = pc[q]
  PROVE  (Inits(q)' <=> Inits(q)) /\ (Owns(q)' <=> Owns(q)) /\ (Doing(q) => Doing(q)')
<1>1. (Inits(q)' <=> Inits(q)) /\ (Owns(q)' <=> Owns(q))
  BY ZenonT(20) DEF Inits, Owns
<1>2. Doing(q) => Doing(q)'
  BY ZenonT(20) DEF Doing
<1>. QED  BY <1>1, <1>2

(* Who has not created the first key has written nothing.                  *)
LEMMA Unowned ==
  ASSUME NEW q, ~Owns(q)
  PROVE  Wrote(q)
BY InitDistinct, ZenonT(20) DEF Owns, Wrote

(* What a process has imported stays imported.                             *)
LEMMA StaysImported ==
  ASSUME \A q \in Proc : cmd'[q] = cmd[q] \/ cmd[q] = None, NEW n, Imported(n)
  PROVE  Imported(n)'
<1>1. PICK q \in Proc : cmd[q].op = "import" /\ n \in Touches(q)
  BY DEF Imported
<1>2. cmd'[q] = cmd[q]
  BY <1>1 DEF None
<1>3. Touches(q)' = Touches(q)
  BY <1>2, ZenonT(20) DEF Touches
<1>. QED  BY <1>1, <1>2, <1>3 DEF Imported

(* A process that does not move still has the files that are left alone.   *)
LEMMA StillWrote ==
  ASSUME NEW q \in Proc, Wrote(q), cmd'[q] = cmd[q], todo'[q] = todo[q],
         Owns(q)' => Owns(q),
         disk'["ed25519_key.priv"] = disk["ed25519_key.priv"],
         disk'["wg.priv"] = disk["wg.priv"],
         Inits(q) => \/ disk'[cmd[q].name] = disk[cmd[q].name]
                     \/ Imported(cmd[q].name)',
         Imported(cmd[q].name) => Imported(cmd[q].name)'
  PROVE  Wrote(q)'
<1>1. Inits(q)' <=> Inits(q)
  BY ZenonT(20) DEF Inits
<1>2. SUFFICES ASSUME Inits(q)
               PROVE  /\ Owns(q)' => disk'["ed25519_key.priv"] # NoFile
                      /\ todo[q] # InitWrites(q, cmd[q].name) => disk'["ed25519_key.priv"] = <<q>>
                      /\ todo[q] \in {Left2(q, cmd[q].name), Left1(q, cmd[q].name), <<>>}
                           => disk'["wg.priv"] = <<q>>
                      /\ todo[q] = <<>> => \/ disk'[cmd[q].name] = PublicKeys(q)
                                          \/ Imported(cmd[q].name)'
  BY <1>1, ZenonT(20) DEF Wrote
<1>. QED  BY <1>2, ZenonT(20) DEF Wrote

(* A step of p that writes no file.                                        *)
LEMMA QuietStep ==
  ASSUME IdInv, NEW p \in Proc, Total', disk' = disk, Doing(p)',
         \A q \in Proc : cmd'[q] = cmd[q] \/ cmd[q] = None,
         \A q \in Proc \ {p} : cmd'[q] = cmd[q] /\ todo'[q] = todo[q] /\ pc'[q] = pc[q],
         ~Owns(p)' \/ (cmd'[p] = cmd[p] /\ todo'[p] = todo[p] /\ pc'[p] # "write")
  PROVE  IdInv'
<1>1. \A q \in Proc : Doing(q)'
  BY Same, ZenonT(20) DEF IdInv
<1>2. Owns(p)' => Owns(p)
  BY ZenonT(20) DEF Owns, Inits
<1>3. \A q \in Proc : Owns(q)' => Owns(q)
  BY <1>2, Same, ZenonT(20)
<1>4. ASSUME NEW q \in Proc, cmd'[q] = cmd[q], todo'[q] = todo[q]
      PROVE  Wrote(q)'
  BY <1>3, <1>4, StaysImported, StillWrote, ZenonT(20) DEF IdInv
<1>5. ASSUME NEW q \in Proc, ~Owns(q)'
      PROVE  Wrote(q)'
  BY <1>5, Unowned, PTL
<1>6. \A q \in Proc : Wrote(q)'
  BY <1>4, <1>5, ZenonT(20)
<1>. QED  BY <1>1, <1>3, <1>6, ZenonT(20) DEF IdInv

(* A step of the only owner of the keys.                                   *)
LEMMA OwnerStep ==
  ASSUME IdInv, NEW p \in Proc, Total', Doing(p)', Wrote(p)',
         \A q \in Proc \ {p} : ~Owns(q),
         \A q \in Proc \ {p} : cmd'[q] = cmd[q] /\ todo'[q] = todo[q] /\ pc'[q] = pc[q]
  PROVE  IdInv'
<1>1. \A q \in Proc : Doing(q)'
  BY Same, ZenonT(20) DEF IdInv
<1>2. \A q \in Proc \ {p} : ~Owns(q)'
  BY Same, ZenonT(20)
<1>3. ASSUME NEW q \in Proc, ~Owns(q)'
      PROVE  Wrote(q)'
  BY <1>3, Unowned, PTL
<1>4. \A q \in Proc : Wrote(q)'
  BY <1>2, <1>3, ZenonT(20)
<1>. QED  BY <1>1, <1>2, <1>4, ZenonT(20) DEF IdInv

(* A step that writes a file which is neither a key nor, unless it is      *)
(* imported, a host's.                                                     *)
LEMMA OtherStep ==
  ASSUME IdInv, HostsOnly, NEW p \in Proc, Total', Doing(p)', cmd' = cmd, ~Inits(p),
         \A q \in Proc \ {p} : todo'[q] = todo[q] /\ pc'[q] = pc[q],
         NEW f, f \notin {"ed25519_key.priv", "wg.priv"}, f \in Node => Imported(f),
         \A g \in Path : g # f => disk'[g] = disk[g]
  PROVE  IdInv'
<1>1. \A q \in Proc : Doing(q)'
  BY Same, ZenonT(20) DEF IdInv
<1>2. ~Inits(p)'
  BY ZenonT(20) DEF Inits
<1>3. \A q \in Proc : Owns(q)' => Owns(q)
  BY <1>2, Same, ZenonT(20) DEF Owns
<1>4. ASSUME NEW q \in Proc \ {p}
      PROVE  Wrote(q)'
  <2>1. /\ disk'["ed25519_key.priv"] = disk["ed25519_key.priv"]
        /\ disk'["wg.priv"] = disk["wg.priv"]
    BY ZenonT(20) DEF Path
  <2>2. \A n : Imported(n) => Imported(n)'
    BY StaysImported, ZenonT(20)
  <2>3. Inits(q) => disk'[cmd[q].name] = disk[cmd[q].name] \/ Imported(cmd[q].name)'
    BY <2>2, NodeName, ZenonT(20) DEF IdInv, Path
  <2>. QED  BY <1>3, <2>1, <2>2, <2>3, StillWrote, ZenonT(20) DEF IdInv
<1>5. Wrote(p)'
  BY <1>2, ZenonT(20) DEF Wrote
<1>6. \A q \in Proc : Wrote(q)'
  BY <1>4, <1>5, ZenonT(20)
<1>. QED  BY <1>1, <1>3, <1>6, ZenonT(20) DEF IdInv

(* A process that gives up keeps what it has not written, and so does one  *)
(* that is killed.                                                         *)
LEMMA GivesUp ==
  ASSUME IdInv, NEW p \in Proc, NEW where \in {"failed", "killed"}, Total',
         Goto(p, where), UNCHANGED <<disk, cmd, todo>>, Running(p)
  PROVE  IdInv'
<1>1. pc'[p] = where /\ \A q \in Proc \ {p} : pc'[q] = pc[q]
  BY Moves DEF IdInv
<1>2. pc'[p] \notin {"new", "read", "open", "write", "ok"}
  BY <1>1
<1>3. cmd[p] \in Command /\ ~(cmd[p].op = "init" /\ ~Valid(cmd[p].name))
  BY ZenonT(20) DEF IdInv, Doing, Running, Ended
<1>4. Doing(p)'
  BY <1>2, <1>3, ZenonT(20) DEF IdInv, Doing
<1>. QED  BY <1>1, <1>2, <1>4, QuietStep, ZenonT(20)

(* A list of files to import.                                              *)
LEMMA StreamFiles ==
  ASSUME HostsOnly, NEW c \in Command, c.op = "import"
  PROVE  /\ ImportWrites(c.stream) \in Seq(Range(ImportWrites(c.stream)))
         /\ Range(ImportWrites(c.stream)) \subseteq HostFile
<1>1. ImportWrites(c.stream) \in Seq(HostFile)
  <2>1. c.stream \in Seq(Line)
    BY ConfigAssumption, ZenonT(20) DEF Edit
  <2>2. Named(c.stream)
    BY ZenonT(20) DEF HostsOnly, Named
  <2>. QED  BY <2>1, <2>2, ImportHosts, Zenon
<1>. HIDE DEF HostFile
<1>2. ASSUME NEW s \in Seq(HostFile)
      PROVE  s \in Seq(Range(s)) /\ Range(s) \subseteq HostFile
  BY DEF Range
<1>. QED  BY <1>1, <1>2

(* A command starts.                                                       *)
LEMMA StartStep ==
  ASSUME IdInv, HostsOnly, Total', NEW p \in Proc, NEW c \in Command, Start(p, c)
  PROVE  IdInv'
<1>1. Total /\ pc[p] = "new" /\ cmd[p] = None
  BY ZenonT(20) DEF IdInv, Doing, Start
<1>2. cmd'[p] = c /\ (\A q \in Proc \ {p} : cmd'[q] = cmd[q]) /\ disk' = disk
  BY <1>1, ZenonT(20) DEF Start, Total
<1>3. SUFFICES /\ Doing(p)' /\ ~Owns(p)'
               /\ \A q \in Proc \ {p} : todo'[q] = todo[q] /\ pc'[q] = pc[q]
  BY <1>1, <1>2, QuietStep, ZenonT(20)
<1>4. CASE c.op = "init" /\ Valid(c.name)
  <2>1. Proceed(p, InitWrites(p, c.name))
    BY <1>4, ZenonT(20) DEF Start, Edit
  <2>2. InitWrites(p, c.name) # <<>>
    BY InitDistinct, ZenonT(20)
  <2>3. pc'[p] = "open" /\ todo'[p] = InitWrites(p, c.name)
    BY <1>1, <2>1, <2>2, Proceeds, ZenonT(20)
  <2>4. Doing(p)'
    BY <1>2, <1>4, <2>2, <2>3, ZenonT(20) DEF Doing, Edit
  <2>5. ~Owns(p)'
    BY <1>2, <2>3, ZenonT(20) DEF Owns
  <2>. QED  BY <1>1, <2>1, <2>4, <2>5, Proceeds, ZenonT(20)
<1>5. CASE c.op = "init" /\ ~Valid(c.name)
  <2>1. Fail(p)
    BY <1>5, ZenonT(20) DEF Start, Edit
  <2>2. pc'[p] = "failed" /\ todo' = todo /\ \A q \in Proc \ {p} : pc'[q] = pc[q]
    BY <1>1, <2>1, Moves, ZenonT(20) DEF Fail
  <2>3. Doing(p)'
    BY <1>2, <1>5, <2>2, ZenonT(20) DEF Doing, Edit
  <2>4. ~Owns(p)'
    BY <1>2, <1>5, ZenonT(20) DEF Owns, Inits
  <2>. QED  BY <2>2, <2>3, <2>4
<1>6. CASE c.op = "import"
  <2>1. Proceed(p, ImportWrites(c.stream))
    BY <1>6, ZenonT(20) DEF Start, Edit
  <2>2. /\ pc'[p] = IF ImportWrites(c.stream) = <<>> THEN "ok" ELSE "open"
        /\ todo'[p] = ImportWrites(c.stream)
    BY <1>1, <2>1, Proceeds, ZenonT(20)
  <2>3. Doing(p)'
    BY <1>2, <1>6, <2>2, StreamFiles, ZenonT(20) DEF Doing, Edit
  <2>4. ~Owns(p)'
    BY <1>2, <1>6, ZenonT(20) DEF Owns, Inits
  <2>. QED  BY <1>1, <2>1, <2>3, <2>4, Proceeds, ZenonT(20)
<1>7. CASE c.op \in Edit
  <2>1. Goto(p, "read") /\ todo' = todo
    BY <1>7, ZenonT(20) DEF Start, Edit
  <2>2. pc'[p] = "read" /\ \A q \in Proc \ {p} : pc'[q] = pc[q]
    BY <1>1, <2>1, Moves, ZenonT(20)
  <2>3. Doing(p)'
    BY <1>2, <1>7, <2>2, ZenonT(20) DEF Doing, Edit
  <2>4. ~Owns(p)'
    BY <1>2, <1>7, ZenonT(20) DEF Owns, Inits, Edit
  <2>. QED  BY <2>1, <2>2, <2>3, <2>4
<1>. QED  BY <1>4, <1>5, <1>6, <1>7, ConfigAssumption, ZenonT(20)

(* An edit reads gsnet.conf.                                               *)
LEMMA ReadStep ==
  ASSUME IdInv, Total', NEW p \in Proc, ReadConf(p)
  PROVE  IdInv'
<1>1. Total /\ pc[p] = "read" /\ cmd[p].op \in Edit /\ UNCHANGED <<disk, cmd>>
  BY ZenonT(20) DEF IdInv, Doing, ReadConf
<1>2. CASE Fail(p)
  BY <1>1, <1>2, GivesUp, ZenonT(20) DEF Fail, Running, Ended
<1>3. ASSUME NEW text, Proceed(p, <<Write("gsnet.conf", text)>>)
      PROVE  IdInv'
  <2>1. <<Write("gsnet.conf", text)>> # <<>>
    OBVIOUS
  <2>2. pc'[p] = "open" /\ todo'[p] = <<Write("gsnet.conf", text)>>
    BY <1>1, <1>3, <2>1, Proceeds, ZenonT(20)
  <2>3. Doing(p)'
    BY <1>1, <2>2, ZenonT(20) DEF IdInv, Doing, Edit
  <2>4. ~Owns(p)'
    BY <1>1, ZenonT(20) DEF Owns, Inits, Edit
  <2>. QED  BY <1>1, <1>3, <2>3, <2>4, Proceeds, QuietStep, ZenonT(20)
<1>. QED  BY <1>2, <1>3, ZenonT(20) DEF ReadConf

(* What a process has to write next: one of init's files in turn, or       *)
(* neither a key nor a host file that is not imported.                     *)
LEMMA NextFile ==
  ASSUME IdInv, HostsOnly, NEW p \in Proc, pc[p] \in {"open", "write"}, ~Inits(p)
  PROVE  /\ Head(todo[p]).path \notin {"ed25519_key.priv", "wg.priv"}
         /\ Head(todo[p]).path \in Node => Imported(Head(todo[p]).path)
<1>1. Doing(p)
  BY DEF IdInv
<1>2. cmd[p] \in Command
  BY <1>1, ZenonT(20) DEF Doing
<1>3. CASE cmd[p].op \in Edit
  <2>1. PICK text : todo[p] = <<Write("gsnet.conf", text)>>
    BY <1>1, <1>3, ZenonT(20) DEF Doing
  <2>2. Head(todo[p]).path = "gsnet.conf"
    BY <2>1, Fields
  <2>3. "gsnet.conf" \notin Node
    BY ZenonT(20) DEF HostsOnly
  <2>. QED  BY <2>2, <2>3
<1>4. CASE cmd[p].op = "import"
  <2>. DEFINE S == Range(ImportWrites(cmd[p].stream))
  <2>1. todo[p] \in Seq(S) /\ todo[p] # <<>>
    BY <1>1, <1>4, ZenonT(20) DEF Doing
  <2>2. S \subseteq HostFile
    BY <1>2, <1>4, StreamFiles, ZenonT(20)
  <2>3. Touches(p) = {w.path : w \in S}
    BY <1>4, ZenonT(20) DEF Touches
  <2>. HIDE DEF S
  <2>4. Head(todo[p]) \in S
    BY <2>1
  <2>5. Head(todo[p]).path \in Node
    BY <2>2, <2>4 DEF HostFile
  <2>6. Imported(Head(todo[p]).path)
    BY <1>4, <2>3, <2>4, ZenonT(20) DEF Imported
  <2>. QED  BY <2>5, <2>6, ZenonT(20) DEF HostsOnly
<1>5. cmd[p].op = "init" => FALSE
  BY <1>1, ZenonT(20) DEF Doing, Inits
<1>. QED  BY <1>2, <1>3, <1>4, <1>5, ConfigAssumption, ZenonT(20)

(* The paths of init are four.                                             *)
LEMMA Apart ==
  ASSUME IdInv, HostsOnly, NEW p \in Proc, Inits(p)
  PROVE  /\ {"gsnet.conf", "ed25519_key.priv", "wg.priv", cmd[p].name} \subseteq Path
         /\ cmd[p].name \notin {"gsnet.conf", "ed25519_key.priv", "wg.priv"}
<1>1. cmd[p].name \in Node
  BY NodeName, ZenonT(20) DEF IdInv
<1>. QED  BY <1>1, ZenonT(20) DEF HostsOnly, Path

(* A file is opened.                                                       *)
LEMMA OpenStep ==
  ASSUME IdInv, HostsOnly, Total', NEW p \in Proc, OpenFile(p)
  PROVE  IdInv'
<1>1. Total /\ Doing(p) /\ Wrote(p) /\ pc[p] = "open" /\ cmd' = cmd
  BY ZenonT(20) DEF IdInv, OpenFile
<1>2. CASE Fail(p) /\ UNCHANGED disk
  BY <1>1, <1>2, GivesUp, ZenonT(20) DEF Fail, Running, Ended
<1>3. ASSUME disk' = [disk EXCEPT ![Head(todo[p]).path] = <<>>], MayCreate(p),
             Goto(p, "write"), UNCHANGED todo
      PROVE  IdInv'
  <2>. DEFINE f == Head(todo[p]).path
              n == cmd[p].name
  <2>1. \A g \in Path : disk'[g] = IF g = f THEN <<>> ELSE disk[g]
    BY <1>1, <1>3, Put, ZenonT(20)
  <2>2. pc'[p] = "write" /\ \A q \in Proc \ {p} : pc'[q] = pc[q]
    BY <1>1, <1>3, Moves, ZenonT(20)
  <2>3. Doing(p)'
    BY <1>1, <1>3, <2>2, ZenonT(20) DEF Doing
  <2>4. CASE ~Inits(p)
    <3>1. f \notin {"ed25519_key.priv", "wg.priv"} /\ (f \in Node => Imported(f))
      BY <1>1, <2>4, NextFile, ZenonT(20)
    <3>2. \A g \in Path : g # f => disk'[g] = disk[g]
      BY <2>1, ZenonT(20)
    <3>. HIDE DEF f
    <3>. QED  BY <1>1, <1>3, <2>2, <2>3, <2>4, <3>1, <3>2, OtherStep, ZenonT(20)
  <2>5. CASE Inits(p)
    <3>1. disk[f] = NoFile /\ Inits(p)'
      BY <1>1, <1>3, <2>5, ZenonT(20) DEF MayCreate, Inits
    <3>2. {"gsnet.conf", "ed25519_key.priv", "wg.priv", n} \subseteq Path
          /\ n \notin {"gsnet.conf", "ed25519_key.priv", "wg.priv"}
      BY <2>5, Apart, ZenonT(20)
    <3>3. NoFile # <<>> /\ NoFile # <<p>>
      BY ConfigAssumption, ZenonT(20)
    <3>4. SUFFICES Wrote(p)' /\ \A q \in Proc \ {p} : ~Owns(q)
      BY <1>1, <1>3, <2>2, <2>3, OwnerStep, ZenonT(20)
    <3>5. CASE todo[p] = InitWrites(p, n)
      <4>1. f = "ed25519_key.priv"
        <5>1. Follows(p, n, todo[p])
          BY <3>2, <3>5, InitNext, ZenonT(20)
        <5>. QED  BY <3>5, <5>1, ZenonT(20) DEF Follows
      <4>2. \A q \in Proc : ~Owns(q)
        BY <3>1, <4>1, ZenonT(20) DEF IdInv, Wrote, Owns
      <4>3. disk'["ed25519_key.priv"] # NoFile
        BY <2>1, <3>2, <3>3, <4>1, ZenonT(20)
      <4>4. Wrote(p)'
        BY <1>1, <1>3, <3>5, <4>3, InitDistinct, ZenonT(20) DEF Wrote
      <4>. QED  BY <4>2, <4>4
    <3>6. CASE todo[p] # InitWrites(p, n)
      <4>1. \A q \in Proc \ {p} : ~Owns(q)
        BY <2>5, <3>6, ZenonT(20) DEF IdInv, Owns
      <4>2. disk["ed25519_key.priv"] = <<p>>
        BY <1>1, <2>5, <3>6, ZenonT(20) DEF Wrote
      <4>3. disk'["ed25519_key.priv"] = <<p>>
        BY <2>1, <3>1, <3>2, <3>3, <4>2, ZenonT(20)
      <4>4. todo[p] # <<>>
        BY <1>1, <2>5, ZenonT(20) DEF Doing, Inits
      <4>5. ASSUME todo[p] \in {Left2(p, n), Left1(p, n), <<>>}
            PROVE  disk'["wg.priv"] = <<p>>
        BY <1>1, <2>1, <2>5, <3>1, <3>2, <3>3, <4>5, ZenonT(20) DEF Wrote
      <4>6. Wrote(p)'
        BY <1>1, <1>3, <3>3, <4>3, <4>4, <4>5, ZenonT(20) DEF Wrote
      <4>. QED  BY <4>1, <4>6
    <3>. QED  BY <3>5, <3>6
  <2>. QED  BY <2>4, <2>5
<1>. QED  BY <1>2, <1>3, ZenonT(20) DEF OpenFile

(* A file is written.                                                      *)
LEMMA WriteStep ==
  ASSUME IdInv, HostsOnly, Total', NEW p \in Proc, WriteFile(p)
  PROVE  IdInv'
<1>. DEFINE w == Head(todo[p])
            n == cmd[p].name
<1>1. Total /\ Doing(p) /\ Wrote(p) /\ pc[p] = "write" /\ cmd' = cmd
  BY ZenonT(20) DEF IdInv, WriteFile
<1>2. \A g \in Path : disk'[g] = IF g = w.path THEN w.text ELSE disk[g]
  BY <1>1, Put, ZenonT(20) DEF WriteFile
<1>3. /\ pc'[p] = IF Tail(todo[p]) = <<>> THEN "ok" ELSE "open"
      /\ todo'[p] = Tail(todo[p])
      /\ \A q \in Proc \ {p} : pc'[q] = pc[q] /\ todo'[q] = todo[q]
  BY <1>1, Proceeds, ZenonT(20) DEF WriteFile
<1>4. CASE ~Inits(p)
  <2>1. todo[p] # <<>> => \A S : todo[p] \in Seq(S) => Tail(todo[p]) \in Seq(S)
    OBVIOUS
  <2>2. \A text : todo[p] = <<Write("gsnet.conf", text)>> => Tail(todo[p]) = <<>>
    BY Lists
  <2>3. Doing(p)'
    BY <1>1, <1>3, <1>4, <2>1, <2>2, ZenonT(20) DEF Doing, Inits, Edit
  <2>. QED  BY <1>1, <1>2, <1>3, <1>4, <2>3, NextFile, OtherStep, ZenonT(20)
<1>5. CASE Inits(p)
  <2>1. /\ {"gsnet.conf", "ed25519_key.priv", "wg.priv", n} \subseteq Path
        /\ n \notin {"gsnet.conf", "ed25519_key.priv", "wg.priv"}
    BY <1>5, Apart, ZenonT(20)
  <2>2. NoFile # <<p>>
    BY ConfigAssumption, ZenonT(20)
  <2>3. \A q \in Proc \ {p} : ~Owns(q)
    BY <1>1, <1>5, ZenonT(20) DEF IdInv, Owns
  <2>4. todo[p] \in {InitWrites(p, n), Left3(p, n), Left2(p, n), Left1(p, n)}
    BY <1>1, <1>5, ZenonT(20) DEF Doing, Inits
  <2>5. /\ todo'[p] \in {Left3(p, n), Left2(p, n), Left1(p, n), <<>>}
        /\ IF todo[p] = InitWrites(p, n)
           THEN /\ w.path = "ed25519_key.priv" /\ w.text = <<p>>
                /\ todo'[p] \notin {Left2(p, n), Left1(p, n), <<>>}
           ELSE w.path # "ed25519_key.priv"
        /\ IF todo[p] = Left3(p, n) THEN w.path = "wg.priv" /\ w.text = <<p>>
           ELSE w.path # "wg.priv"
        /\ todo'[p] = <<>> => w.path = n /\ w.text = PublicKeys(p)
    <3>1. Follows(p, n, todo[p])
      BY <2>1, <2>4, InitNext, ZenonT(20)
    <3>. QED  BY <1>3, <3>1, ZenonT(20) DEF Follows
  <2>6. Doing(p)'
    BY <1>1, <1>3, <1>5, <2>5, ZenonT(20) DEF Doing, Inits, Edit
  <2>7. disk'["ed25519_key.priv"] = <<p>>
    BY <1>1, <1>2, <1>5, <2>1, <2>5, ZenonT(20) DEF Wrote
  <2>8. ASSUME todo'[p] \in {Left2(p, n), Left1(p, n), <<>>}
        PROVE  disk'["wg.priv"] = <<p>>
    BY <1>1, <1>2, <1>5, <2>1, <2>4, <2>5, <2>8, ZenonT(20) DEF Wrote
  <2>9. ASSUME todo'[p] = <<>>
        PROVE  disk'[n] = PublicKeys(p)
    BY <1>2, <2>1, <2>5, <2>9, ZenonT(20)
  <2>10. Wrote(p)'
    BY <1>1, <2>2, <2>7, <2>8, <2>9, ZenonT(20) DEF Wrote
  <2>. QED  BY <1>1, <1>3, <2>3, <2>6, <2>10, OwnerStep, ZenonT(20)
<1>. QED  BY <1>4, <1>5

(* The files and the processes start as they should.                       *)
LEMMA IdInit == Init => IdInv
<1>. SUFFICES ASSUME Init PROVE IdInv
  OBVIOUS
<1>1. Total
  BY DEF Init, Total
<1>2. \A p \in Proc : cmd[p] = None /\ pc[p] = "new"
  BY ZenonT(20) DEF Init
<1>3. None.op = "none"
  BY DEF None
<1>4. \A p \in Proc : ~Inits(p)
  BY <1>2, <1>3, ZenonT(20) DEF Inits
<1>5. \A p \in Proc : Doing(p)
  BY <1>2, <1>3, ZenonT(20) DEF Doing, Edit
<1>. QED  BY <1>1, <1>4, <1>5, ZenonT(20) DEF IdInv, Wrote, Owns

(* Every step keeps the invariant.                                         *)
LEMMA IdStep ==
  ASSUME HostsOnly, IdInv, [Next]_vars
  PROVE  IdInv'
<1>1. Total'
  BY TotalStep DEF IdInv
<1>2. ASSUME NEW p \in Proc, Fault(p)
      PROVE  IdInv'
  BY <1>1, <1>2, GivesUp, ZenonT(20) DEF Fault, Fail, Running, Ended
<1>3. ASSUME UNCHANGED <<disk, cmd, pc, todo>>
      PROVE  IdInv'
  <2>1. \A n : Imported(n)' = Imported(n)
    BY <1>3, ZenonT(20) DEF Imported, Touches
  <2>2. \A p \in Proc : (Owns(p)' <=> Owns(p)) /\ (Doing(p) => Doing(p)')
    BY <1>3, Same, ZenonT(20)
  <2>3. \A p \in Proc : Wrote(p)'
    BY <1>3, <2>1, <2>2, StillWrote, ZenonT(20) DEF IdInv
  <2>. QED  BY <1>1, <2>2, <2>3, ZenonT(20) DEF IdInv
<1>4. CASE LoadConf \/ LoadEd \/ LoadWG \/ UNCHANGED vars
  BY <1>3, <1>4, ZenonT(20) DEF LoadConf, LoadEd, LoadWG, vars
<1>. QED
  BY <1>1, <1>2, <1>4, StartStep, ReadStep, OpenStep, WriteStep, ZenonT(20) DEF Next

(* At most one "gsnet init" succeeds, and it leaves the keys it generated, *)
(* if what is imported names nodes (writeFileExclusive in init.go).        *)
THEOREM IdentityHolds ==
  ASSUME HostsOnly
  PROVE  Spec => []OneIdentity
<1>2. IdInv /\ [Next]_vars => IdInv'
  BY IdStep
<1>3. IdInv => OneIdentity
  <2>. SUFFICES ASSUME IdInv, NEW p \in Proc, cmd[p].op = "init", pc[p] = "ok"
                PROVE  /\ disk["ed25519_key.priv"] = <<p>> /\ disk["wg.priv"] = <<p>>
                       /\ disk[cmd[p].name] = PublicKeys(p) \/ Imported(cmd[p].name)
    BY ZenonT(20) DEF OneIdentity, Imported
  <2>1. Inits(p) /\ todo[p] = <<>>
    BY ZenonT(20) DEF IdInv, Doing, Inits
  <2>. QED  BY <2>1, InitDistinct, ZenonT(20) DEF IdInv, Wrote
<1>. QED  BY <1>2, <1>3, IdInit, PTL DEF Spec

-----------------------------------------------------------------------------
(***************************************************************************)
(* Export and import.                                                      *)
(***************************************************************************)
(* Streams without a Name line, and a line more.                           *)
LEMMA NamelessAppend ==
  ASSUME NEW s \in Seq(Line), NEW l \in Line, Nameless(Append(s, l))
  PROVE  Nameless(s) /\ l.key # "Name"
<1> DEFINE r == Append(s, l)
<1>1. /\ DOMAIN r = 1..(Len(s) + 1) /\ DOMAIN s = 1..Len(s) /\ Len(s) \in Nat
      /\ r[Len(s) + 1] = l /\ \A i \in 1..Len(s) : r[i] = s[i]
  BY Appended
<1> HIDE DEF r
<1>2. Len(s) + 1 \in DOMAIN r /\ \A i \in DOMAIN s : i \in DOMAIN r /\ r[i] = s[i]
  BY <1>1
<1>3. Nameless(r)
  BY DEF r
<1> QED BY <1>1, <1>2, <1>3, Zenon DEF Nameless

(* A stream with one Name line, the first, makes one file.                 *)
LEMMA ImportOne ==
  ASSUME NEW n \in Node, NEW t \in Seq(Line), Nameless(t)
  PROVE  ImportWrites(<<Entry("Name", n)>> \o t) = <<Write(n, t)>>
<1> DEFINE h == Entry("Name", n)
           Is(u) == LET r == ImportLoop(<<h>> \o u)
                    IN  r.name = n /\ r.lines = u /\ r.out = <<>>
           G == {u \in Seq(Line) : Nameless(u) => Is(u)}
<1>1. h \in Line /\ h.key = "Name" /\ h.value = n
  <2>1. n \in Proc \cup STRING /\ "Name" \in STRING
    BY ConfigAssumption, Literals, Zenon
  <2>2. h \in Line
    BY <2>1, Fielded, Zenon
  <2>3. h.key = "Name" /\ h.value = n
    BY EntryFields, Zenon
  <2> QED BY <2>2, <2>3, Zenon
<1>2. Trim(h.value) = n
  BY <1>1, TrimFacts, ConfigAssumption, Zenon
<1> HIDE DEF h
<1>3. <<>> \in G
  <2>1. <<h>> \o <<>> = Append(<<>>, h) /\ <<>> \in Seq(Line)
    OBVIOUS
  <2>2. ImportLoop(<<h>> \o <<>>) = ImportLine(Fresh, h)
    BY <1>1, <2>1, ImportAppend, ImportNone, Zenon
  <2>3. Fresh.name = "" /\ Fresh.lines = <<>> /\ Fresh.out = <<>>
    BY DEF Fresh
  <2>4. Is(<<>>)
    BY <1>1, <1>2, <2>2, <2>3, FreshType, ImportTurn, Zenon
  <2> QED BY <2>1, <2>4, Zenon
<1>4. ASSUME NEW u \in Seq(Line), u \in G, NEW l \in Line PROVE Append(u, l) \in G
  <2>0. Append(u, l) \in Seq(Line)
    BY Appends, Zenon
  <2> SUFFICES ASSUME Nameless(Append(u, l)) PROVE Is(Append(u, l))
    BY <2>0, Zenon
  <2>1. Nameless(u) /\ l.key # "Name"
    BY NamelessAppend, Zenon
  <2>2. <<h>> \o Append(u, l) = Append(<<h>> \o u, l) /\ <<h>> \o u \in Seq(Line)
    BY <1>1
  <2> DEFINE r == ImportLoop(<<h>> \o u)
  <2>3. r.name = n /\ r.lines = u /\ r.out = <<>>
    BY <1>4, <2>1, Zenon
  <2>4. ImportLoop(<<h>> \o Append(u, l)) = ImportLine(r, l) /\ r \in Reading
    BY <2>2, ImportAppend, Zenon
  <2> HIDE DEF r
  <2> QED BY <2>1, <2>3, <2>4, ImportTurn, ZenonT(30)
<1>5. Seq(Line) \subseteq G
  <2> HIDE DEF G
  <2> QED BY <1>3, <1>4, SeqInduct
<1>6. Is(t) /\ n # ""
  BY <1>5, ConfigAssumption, Zenon
<1>7. ImportWrites(<<h>> \o t) = Append(<<>>, Write(n, t))
  BY <1>6, Zenon DEF ImportWrites
<1>8. \A w : Append(<<>>, w) = <<w>>
  OBVIOUS
<1> QED BY <1>7, <1>8, Zenon DEF h

(* What "gsnet export" prints of a tree of files of lines, "gsnet import"  *)
(* writes back.                                                            *)
LEMMA ExportIsImported ==
  ASSUME HostsOnly, TypeOK
  PROVE  ExportImports
<1>. DEFINE stream == Export(disk)
            n == GetFirst(LoadDirectory(disk["gsnet.conf"]), "Name")
            h == Entry("Name", n)
<1>. SUFFICES ASSUME stream # Bad, \A i \in 2..Len(stream) : stream[i].key # "Name"
              PROVE  ImportWrites(stream)
                       = <<Write(Trim(stream[1].value), disk[Trim(stream[1].value)])>>
  BY Zenon DEF ExportImports
<1>1. n \in Node /\ disk[n] # NoFile /\ stream = <<h>> \o disk[n]
  BY ZenonT(20) DEF Export
<1>. HIDE DEF stream, n
<1>2. disk[n] \in Seq(Line)
  <2>1. n \in Path /\ n \notin Keys
    BY <1>1, ZenonT(20) DEF HostsOnly, Path, Keys
  <2>. QED  BY <1>1, <2>1, ZenonT(20) DEF TypeOK, Keys
<1>3. ASSUME NEW t \in Seq(Line)
      PROVE  /\ (<<h>> \o t)[1] = h
             /\ \A i \in DOMAIN t : i + 1 \in 2..Len(<<h>> \o t) /\ (<<h>> \o t)[i + 1] = t[i]
  <2>. HIDE DEF h
  <2>. QED  OBVIOUS
<1>4. Nameless(disk[n])
  <2>. SUFFICES ASSUME NEW i \in DOMAIN disk[n] PROVE disk[n][i].key # "Name"
    BY Zenon DEF Nameless
  <2>1. i + 1 \in 2..Len(stream) /\ stream[i + 1] = disk[n][i]
    BY <1>1, <1>2, <1>3, Zenon
  <2>. QED  BY <2>1, Zenon
<1>5. stream[1] = h
  BY <1>1, <1>2, <1>3, Zenon
<1>6. stream[1].value = n
  BY <1>5 DEF Entry
<1>7. Trim(n) = n
  BY <1>1, TrimFacts, ConfigAssumption, Zenon
<1>8. ImportWrites(stream) = <<Write(n, disk[n])>>
  BY <1>1, <1>2, <1>4, ImportOne, Zenon
<1>. QED  BY <1>6, <1>7, <1>8, Zenon

(* What "gsnet export" prints is imported as the same host file, line by   *)
(* line, whenever the file has no Name line, if what is imported names     *)
(* nodes (cmdExport against cmdImport).                                    *)
THEOREM ExportHolds ==
  ASSUME HostsOnly
  PROVE  Spec => []ExportImports
<1>1. TypeOK => ExportImports
  BY ExportIsImported
<1>. QED  BY <1>1, TypeHolds, PTL

-----------------------------------------------------------------------------
(***************************************************************************)
(* Edits of gsnet.conf, one after the other.                               *)
(***************************************************************************)
(* An edit that can be written, and what it leaves of the values of a key. *)
Sound(c) ==
  /\ c.op \in Edit /\ Entry(c.key, c.value) \in Line
  /\ c.op # "del" => Usable(c.key, c.value)
Removes(c) == c.op \in {"set", "del"}
Remaining(values, c, k) ==
  IF k # c.key THEN values
  ELSE IF c.op = "set" THEN <<>>
  ELSE Pick(values, {i \in DOMAIN values : c.value \notin {"", values[i]}})

(* What an edit keeps of entries that were appended to.                    *)
LEMMA KeptAppend ==
  ASSUME NEW s \in Seq(Line), NEW e \in Line, NEW c, c.op # "add"
  PROVE  Kept(Append(s, e), c) = IF Stays(e, c) THEN Append(Kept(s, c), e) ELSE Kept(s, c)
<1> DEFINE r == Append(s, e)
           I == {i \in DOMAIN r : Stays(r[i], c)}
           J == {i \in DOMAIN s : Stays(s[i], c)}
<1>1. /\ DOMAIN r = 1..(Len(s) + 1) /\ DOMAIN s = 1..Len(s) /\ Len(s) \in Nat
      /\ r[Len(s) + 1] = e /\ \A i \in 1..Len(s) : r[i] = s[i]
  BY Appended
<1>2. (\A i \in 1..Len(s) : i \in I <=> i \in J) /\ (Len(s) + 1 \in I <=> Stays(e, c))
  <2> HIDE DEF r
  <2> QED BY <1>1
<1>3. Pick(r, I) = IF Stays(e, c) THEN Append(Pick(s, J), e) ELSE Pick(s, J)
  <2> HIDE DEF I, J
  <2> QED BY <1>2, PickAppend
<1> QED BY <1>3, Zenon DEF Kept

(* An edit keeps parsed entries as they are.                               *)
LEMMA KeptParsed == ASSUME NEW s, Parsed(s), NEW c PROVE Parsed(Kept(s, c))
<1>1. s \in Seq(Line)
  BY Zenon DEF Parsed
<1>2. CASE c.op = "add"
  BY <1>2, Zenon DEF Kept
<1>3. CASE c.op # "add"
  <2> DEFINE I == {i \in DOMAIN s : Stays(s[i], c)}
  <2>1. Kept(s, c) = Pick(s, I)
    BY <1>3, Zenon DEF Kept
  <2> HIDE DEF I
  <2>2. Pick(s, I) \in Seq(Line)
    BY <1>1, PickType
  <2>3. ASSUME NEW j \in DOMAIN Pick(s, I)
        PROVE  /\ Pick(s, I)[j].key # ""
               /\ Pick(s, I)[j].value \notin {""} \cup DOMAIN Padded
    <3>1. Pick(s, I)[j] \in Range(Pick(s, I))
      BY Zenon DEF Range
    <3>2. \A x \in Range(Pick(s, I)) : \E i \in DOMAIN s : i \in I /\ x = s[i]
      BY <1>1, PickFrom
    <3>3. PICK i \in DOMAIN s : Pick(s, I)[j] = s[i]
      BY <3>1, <3>2, Zenon
    <3> QED BY <3>3, Zenon DEF Parsed
  <2> QED BY <2>1, <2>2, <2>3, Zenon DEF Parsed
<1> QED BY <1>2, <1>3, Zenon

(* What an edit keeps of values that were appended to.                     *)
LEMMA RemainingAppend ==
  ASSUME NEW vs \in Seq(Proc \cup STRING), NEW e \in Line, NEW c, Removes(c)
  PROVE  Remaining(Append(vs, e.value), c, e.key)
           = IF Stays(e, c) THEN Append(Remaining(vs, c, e.key), e.value)
             ELSE Remaining(vs, c, e.key)
<1>1. CASE c.key # e.key
  BY <1>1, Zenon DEF Remaining, Stays
<1>2. CASE c.key = e.key /\ c.op = "set"
  BY <1>2, Zenon DEF Remaining, Stays
<1>3. CASE c.key = e.key /\ c.op # "set"
  <2> DEFINE v == e.value
             r == Append(vs, v)
             I == {i \in DOMAIN r : c.value \notin {"", r[i]}}
             J == {i \in DOMAIN vs : c.value \notin {"", vs[i]}}
             keep == c.value \notin {"", v}
  <2>1. v \in Proc \cup STRING
    BY Fielded, Zenon
  <2> HIDE DEF v
  <2>2. /\ DOMAIN r = 1..(Len(vs) + 1) /\ DOMAIN vs = 1..Len(vs) /\ Len(vs) \in Nat
        /\ r[Len(vs) + 1] = v /\ \A i \in 1..Len(vs) : r[i] = vs[i]
    BY <2>1, Appended
  <2>3. (\A i \in 1..Len(vs) : i \in I <=> i \in J) /\ (Len(vs) + 1 \in I <=> keep)
    <3> HIDE DEF r
    <3>1. Len(vs) + 1 \in DOMAIN r /\ 1..Len(vs) \subseteq DOMAIN r
      BY <2>2
    <3> QED BY <2>2, <3>1, Zenon
  <2>4. Pick(r, I) = IF keep THEN Append(Pick(vs, J), v) ELSE Pick(vs, J)
    <3> HIDE DEF I, J, keep
    <3> QED BY <2>1, <2>3, PickAppend
  <2>5. Stays(e, c) <=> keep
    BY <1>3, Zenon DEF Stays, v
  <2> QED BY <1>3, <2>4, <2>5, Zenon DEF Remaining, v
<1> QED BY <1>1, <1>2, <1>3, Zenon

(* The values of a key among what an edit keeps are what it keeps of the   *)
(* values.                                                                 *)
LEMMA KeptValues ==
  ASSUME NEW s \in Seq(Line), NEW c, Removes(c), NEW k
  PROVE  GetAll(Kept(s, c), k) = Remaining(GetAll(s, k), c, k)
<1> DEFINE G == {t \in Seq(Line) : GetAll(Kept(t, c), k) = Remaining(GetAll(t, k), c, k)}
<1>1. <<>> \in G
  <2>1. Kept(<<>>, c) = <<>>
    BY PickNone, Zenon DEF Kept, Removes
  <2>2. Remaining(<<>>, c, k) = <<>>
    BY PickNone, Zenon DEF Remaining
  <2>3. GetAll(<<>>, k) = <<>> /\ <<>> \in Seq(Line)
    BY GetAllNone
  <2> QED BY <2>1, <2>2, <2>3, Zenon
<1>2. ASSUME NEW t \in Seq(Line), t \in G, NEW e \in Line PROVE Append(t, e) \in G
  <2> DEFINE old == GetAll(t, k)
             new == IF e.key = k THEN Append(old, e.value) ELSE old
  <2>1. GetAll(Append(t, e), k) = new
    BY GetAllAppend, Zenon
  <2>2. GetAll(Kept(Append(t, e), c), k)
          = IF Stays(e, c) /\ e.key = k THEN Append(GetAll(Kept(t, c), k), e.value)
            ELSE GetAll(Kept(t, c), k)
    <3>1. Kept(t, c) \in Seq(Line)
      BY KeptType
    <3>2. GetAll(Append(Kept(t, c), e), k)
            = IF e.key = k THEN Append(GetAll(Kept(t, c), k), e.value) ELSE GetAll(Kept(t, c), k)
      BY <3>1, GetAllAppend, Zenon
    <3>3. Kept(Append(t, e), c) = IF Stays(e, c) THEN Append(Kept(t, c), e) ELSE Kept(t, c)
      BY KeptAppend, Zenon DEF Removes
    <3> QED BY <3>2, <3>3, Zenon
  <2>3. GetAll(Kept(t, c), k) = Remaining(old, c, k)
    BY <1>2, Zenon
  <2>4. old \in Seq(Proc \cup STRING) /\ e.value \in Proc \cup STRING
    BY GetAllType, Fielded, Zenon
  <2> HIDE DEF old
  <2>5. e.key = k => Remaining(Append(old, e.value), c, k)
          = IF Stays(e, c) THEN Append(Remaining(old, c, k), e.value)
            ELSE Remaining(old, c, k)
    <3>1. Remaining(Append(old, e.value), c, e.key)
            = IF Stays(e, c) THEN Append(Remaining(old, c, e.key), e.value)
              ELSE Remaining(old, c, e.key)
      BY <2>4, RemainingAppend, Zenon
    <3> QED BY <3>1, Zenon
  <2>6. GetAll(Kept(Append(t, e), c), k) = Remaining(new, c, k)
    BY <2>2, <2>3, <2>5, Zenon
  <2>7. Append(t, e) \in Seq(Line)
    OBVIOUS
  <2> QED BY <2>1, <2>6, <2>7, Zenon
<1>3. Seq(Line) \subseteq G
  <2> HIDE DEF G
  <2> QED BY <1>1, <1>2, SeqInduct
<1> QED BY <1>3, Zenon

(* The file that an edit writes, key by key.                               *)
LEMMA EditedValues ==
  ASSUME NEW es, Parsed(es), NEW c, Sound(c), NEW k
  PROVE  GetAll(Parse(Render(Edited(es, c))), k)
           = IF k = c.key THEN Changed(GetAll(es, k), c) ELSE GetAll(es, k)
<1> DEFINE kept == Kept(es, c)
           e == Entry(c.key, c.value)
           x == Entry(c.key, Trim(c.value))
           old == GetAll(es, k)
<1>1. es \in Seq(Line) /\ Parsed(kept) /\ kept \in Seq(Line)
  BY KeptParsed, Zenon DEF Parsed
<1>2. Edited(es, c) = IF c.op = "del" THEN kept ELSE Append(kept, e)
  BY Zenon DEF Edited, Kept, Stays, Filter
<1>3. e.key = c.key /\ e.value = c.value /\ x.key = c.key /\ x.value = Trim(c.value)
  BY EntryFields
<1>4. x \in Line
  BY <1>3, Fielded, TrimFacts, Zenon DEF Sound
<1>e. e \in Line
  BY Zenon DEF Sound
<1> HIDE DEF kept, e, x, old
<1>5. Render(Edited(es, c)) = Edited(es, c)
  <2>1. Append(kept, e) \in Seq(Line)
    BY <1>1, <1>e
  <2>2. Edited(es, c) \in Seq(Line)
    BY <1>1, <1>2, <2>1, Zenon
  <2> QED BY <2>2, RenderSame, Zenon
<1>6. c.op # "add" => GetAll(kept, k) = Remaining(old, c, k)
  <2>1. c.op # "add" => Removes(c)
    BY Zenon DEF Removes, Sound, Edit
  <2> QED BY <1>1, <2>1, KeptValues, Zenon DEF kept, old
<1>7. c.op = "add" => kept = es
  BY Zenon DEF Kept, kept
<1>8. CASE c.op = "del"
  <2>1. GetAll(Parse(Render(Edited(es, c))), k) = Remaining(old, c, k)
    BY <1>1, <1>2, <1>5, <1>6, <1>8, ParseAgain, Zenon
  <2> QED BY <1>8, <2>1, Zenon DEF Remaining, Changed, Filter, old
<1>9. CASE c.op # "del"
  <2>1. Parse(Append(kept, e)) = Append(kept, x)
    BY <1>1, <1>3, <1>9, <1>e, ParseMore, Zenon DEF x, Sound
  <2>2. GetAll(Parse(Render(Edited(es, c))), k)
          = IF k = c.key THEN Append(GetAll(kept, k), Trim(c.value)) ELSE GetAll(kept, k)
    <3>1. GetAll(Append(kept, x), k)
            = IF x.key = k THEN Append(GetAll(kept, k), x.value) ELSE GetAll(kept, k)
      BY <1>1, <1>4, GetAllAppend, Zenon
    <3> QED BY <1>2, <1>3, <1>5, <1>9, <2>1, <3>1, Zenon
  <2>3. CASE c.op = "set"
    <3>1. Append(<<>>, Trim(c.value)) = <<Trim(c.value)>>
      OBVIOUS
    <3> QED BY <1>6, <2>2, <2>3, <3>1, Zenon DEF Remaining, Changed, old
  <2>4. CASE c.op = "add"
    BY <1>7, <2>2, <2>4, Zenon DEF Changed, old
  <2> QED BY <1>9, <2>3, <2>4, Zenon DEF Edit, Sound
<1> QED BY <1>8, <1>9, Zenon

(* An edit that has read gsnet.conf has it as it is, and once the file is  *)
(* truncated as it was, because no command but imports runs beside it.     *)
Current == IF disk["gsnet.conf"] = NoFile THEN <<>> ELSE Parse(disk["gsnet.conf"])
Ready(p) ==
  cmd[p].op \in Edit =>
    /\ pc[p] = "open" =>
         /\ Parsed(Current)
         /\ todo[p] = <<Write("gsnet.conf", Render(Edited(Current, cmd[p])))>>
    /\ pc[p] = "write" =>
         /\ Parsed(was)
         /\ todo[p] = <<Write("gsnet.conf", Render(Edited(was, cmd[p])))>>
Alone ==
  \A p, q \in Proc :
    p # q /\ Running(p) /\ Running(q) /\ cmd[p].op \in Edit => cmd[q].op = "import"
EditInv == Alone /\ \A p \in Proc : Ready(p)

(* What an import writes next is a file of hosts/.                         *)
LEMMA ImportPath ==
  ASSUME IdInv, HostsOnly, NEW p \in Proc, pc[p] \in {"open", "write"}, cmd[p].op = "import"
  PROVE  Head(todo[p]).path \in Node /\ Head(todo[p]).path # "gsnet.conf"
<1>. DEFINE S == Range(ImportWrites(cmd[p].stream))
<1>1. Doing(p)
  BY DEF IdInv
<1>2. cmd[p] \in Command
  BY <1>1, ZenonT(20) DEF Doing
<1>3. todo[p] \in Seq(S) /\ todo[p] # <<>>
  BY <1>1, ZenonT(20) DEF Doing
<1>4. S \subseteq HostFile
  BY <1>2, StreamFiles, ZenonT(20)
<1>. HIDE DEF S
<1>5. Head(todo[p]) \in S
  BY <1>3
<1>6. Head(todo[p]).path \in Node
  BY <1>4, <1>5 DEF HostFile
<1>. QED  BY <1>6, ZenonT(20) DEF HostsOnly

(* An edit that does not move is still right about gsnet.conf.             *)
LEMMA StaysReady ==
  ASSUME NEW q \in Proc, Ready(q), cmd'[q] = cmd[q], pc'[q] = pc[q], todo'[q] = todo[q],
         Running(q) /\ cmd[q].op \in Edit =>
           disk'["gsnet.conf"] = disk["gsnet.conf"] /\ was' = was
  PROVE  Ready(q)'
<1>. SUFFICES ASSUME cmd[q].op \in Edit, pc[q] \in {"open", "write"} PROVE Ready(q)'
  BY ZenonT(20) DEF Ready
<1>1. Running(q)
  BY ZenonT(20) DEF Running, Ended
<1>2. Current' = Current /\ was' = was
  BY <1>1, ZenonT(20) DEF Current
<1>. QED  BY <1>2, ZenonT(20) DEF Ready

(* No edit begins beside another command, imports apart.                   *)
LEMMA StaysAlone ==
  ASSUME Alone, NEW p \in Proc, Running(p)' => Running(p), cmd' = cmd,
         \A q \in Proc \ {p} : pc'[q] = pc[q]
  PROVE  Alone'
<1>1. \A q \in Proc : Running(q)' => Running(q)
  BY ZenonT(20) DEF Running
<1>. QED  BY <1>1, ZenonT(20) DEF Alone

(* Nor does another command begin beside an edit.                          *)
LEMMA StartsAlone ==
  ASSUME ~Overlap, Total, Alone, NEW p \in Proc, NEW c \in Command, Start(p, c),
         \A q \in Proc \ {p} : pc'[q] = pc[q]
  PROVE  Alone'
<1>1. cmd'[p] = c /\ \A q \in Proc \ {p} : cmd'[q] = cmd[q]
  BY ZenonT(20) DEF Start, Total
<1>2. \/ c.op = "import"
      \/ \A q \in Proc : Running(q) => \/ cmd[q].op = "import"
                                       \/ cmd[q].op = "init" /\ c.op = "init"
  BY ZenonT(20) DEF Start, MayStart
<1>3. \A q \in Proc \ {p} : Running(q)' <=> Running(q)
  BY ZenonT(20) DEF Running
<1>4. "init" \notin Edit /\ "import" \notin Edit
  BY DEF Edit
<1>5. SUFFICES ASSUME NEW a \in Proc, NEW b \in Proc, a # b, Running(a)', Running(b)',
                      cmd'[a].op \in Edit
               PROVE  cmd'[b].op = "import"
  BY ZenonT(20) DEF Alone
<1>6. CASE a = p
  BY <1>1, <1>2, <1>3, <1>4, <1>5, <1>6, ZenonT(20)
<1>7. CASE b = p
  BY <1>1, <1>2, <1>3, <1>4, <1>5, <1>7, ZenonT(20)
<1>8. CASE a # p /\ b # p
  BY <1>1, <1>3, <1>5, <1>8, ZenonT(20) DEF Alone
<1>. QED  BY <1>6, <1>7, <1>8

(* Every step keeps an edit right about gsnet.conf.                        *)
LEMMA EditStep ==
  ASSUME HostsOnly, ~Overlap, IdInv, TypeOK, EditInv, [Next]_vars
  PROVE  EditInv'
<1>1. Total /\ Alone /\ \A p \in Proc : Ready(p)
  BY ZenonT(20) DEF IdInv, EditInv
<1>2. CASE UNCHANGED <<disk, cmd, pc, todo, was>>
  <2>1. \A p \in Proc : Ready(p)'
    BY <1>1, <1>2, StaysReady, ZenonT(20)
  <2>2. Alone'
    BY <1>1, <1>2, ZenonT(20) DEF Alone, Running
  <2>. QED  BY <2>1, <2>2 DEF EditInv
<1>3. ASSUME NEW p \in Proc, NEW c \in Command, Start(p, c) PROVE EditInv'
  <2>1. /\ pc[p] = "new" /\ cmd'[p] = c /\ (\A q \in Proc \ {p} : cmd'[q] = cmd[q])
        /\ UNCHANGED <<disk, was>>
    BY <1>1, <1>3, ZenonT(20) DEF Start, Total
  <2>2. /\ \A q \in Proc \ {p} : pc'[q] = pc[q] /\ todo'[q] = todo[q]
        /\ c.op \in Edit => pc'[p] = "read"
    <3>1. CASE \E where : Goto(p, where) /\ UNCHANGED todo /\ (c.op \in Edit => where = "read")
      BY <1>1, <3>1, Moves, ZenonT(20)
    <3>2. CASE c.op \notin Edit /\ \E writes : Proceed(p, writes)
      BY <1>1, <3>2, Proceeds, ZenonT(20)
    <3>3. "init" \notin Edit /\ "import" \notin Edit
      BY DEF Edit
    <3>. QED  BY <1>3, <3>1, <3>2, <3>3, ZenonT(20) DEF Start, Fail
  <2>3. Ready(p)'
    BY <2>1, <2>2, ZenonT(20) DEF Ready
  <2>4. \A q \in Proc \ {p} : Ready(q)'
    BY <1>1, <2>1, <2>2, StaysReady, ZenonT(20)
  <2>5. Alone'
    BY <1>1, <1>3, <2>2, StartsAlone, ZenonT(20)
  <2>. QED  BY <2>3, <2>4, <2>5, ZenonT(20) DEF EditInv
<1>4. ASSUME NEW p \in Proc, Running(p), cmd' = cmd, Ready(p)',
             \A q \in Proc \ {p} : pc'[q] = pc[q] /\ todo'[q] = todo[q],
             cmd[p].op = "import" => disk'["gsnet.conf"] = disk["gsnet.conf"] /\ was' = was
      PROVE  EditInv'
  <2>1. Alone'
    BY <1>1, <1>4, StaysAlone, ZenonT(20)
  <2>2. \A q \in Proc \ {p} : Ready(q)'
    BY <1>1, <1>4, StaysReady, ZenonT(20) DEF Alone
  <2>. QED  BY <1>4, <2>1, <2>2, ZenonT(20) DEF EditInv
<1>5. ASSUME NEW p \in Proc, Running(p), UNCHANGED <<disk, cmd, was, todo>>,
             NEW where \in {"failed", "killed"}, Goto(p, where)
      PROVE  EditInv'
  <2>1. pc'[p] = where /\ \A q \in Proc \ {p} : pc'[q] = pc[q]
    BY <1>1, <1>5, Moves
  <2>2. pc'[p] \notin {"open", "write"}
    BY <1>5, <2>1
  <2>3. Ready(p)'
    BY <2>2, ZenonT(20) DEF Ready
  <2>. QED  BY <1>4, <1>5, <2>1, <2>3, ZenonT(20)
<1>6. ASSUME NEW p \in Proc, ReadConf(p) PROVE EditInv'
  <2>. DEFINE w == Write("gsnet.conf", Render(Edited(Current, cmd[p])))
  <2>1. /\ pc[p] = "read" /\ cmd[p].op \in Edit /\ UNCHANGED <<disk, cmd, was>> /\ Running(p)
        /\ cmd[p].op # "import"
    BY <1>6, ZenonT(20) DEF IdInv, Doing, ReadConf, Running, Ended, Edit
  <2>2. CASE Fail(p)
    BY <1>5, <2>1, <2>2, ZenonT(20) DEF Fail
  <2>3. CASE Current # Bad /\ Proceed(p, <<w>>)
    <3>1. Parsed(Current)
      <4>1. disk["gsnet.conf"] = NoFile \/ disk["gsnet.conf"] \in Seq(Line)
        BY ZenonT(20) DEF TypeOK, Path
      <4>2. <<>> \in Seq(Line) /\ DOMAIN <<>> = {}
        BY Empty
      <4>3. Parsed(<<>>)
        BY <4>2, Zenon DEF Parsed
      <4>. QED  BY <2>3, <4>1, <4>3, ParseIsParsed, Zenon DEF Current
    <3>2. Current' = Current
      BY <2>1, Zenon DEF Current
    <3>3. <<w>> # <<>>
      OBVIOUS
    <3>4. /\ pc'[p] = "open" /\ todo'[p] = <<w>>
          /\ \A q \in Proc \ {p} : pc'[q] = pc[q] /\ todo'[q] = todo[q]
      BY <1>1, <2>3, <3>3, Proceeds, ZenonT(20)
    <3>5. Ready(p)'
      BY <2>1, <3>1, <3>2, <3>4, ZenonT(20) DEF Ready
    <3>. QED  BY <1>4, <2>1, <3>4, <3>5, ZenonT(20)
  <2>. QED  BY <1>6, <2>2, <2>3, ZenonT(20) DEF ReadConf, Current
<1>7. ASSUME NEW p \in Proc, OpenFile(p) PROVE EditInv'
  <2>1. pc[p] = "open" /\ cmd' = cmd /\ Running(p)
    BY <1>7, ZenonT(20) DEF OpenFile, Running, Ended
  <2>2. CASE Fail(p) /\ UNCHANGED <<disk, was>>
    BY <1>5, <2>1, <2>2, ZenonT(20) DEF Fail
  <2>3. CASE /\ disk' = [disk EXCEPT ![Head(todo[p]).path] = <<>>]
             /\ Goto(p, "write") /\ UNCHANGED todo
             /\ was' = IF cmd[p].op \notin Edit THEN was ELSE Current
    <3>1. pc'[p] = "write" /\ \A q \in Proc \ {p} : pc'[q] = pc[q]
      BY <1>1, <2>3, Moves, ZenonT(20)
    <3>2. Ready(p)'
      BY <1>1, <2>1, <2>3, <3>1, ZenonT(20) DEF Ready
    <3>3. ASSUME cmd[p].op = "import"
          PROVE  disk'["gsnet.conf"] = disk["gsnet.conf"] /\ was' = was
      <4>1. Head(todo[p]).path # "gsnet.conf" /\ "gsnet.conf" \in Path
        BY <2>1, <3>3, ImportPath, ZenonT(20) DEF Path
      <4>. QED  BY <1>1, <2>3, <3>3, <4>1, Put, ZenonT(20) DEF Edit
    <3>. QED  BY <1>4, <2>1, <2>3, <3>1, <3>2, <3>3, ZenonT(20)
  <2>. QED  BY <1>7, <2>2, <2>3, ZenonT(20) DEF OpenFile, Current
<1>8. ASSUME NEW p \in Proc, WriteFile(p) PROVE EditInv'
  <2>1. pc[p] = "write" /\ cmd' = cmd /\ was' = was /\ Running(p)
    BY <1>8, ZenonT(20) DEF WriteFile, Running, Ended
  <2>2. /\ pc'[p] = IF Tail(todo[p]) = <<>> THEN "ok" ELSE "open"
        /\ \A q \in Proc \ {p} : pc'[q] = pc[q] /\ todo'[q] = todo[q]
    BY <1>1, <1>8, Proceeds, ZenonT(20) DEF WriteFile
  <2>3. ASSUME cmd[p].op \in Edit PROVE pc'[p] = "ok"
    <3>1. \A w : Tail(<<w>>) = <<>>
      BY Lists
    <3>. QED  BY <1>1, <2>1, <2>2, <2>3, <3>1, ZenonT(20) DEF Ready
  <2>4. Ready(p)'
    BY <2>1, <2>3, ZenonT(20) DEF Ready
  <2>5. ASSUME cmd[p].op = "import" PROVE disk'["gsnet.conf"] = disk["gsnet.conf"]
    <3>1. Head(todo[p]).path # "gsnet.conf" /\ "gsnet.conf" \in Path
      BY <2>1, <2>5, ImportPath, ZenonT(20) DEF Path
    <3>. QED  BY <1>1, <1>8, <3>1, Put, ZenonT(20) DEF WriteFile
  <2>. QED  BY <1>4, <2>1, <2>2, <2>4, <2>5, ZenonT(20)
<1>9. ASSUME NEW p \in Proc, Fault(p) PROVE EditInv'
  BY <1>5, <1>9, ZenonT(20) DEF Fault, Fail, Running, Ended
<1>10. CASE LoadConf \/ LoadEd \/ LoadWG \/ UNCHANGED vars
  BY <1>2, <1>10, ZenonT(20) DEF LoadConf, LoadEd, LoadWG, vars
<1>. QED  BY <1>3, <1>6, <1>7, <1>8, <1>9, <1>10, ZenonT(20) DEF Next

(* The write that ends an edit.                                            *)
LEMMA EditEnds ==
  ASSUME EditsAKey, IdInv, EditInv, Next, NEW p \in Proc,
         pc[p] = "write", pc'[p] = "ok", cmd[p].op \in Edit,
         cmd[p].op = "del" \/ Trim(cmd[p].value) # "", NEW k
  PROVE  GetAll(Parse(disk'["gsnet.conf"]), k)
           = IF k = cmd[p].key THEN Changed(GetAll(was, k), cmd[p]) ELSE GetAll(was, k)
<1>1. Total /\ Ready(p) /\ Doing(p)
  BY ZenonT(20) DEF IdInv, EditInv
<1>2. WriteFile(p)
  <2>1. ASSUME NEW q \in Proc, NEW where, Goto(q, where)
        PROVE  q = p /\ where = "ok"
    BY <1>1, <2>1, Moves, ZenonT(20)
  <2>2. ASSUME NEW q \in Proc, NEW c \in Command, Start(q, c) PROVE FALSE
    <3>1. pc[q] = "new" /\ \E where : Goto(q, where)
      BY <2>2, ZenonT(20) DEF Start, Proceed, Fail
    <3>. QED  BY <2>1, <3>1, ZenonT(20)
  <2>3. ASSUME NEW q \in Proc, ReadConf(q) PROVE FALSE
    <3>1. pc[q] = "read" /\ \E where : Goto(q, where)
      BY <2>3, ZenonT(20) DEF ReadConf, Proceed, Fail
    <3>. QED  BY <2>1, <3>1, ZenonT(20)
  <2>4. ASSUME NEW q \in Proc, OpenFile(q) PROVE FALSE
    <3>1. pc[q] = "open" /\ \E where : Goto(q, where)
      BY <2>4, ZenonT(20) DEF OpenFile, Fail
    <3>. QED  BY <2>1, <3>1, ZenonT(20)
  <2>5. ASSUME NEW q \in Proc, Fault(q) PROVE FALSE
    <3>1. \E where \in {"failed", "killed"} : Goto(q, where)
      BY <2>5, ZenonT(20) DEF Fault, Fail
    <3>. QED  BY <2>1, <3>1, ZenonT(20)
  <2>6. ASSUME NEW q \in Proc, WriteFile(q) PROVE q = p
    BY <2>1, <2>6, ZenonT(20) DEF WriteFile, Proceed
  <2>7. ~(LoadConf \/ LoadEd \/ LoadWG)
    BY ZenonT(20) DEF LoadConf, LoadEd, LoadWG
  <2>. QED  BY <2>2, <2>3, <2>4, <2>5, <2>6, <2>7, ZenonT(20) DEF Next
<1>. DEFINE w == Write("gsnet.conf", Render(Edited(was, cmd[p])))
<1>3. todo[p] = <<w>> /\ Parsed(was)
  BY <1>1, ZenonT(20) DEF Ready
<1>4. Head(todo[p]) = w
  <2>1. \A x : Head(<<x>>) = x
    BY Lists, Zenon
  <2>. QED  BY <1>3, <2>1, Zenon
<1>5. disk'["gsnet.conf"] = Render(Edited(was, cmd[p]))
  <2>1. w.path = "gsnet.conf" /\ w.text = Render(Edited(was, cmd[p])) /\ "gsnet.conf" \in Path
    BY Fields, Zenon DEF Path
  <2>2. disk' = [disk EXCEPT ![w.path] = w.text]
    BY <1>2, <1>4, ZenonT(20) DEF WriteFile
  <2>. HIDE DEF w
  <2>. QED  BY <1>1, <2>1, <2>2, Put, ZenonT(20)
<1>6. Sound(cmd[p])
  <2>1. cmd[p] \in Command
    BY <1>1, ZenonT(20) DEF Doing
  <2>2. Entry(cmd[p].key, cmd[p].value) \in Line
    BY <2>1, ConfigAssumption, ZenonT(20) DEF Edit
  <2>3. cmd[p].op # "del" => cmd[p].key # ""
    BY <2>1, ZenonT(20) DEF EditsAKey, Edit
  <2>. QED  BY <2>2, <2>3, ZenonT(20) DEF Sound, Usable
<1>7. GetAll(Parse(Render(Edited(was, cmd[p]))), k)
        = IF k = cmd[p].key THEN Changed(GetAll(was, k), cmd[p]) ELSE GetAll(was, k)
  <2>. DEFINE c == cmd[p]
              es == was
  <2>1. Parsed(es) /\ Sound(c)
    BY <1>3, <1>6, ZenonT(20)
  <2>. HIDE DEF c, es
  <2>2. GetAll(Parse(Render(Edited(es, c))), k)
          = IF k = c.key THEN Changed(GetAll(es, k), c) ELSE GetAll(es, k)
    BY <2>1, EditedValues, ZenonT(20)
  <2>. QED  BY <2>2, Zenon DEF c, es
<1>. QED  BY <1>5, <1>7, Zenon

(* An edit of gsnet.conf that reports success has changed, key by key,     *)
(* what was there as it was asked to and nothing else, whatever imports,   *)
(* reloads and crashes happen meanwhile, if edits are run one after the    *)
(* other and are of a key that a line can have (mutateConf, cmdDel).       *)
THEOREM EditHolds ==
  ASSUME HostsOnly, EditsAKey, ~Overlap
  PROVE  Spec => EditIsExact
<1>1. IdInv /\ [Next]_vars => IdInv'
  BY IdStep
<1>3. IdInv /\ TypeOK /\ EditInv /\ [Next]_vars => EditInv'
  BY EditStep
<1>4. Init => EditInv
  <2>. SUFFICES ASSUME Init PROVE EditInv
    OBVIOUS
  <2>1. \A p \in Proc : pc[p] = "new"
    BY ZenonT(20) DEF Init
  <2>2. \A p \in Proc : ~Running(p)
    BY <2>1, ZenonT(20) DEF Running
  <2>. QED  BY <2>1, <2>2, ZenonT(20) DEF EditInv, Ready, Alone
<1>. DEFINE Exact ==
       \A p \in Proc :
         pc[p] = "write" /\ pc'[p] = "ok" /\ cmd[p].op \in Edit
           /\ (cmd[p].op = "del" \/ Trim(cmd[p].value) # "") =>
           LET now == Parse(disk'["gsnet.conf"])
           IN  \A k \in {"Name", "Subnet", "ConnectTo", "Mode"} :
                 GetAll(now, k) = IF k = cmd[p].key THEN Changed(GetAll(was, k), cmd[p])
                                  ELSE GetAll(was, k)
<1>5. IdInv /\ EditInv /\ [Next]_vars => [Exact]_vars
  BY EditEnds, ZenonT(20)
<1>6. EditIsExact <=> [][Exact]_vars
  BY DEF EditIsExact
<1>. HIDE DEF Exact
<1>. QED  BY <1>1, <1>3, <1>4, <1>5, <1>6, IdInit, TypeHolds, PTL DEF Spec

-----------------------------------------------------------------------------
(***************************************************************************)
(* The lines of a stream that belong to a host.                            *)
(***************************************************************************)
(* The lines of a stream that belong to host n: those from its last Name   *)
(* line, at, to the next, end, and for the first host those before.        *)
Heads(s) == {i \in DOMAIN s : s[i].key = "Name"}
BlockAt(s, n, at, end, text) ==
  /\ at \in Heads(s) /\ Trim(s[at].value) = n
  /\ \A i \in Heads(s) : i > at => Trim(s[i].value) # n
  /\ end \in Heads(s) \cup {Len(s) + 1} /\ end > at
  /\ \A i \in Heads(s) : i > at => i >= end
  /\ text = (IF \A i \in Heads(s) : at <= i THEN SubSeq(s, 1, at - 1) ELSE <<>>)
              \o SubSeq(s, at + 1, end - 1)

(* The host named last, and the last file written for a host.              *)
Top(s, n) == \E i \in Heads(s) : (\A k \in Heads(s) : k <= i) /\ Trim(s[i].value) = n
Last(writes, n, j) ==
  /\ j \in DOMAIN writes /\ writes[j].path = n
  /\ \A k \in DOMAIN writes : k > j => writes[k].path # n
LastIs(o, w, n, j) ==
  \/ n = w.path /\ Append(o, w)[j] = w
  \/ n # w.path /\ Last(o, n, j) /\ Append(o, w)[j] = o[j]
Covered(s, writes) ==
  \A n, j : Last(writes, n, j) => \E at, end : BlockAt(s, n, at, end, writes[j].text)
Fits(s) ==
  LET r == ImportLoop(s)
  IN  /\ Heads(s) = {} => Unnamed(r) /\ r.lines = s /\ r.out = <<>>
      /\ Heads(s) # {} => ~Unnamed(r) /\ Top(s, r.name)
      /\ Covered(s, ImportWrites(s))

(* The Name lines of a stream that is continued.                           *)
LEMMA HeadsAppend ==
  ASSUME NEW s \in Seq(Line), NEW l \in Line
  PROVE  LET r == Append(s, l)
         IN  /\ Heads(r) = IF l.key = "Name" THEN Heads(s) \cup {Len(s) + 1} ELSE Heads(s)
             /\ Heads(s) \subseteq 1..Len(s) /\ Len(s) \in Nat
             /\ r \in Seq(Line) /\ Len(r) = Len(s) + 1 /\ r[Len(s) + 1] = l
             /\ \A i \in 1..Len(s) : r[i] = s[i]
<1>. DEFINE r == Append(s, l)
<1>1. /\ DOMAIN r = 1..(Len(s) + 1) /\ DOMAIN s = 1..Len(s) /\ Len(s) \in Nat
      /\ r[Len(s) + 1] = l /\ \A i \in 1..Len(s) : r[i] = s[i]
  BY Appended
<1>2. r \in Seq(Line) /\ Len(r) = Len(s) + 1
  OBVIOUS
<1>. HIDE DEF r
<1>3. Heads(s) \subseteq 1..Len(s)
  BY <1>1 DEF Heads
<1>4. Heads(r) = IF l.key = "Name" THEN Heads(s) \cup {Len(s) + 1} ELSE Heads(s)
  BY <1>1 DEF Heads
<1>. QED  BY <1>1, <1>2, <1>3, <1>4, SMTT(20) DEF r

(* The pieces of a sequence that is continued.                             *)
LEMMA Pieces ==
  ASSUME NEW s \in Seq(Line), NEW l \in Line
  PROVE  LET r == Append(s, l)
         IN  /\ \A a \in 1..(Len(s) + 2), b \in 0..Len(s) : SubSeq(r, a, b) = SubSeq(s, a, b)
             /\ \A a \in 1..(Len(s) + 1) :
                  SubSeq(r, a, Len(s) + 1) = Append(SubSeq(s, a, Len(s)), l)
             /\ SubSeq(r, 1, Len(s)) = s /\ SubSeq(r, Len(s) + 2, Len(s) + 1) = <<>>
             /\ \A a \in 1..(Len(s) + 1), b \in 0..Len(s) : SubSeq(s, a, b) \in Seq(Line)
<1>. DEFINE r == Append(s, l)
<1>1. \A a \in 1..(Len(s) + 2), b \in 0..Len(s) : SubSeq(r, a, b) = SubSeq(s, a, b)
  OBVIOUS
<1>2. \A a \in 1..(Len(s) + 1) :
        SubSeq(r, a, Len(s) + 1) = Append(SubSeq(s, a, Len(s)), l)
  OBVIOUS
<1>3. SubSeq(r, 1, Len(s)) = s /\ SubSeq(r, Len(s) + 2, Len(s) + 1) = <<>>
  OBVIOUS
<1>4. \A a \in 1..(Len(s) + 1), b \in 0..Len(s) : SubSeq(s, a, b) \in Seq(Line)
  OBVIOUS
<1>. QED  BY <1>1, <1>2, <1>3, <1>4, SMTT(20)

(* A line behind two lists is behind the second.                           *)
LEMMA Joined ==
  ASSUME NEW a \in Seq(Line), NEW b \in Seq(Line), NEW l \in Line
  PROVE  Append(a \o b, l) = a \o Append(b, l)
OBVIOUS

(* A line that is not for host n leaves it its lines.                      *)
LEMMA BlockOther ==
  ASSUME NEW s \in Seq(Line), NEW l \in Line, NEW n, NEW at, NEW end, NEW text,
         BlockAt(s, n, at, end, text),
         IF l.key = "Name" THEN Trim(l.value) # n ELSE end \in Heads(s)
  PROVE  BlockAt(Append(s, l), n, at, end, text)
<1>. DEFINE r == Append(s, l)
<1>1. /\ Heads(r) = IF l.key = "Name" THEN Heads(s) \cup {Len(s) + 1} ELSE Heads(s)
      /\ Heads(s) \subseteq 1..Len(s) /\ Len(s) \in Nat
      /\ Len(r) = Len(s) + 1 /\ r[Len(s) + 1] = l /\ \A i \in 1..Len(s) : r[i] = s[i]
  BY HeadsAppend, Zenon
<1>2. at \in 1..Len(s) /\ end \in 1..(Len(s) + 1) /\ end > at
  BY <1>1 DEF BlockAt
<1>3. \A a \in 1..(Len(s) + 2), b \in 0..Len(s) : SubSeq(r, a, b) = SubSeq(s, a, b)
  BY Pieces, Zenon
<1>. HIDE DEF r
<1>4. /\ SubSeq(r, 1, at - 1) = SubSeq(s, 1, at - 1)
      /\ SubSeq(r, at + 1, end - 1) = SubSeq(s, at + 1, end - 1)
  BY <1>1, <1>2, <1>3, SMTT(20)
<1>5. \A i \in Heads(r) : i \in Heads(s) \/ (i = Len(s) + 1 /\ l.key = "Name")
  BY <1>1
<1>6. at \in Heads(r) /\ Trim(r[at].value) = n
  BY <1>1, <1>2, SMTT(20) DEF BlockAt
<1>7. \A i \in Heads(r) : i > at => Trim(r[i].value) # n
  BY <1>1, <1>5, Zenon DEF BlockAt
<1>8. end \in Heads(r) \cup {Len(r) + 1} /\ \A i \in Heads(r) : i > at => i >= end
  BY <1>1, <1>2, <1>5, SMTT(20) DEF BlockAt
<1>9. (\A i \in Heads(r) : at <= i) <=> (\A i \in Heads(s) : at <= i)
  BY <1>1, <1>2, <1>5, SMTT(20)
<1>10. BlockAt(r, n, at, end, text)
  BY <1>2, <1>4, <1>6, <1>7, <1>8, <1>9, Zenon DEF BlockAt
<1>. QED  BY <1>10 DEF r

(* A line without a name goes to the host named last.                      *)
LEMMA BlockLast ==
  ASSUME NEW s \in Seq(Line), NEW l \in Line, NEW n, NEW at, NEW end, NEW text,
         BlockAt(s, n, at, end, text), Top(s, n), l.key # "Name"
  PROVE  BlockAt(Append(s, l), n, at, Len(s) + 2, Append(text, l))
<1>. DEFINE r == Append(s, l)
            pre == IF \A i \in Heads(s) : at <= i THEN SubSeq(s, 1, at - 1) ELSE <<>>
<1>1. /\ Heads(r) = Heads(s) /\ Heads(s) \subseteq 1..Len(s) /\ Len(s) \in Nat
      /\ Len(r) = Len(s) + 1 /\ r[Len(s) + 1] = l /\ \A i \in 1..Len(s) : r[i] = s[i]
  BY HeadsAppend, Zenon
<1>2. at \in 1..Len(s) /\ \A i \in Heads(s) : i <= at
  BY <1>1 DEF BlockAt, Top
<1>3. end = Len(s) + 1
  BY <1>1, <1>2 DEF BlockAt
<1>4. /\ SubSeq(r, 1, at - 1) = SubSeq(s, 1, at - 1)
      /\ SubSeq(r, at + 1, Len(s) + 1) = Append(SubSeq(s, at + 1, Len(s)), l)
      /\ SubSeq(s, at + 1, Len(s)) \in Seq(Line) /\ SubSeq(s, 1, at - 1) \in Seq(Line)
  <2>1. at - 1 \in 0..Len(s) /\ at + 1 \in 1..(Len(s) + 1) /\ 1 \in 1..(Len(s) + 1)
        /\ 1 \in 1..(Len(s) + 2) /\ Len(s) \in 0..Len(s)
    BY <1>1, <1>2
  <2>. QED  BY <2>1, Pieces, ZenonT(40)
<1>. HIDE DEF r
<1>5. text = pre \o SubSeq(s, at + 1, Len(s)) /\ pre \in Seq(Line)
  <2>1. (Len(s) + 1) - 1 = Len(s)
    BY <1>1
  <2>2. pre \in Seq(Line)
    BY <1>4, Empty, Zenon
  <2>. QED  BY <1>3, <2>1, <2>2, Zenon DEF BlockAt
<1>. HIDE DEF pre
<1>6. Append(text, l) = pre \o SubSeq(r, at + 1, Len(s) + 1)
  <2>. DEFINE t == SubSeq(s, at + 1, Len(s))
  <2>1. t \in Seq(Line) /\ text = pre \o t /\ SubSeq(r, at + 1, Len(s) + 1) = Append(t, l)
    BY <1>4, <1>5, Zenon
  <2>. HIDE DEF t
  <2>2. Append(pre \o t, l) = pre \o Append(t, l)
    BY <1>5, <2>1, Joined, Zenon
  <2>. QED  BY <2>1, <2>2, Zenon
<1>7. pre = IF \A i \in Heads(r) : at <= i THEN SubSeq(r, 1, at - 1) ELSE <<>>
  BY <1>1, <1>4, Zenon DEF pre
<1>8. at \in Heads(r) /\ Trim(r[at].value) = n /\ \A i \in Heads(r) : ~(i > at)
  BY <1>1, <1>2 DEF BlockAt
<1>9. Len(s) + 2 = Len(r) + 1 /\ Len(s) + 2 > at /\ (Len(s) + 2) - 1 = Len(s) + 1
  BY <1>1, <1>2
<1>10. BlockAt(r, n, at, Len(s) + 2, Append(text, l))
  BY <1>6, <1>7, <1>8, <1>9, Zenon DEF BlockAt
<1>. QED  BY <1>10 DEF r

(* A Name line starts a host, the first one with the lines before it.      *)
LEMMA BlockNew ==
  ASSUME NEW s \in Seq(Line), NEW l \in Line, NEW n, l.key = "Name", Trim(l.value) = n
  PROVE  /\ BlockAt(Append(s, l), n, Len(s) + 1, Len(s) + 2, IF Heads(s) = {} THEN s ELSE <<>>)
         /\ Top(Append(s, l), n)
<1>. DEFINE r == Append(s, l)
            at == Len(s) + 1
<1>1. /\ Heads(r) = Heads(s) \cup {at} /\ Heads(s) \subseteq 1..Len(s) /\ Len(s) \in Nat
      /\ Len(r) = Len(s) + 1 /\ r[at] = l
  BY HeadsAppend, Zenon
<1>2. SubSeq(r, 1, Len(s)) = s /\ SubSeq(r, Len(s) + 2, Len(s) + 1) = <<>>
  BY Pieces, Zenon
<1>3. at \in Heads(r) /\ Trim(r[at].value) = n /\ \A i \in Heads(r) : i <= at /\ ~(i > at)
  BY <1>1
<1>4. /\ Len(s) + 2 = Len(r) + 1 /\ Len(s) + 2 > at /\ (Len(s) + 2) - 1 = Len(s) + 1
      /\ at - 1 = Len(s) /\ at + 1 = Len(s) + 2
  BY <1>1
<1>5. (\A i \in Heads(r) : at <= i) <=> Heads(s) = {}
  BY <1>1
<1>6. s \o <<>> = s /\ <<>> \o <<>> = <<>>
  OBVIOUS
<1>. HIDE DEF r, at
<1>7. (IF Heads(s) = {} THEN s ELSE <<>>)
        = (IF \A i \in Heads(r) : at <= i THEN SubSeq(r, 1, at - 1) ELSE <<>>)
            \o SubSeq(r, at + 1, (Len(s) + 2) - 1)
  BY <1>2, <1>4, <1>5, <1>6, Zenon
<1>8. BlockAt(r, n, at, Len(s) + 2, IF Heads(s) = {} THEN s ELSE <<>>)
  BY <1>3, <1>4, <1>7, Zenon DEF BlockAt
<1>9. Top(r, n)
  BY <1>3, Zenon DEF Top
<1>. QED  BY <1>8, <1>9 DEF r, at

(* The lines of a host that is not the last one end at a Name line.        *)
LEMMA BlockEnd ==
  ASSUME NEW s \in Seq(Line), NEW n, NEW at, NEW end, NEW text,
         BlockAt(s, n, at, end, text), NEW m, Top(s, m), m # n
  PROVE  end \in Heads(s)
<1>1. Heads(s) \subseteq 1..Len(s) /\ Len(s) \in Nat
  <2>1. DOMAIN s = 1..Len(s) /\ Len(s) \in Nat
    OBVIOUS
  <2>. QED  BY <2>1 DEF Heads
<1>2. PICK i \in Heads(s) : (\A k \in Heads(s) : k <= i) /\ Trim(s[i].value) = m
  BY DEF Top
<1>3. i > at
  BY <1>1, <1>2 DEF BlockAt
<1>. QED  BY <1>1, <1>2, <1>3, SMTT(20) DEF BlockAt

(* There is one such piece.                                                *)
LEMMA BlockFound ==
  ASSUME NEW s \in Seq(Line), NEW n, NEW at, NEW end, NEW text,
         BlockAt(s, n, at, end, text)
  PROVE  Block(s, n) = text
<1>. DEFINE H == Heads(s)
            mine == {i \in H : Trim(s[i].value) = n}
            next == {i \in H : i > at} \cup {Len(s) + 1}
<1>1. H \subseteq Nat /\ Len(s) \in Nat /\ at \in H /\ at \in Nat
  <2>1. DOMAIN s = 1..Len(s) /\ Len(s) \in Nat
    OBVIOUS
  <2>. QED  BY <2>1 DEF Heads, BlockAt
<1>2. Max(mine) = at
  <2>1. at \in mine /\ mine \subseteq Nat /\ \A i \in mine : at >= i
    BY <1>1 DEF BlockAt
  <2>. HIDE DEF mine
  <2>2. \A x \in mine : (\A i \in mine : x >= i) => x = at
    BY <2>1
  <2>. QED  BY <2>1, <2>2, Zenon DEF Max
<1>3. Min(next) = end
  <2>1. end \in next /\ next \subseteq Nat /\ \A i \in next : end <= i
    BY <1>1 DEF BlockAt, Heads
  <2>. HIDE DEF next
  <2>2. \A x \in next : (\A i \in next : x <= i) => x = end
    BY <2>1
  <2>. QED  BY <2>1, <2>2, Zenon DEF Min
<1>4. at = Min(H) <=> \A i \in H : at <= i
  <2>. HIDE DEF H
  <2>1. PICK x \in H : \A y \in H : x <= y
    BY <1>1, Least
  <2>2. \A z \in H : (\A y \in H : z <= y) => z = x
    BY <1>1, <2>1
  <2>3. Min(H) = x
    BY <2>1, <2>2 DEF Min
  <2>. QED  BY <1>1, <2>1, <2>2, <2>3, SMTT(20)
<1>5. Block(s, n) = (IF at = Min(H) THEN SubSeq(s, 1, at - 1) ELSE <<>>)
                      \o SubSeq(s, at + 1, end - 1)
  BY <1>2, <1>3, Zenon DEF Block, Heads
<1>. QED  BY <1>4, <1>5, Zenon DEF BlockAt

(* The last file of a host among the files written, when one more is.      *)
LEMMA LastAmong ==
  ASSUME NEW o \in Seq(AnyWrite), NEW w \in AnyWrite, NEW n, NEW j, Last(Append(o, w), n, j)
  PROVE  LastIs(o, w, n, j)
<1>. DEFINE x == Append(o, w)
<1>1. /\ DOMAIN x = 1..(Len(o) + 1) /\ DOMAIN o = 1..Len(o) /\ Len(o) \in Nat
      /\ x[Len(o) + 1] = w /\ \A i \in 1..Len(o) : x[i] = o[i]
  BY Appended
<1>2. Last(x, n, j)
  OBVIOUS
<1>. HIDE DEF x
<1>3. (n = w.path /\ x[j] = w) \/ (n # w.path /\ Last(o, n, j) /\ x[j] = o[j])
  BY <1>1, <1>2 DEF Last
<1>. QED  BY <1>3, ZenonT(20) DEF x, LastIs

(* The last file for a host stays the last when one for another host is    *)
(* written.                                                                *)
LEMMA LastStays ==
  ASSUME NEW o \in Seq(AnyWrite), NEW w \in AnyWrite, NEW n, NEW j, Last(o, n, j), n # w.path
  PROVE  Last(Append(o, w), n, j) /\ Append(o, w)[j] = o[j]
<1>. DEFINE x == Append(o, w)
<1>1. /\ DOMAIN x = 1..(Len(o) + 1) /\ DOMAIN o = 1..Len(o) /\ Len(o) \in Nat
      /\ x[Len(o) + 1] = w /\ \A i \in 1..Len(o) : x[i] = o[i]
  BY Appended
<1>. HIDE DEF x
<1>2. Last(x, n, j) /\ x[j] = o[j]
  BY <1>1 DEF Last
<1>. QED  BY <1>2 DEF x

(* The file written last is the last one for its host.                     *)
LEMMA LastNew ==
  ASSUME NEW o \in Seq(AnyWrite), NEW w \in AnyWrite
  PROVE  Last(Append(o, w), w.path, Len(o) + 1) /\ Append(o, w)[Len(o) + 1] = w
<1>. DEFINE x == Append(o, w)
<1>1. /\ DOMAIN x = 1..(Len(o) + 1) /\ Len(o) \in Nat /\ x[Len(o) + 1] = w
  BY Appended
<1>. HIDE DEF x
<1>2. Last(x, w.path, Len(o) + 1)
  BY <1>1 DEF Last
<1>. QED  BY <1>1, <1>2 DEF x

(* A line without a name.                                                  *)
LEMMA CoverLine ==
  ASSUME NEW s \in Seq(Line), NEW l \in Line, l.key # "Name",
         NEW o \in Seq(AnyWrite), NEW n \in Proc \cup STRING, NEW lines \in Seq(Line),
         Covered(s, Append(o, Write(n, lines))), Top(s, n)
  PROVE  Covered(Append(s, l), Append(o, Write(n, Append(lines, l))))
<1>. DEFINE w == Write(n, lines)
            v == Write(n, Append(lines, l))
            x == Append(o, v)
<1>1. /\ w \in AnyWrite /\ w.path = n /\ w.text = lines
      /\ v \in AnyWrite /\ v.path = n /\ v.text = Append(lines, l)
  BY DEF Write, AnyWrite
<1>2. Covered(s, Append(o, w))
  OBVIOUS
<1>. HIDE DEF w, v
<1>3. SUFFICES ASSUME NEW m, NEW j, Last(x, m, j)
               PROVE  \E at, end : BlockAt(Append(s, l), m, at, end, x[j].text)
  BY Zenon DEF Covered, v
<1>4. CASE m = n /\ x[j] = v
  <2>1. Last(Append(o, w), n, Len(o) + 1) /\ Append(o, w)[Len(o) + 1] = w
    BY <1>1, LastNew
  <2>2. PICK at, end : BlockAt(s, n, at, end, lines)
    BY <1>1, <1>2, <2>1, Zenon DEF Covered
  <2>3. BlockAt(Append(s, l), n, at, Len(s) + 2, Append(lines, l))
    BY <2>2, BlockLast, Zenon
  <2>. QED  BY <1>1, <1>4, <2>3, ZenonT(20)
<1>5. CASE m # n /\ Last(o, m, j) /\ x[j] = o[j]
  <2>1. Last(Append(o, w), m, j) /\ Append(o, w)[j] = o[j]
    BY <1>1, <1>5, LastStays, ZenonT(20)
  <2>2. PICK at, end : BlockAt(s, m, at, end, o[j].text)
    BY <1>2, <2>1, Zenon DEF Covered
  <2>3. end \in Heads(s)
    BY <1>5, <2>2, BlockEnd
  <2>4. BlockAt(Append(s, l), m, at, end, o[j].text)
    BY <2>2, <2>3, BlockOther, Zenon
  <2>. QED  BY <1>5, <2>4, Zenon
<1>6. LastIs(o, v, m, j)
  BY <1>1, <1>3, LastAmong, SMTT(20)
<1>. QED  BY <1>1, <1>4, <1>5, <1>6, Zenon DEF LastIs

(* A Name line.                                                            *)
LEMMA CoverName ==
  ASSUME NEW s \in Seq(Line), NEW l \in Line, l.key = "Name",
         NEW o \in Seq(AnyWrite), Covered(s, o), NEW lines \in Seq(Line),
         lines = IF Heads(s) = {} THEN s ELSE <<>>
  PROVE  Covered(Append(s, l), Append(o, Write(Trim(l.value), lines)))
<1>. DEFINE n == Trim(l.value)
            v == Write(n, lines)
            x == Append(o, v)
<1>0. n \in Proc \cup STRING
  BY Fielded, TrimFacts, Zenon
<1>. HIDE DEF n
<1>1. v \in AnyWrite /\ v.path = n /\ v.text = lines
  BY <1>0 DEF Write, AnyWrite
<1>. HIDE DEF v
<1>2. SUFFICES ASSUME NEW m, NEW j, Last(x, m, j)
               PROVE  \E at, end : BlockAt(Append(s, l), m, at, end, x[j].text)
  BY Zenon DEF Covered, v, n
<1>3. CASE m = n /\ x[j] = v
  <2>1. BlockAt(Append(s, l), n, Len(s) + 1, Len(s) + 2, lines)
    BY BlockNew, Zenon DEF n
  <2>. QED  BY <1>1, <1>3, <2>1, Zenon
<1>4. CASE m # n /\ Last(o, m, j) /\ x[j] = o[j]
  <2>1. PICK at, end : BlockAt(s, m, at, end, o[j].text)
    BY <1>4, Zenon DEF Covered
  <2>2. BlockAt(Append(s, l), m, at, end, o[j].text)
    BY <1>4, <2>1, BlockOther, Zenon DEF n
  <2>. QED  BY <1>4, <2>2, Zenon
<1>5. LastIs(o, v, m, j)
  BY <1>1, <1>2, LastAmong, SMTT(20)
<1>. QED  BY <1>1, <1>3, <1>4, <1>5, Zenon DEF LastIs

(* Each file an import writes last for a host holds the host's lines.      *)
LEMMA ImportCovers ==
  ASSUME NEW s \in Seq(Line), Named(s)
  PROVE  Covered(s, ImportWrites(s))
<1>. DEFINE G == {t \in Seq(Line) : Named(t) => Fits(t)}
<1>1. <<>> \in G
  <2>1. <<>> \in Seq(Line) /\ DOMAIN <<>> = {}
    BY Empty
  <2>2. Heads(<<>>) = {}
    BY <2>1, Zenon DEF Heads
  <2>3. Fresh.name = "" /\ Fresh.lines = <<>> /\ Fresh.out = <<>>
    BY DEF Fresh
  <2>4. Unnamed(Fresh) /\ ImportWrites(<<>>) = <<>>
    BY <2>3, ImportNone, Zenon DEF Unnamed, ImportWrites
  <2>5. Covered(<<>>, <<>>)
    BY <2>1, Zenon DEF Covered, Last
  <2>6. Fits(<<>>)
    BY <2>2, <2>3, <2>4, <2>5, ImportNone, Zenon DEF Fits
  <2>. QED  BY <2>1, <2>6, Zenon
<1>2. ASSUME NEW t \in Seq(Line), t \in G, NEW l \in Line PROVE Append(t, l) \in G
  <2>0. Append(t, l) \in Seq(Line)
    BY Appends, Zenon
  <2>. SUFFICES ASSUME Named(Append(t, l)) PROVE Fits(Append(t, l))
    BY <2>0, Zenon
  <2>. DEFINE r == ImportLoop(t)
              u == ImportLine(r, l)
              x == Append(t, l)
              m == Trim(l.value)
  <2>1. Named(t) /\ (l.key = "Name" => m \in Node)
    BY NamedAppend
  <2>2. Fits(t)
    BY <1>2, <2>1, Zenon
  <2>3. r \in Reading /\ ImportLoop(x) = u
    BY ImportAppend, Zenon
  <2>4. r.name \in Proc \cup STRING /\ r.lines \in Seq(Line) /\ r.out \in Seq(AnyWrite)
    <3>. HIDE DEF r
    <3>. QED  BY <2>3 DEF Reading
  <2>5. /\ ImportWrites(t) = IF Unnamed(r) THEN r.out ELSE Append(r.out, Write(r.name, r.lines))
        /\ ImportWrites(x) = IF Unnamed(u) THEN u.out ELSE Append(u.out, Write(u.name, u.lines))
    BY <2>3, Zenon DEF ImportWrites, Unnamed
  <2>6. /\ Heads(t) = {} => Unnamed(r) /\ r.lines = t /\ r.out = <<>>
        /\ Heads(t) # {} => ~Unnamed(r) /\ Top(t, r.name)
        /\ Covered(t, ImportWrites(t))
    BY <2>2, Zenon DEF Fits
  <2>7. Heads(x) = IF l.key = "Name" THEN Heads(t) \cup {Len(t) + 1} ELSE Heads(t)
    BY HeadsAppend, Zenon
  <2>8. /\ l.key # "Name" => u.name = r.name /\ u.out = r.out /\ u.lines = Append(r.lines, l)
        /\ l.key = "Name" => u.name = m
        /\ l.key = "Name" /\ Unnamed(r) => u.lines = r.lines /\ u.out = r.out
        /\ l.key = "Name" /\ ~Unnamed(r) =>
             u.lines = <<>> /\ u.out = Append(r.out, Write(r.name, r.lines))
    BY <2>3, ImportTurn, Zenon DEF Unnamed
  <2>9. l.key = "Name" => ~Unnamed(u)
    BY <2>1, <2>8, ConfigAssumption, Zenon DEF Unnamed
  <2>. HIDE DEF r, u
  <2>10. CASE l.key # "Name" /\ Heads(t) = {}
    <3>1. Unnamed(u) /\ u.out = <<>> /\ u.lines = x /\ Heads(x) = {}
      BY <2>6, <2>7, <2>8, <2>10, Zenon DEF Unnamed
    <3>2. ImportWrites(x) = <<>>
      BY <2>5, <3>1, Zenon
    <3>3. DOMAIN <<>> = {}
      OBVIOUS
    <3>4. Covered(x, <<>>)
      BY <3>3, Zenon DEF Covered, Last
    <3>. QED  BY <2>3, <3>1, <3>2, <3>4, Zenon DEF Fits
  <2>11. CASE l.key # "Name" /\ Heads(t) # {}
    <3>1. ~Unnamed(r) /\ ~Unnamed(u) /\ Top(t, r.name) /\ Heads(x) # {} /\ Heads(x) = Heads(t)
      BY <2>6, <2>7, <2>8, <2>11, Zenon DEF Unnamed
    <3>2. Covered(t, Append(r.out, Write(r.name, r.lines)))
      BY <2>5, <2>6, <3>1, Zenon
    <3>3. Covered(x, Append(r.out, Write(r.name, Append(r.lines, l))))
      BY <2>4, <2>11, <3>1, <3>2, CoverLine, SMTT(20)
    <3>4. ImportWrites(x) = Append(r.out, Write(r.name, Append(r.lines, l)))
      BY <2>5, <2>8, <2>11, <3>1, Zenon
    <3>5. Top(x, u.name)
      <4>1. \A i \in Heads(t) : x[i] = t[i]
        <5>1. Heads(t) \subseteq 1..Len(t)
          BY HeadsAppend, Zenon
        <5>2. \A i \in 1..Len(t) : x[i] = t[i]
          BY HeadsAppend, Zenon
        <5>. QED  BY <5>1, <5>2, Zenon
      <4>2. u.name = r.name
        BY <2>8, <2>11, Zenon
      <4>. QED  BY <3>1, <4>1, <4>2, Zenon DEF Top
    <3>. QED  BY <2>3, <3>1, <3>3, <3>4, <3>5, Zenon DEF Fits
  <2>12. CASE l.key = "Name"
    <3>. DEFINE o == ImportWrites(t)
                v == IF Heads(t) = {} THEN t ELSE <<>>
    <3>1. u.name = m /\ u.out = o /\ u.lines = v
      BY <2>5, <2>6, <2>8, <2>12, Zenon
    <3>2. o \in Seq(AnyWrite) /\ v \in Seq(Line)
      <4>1. ASSUME ~Unnamed(r) PROVE Append(r.out, Write(r.name, r.lines)) \in Seq(AnyWrite)
        BY <2>4 DEF Write, AnyWrite
      <4>2. o \in Seq(AnyWrite)
        BY <2>4, <2>5, <4>1, Zenon
      <4>. QED  BY <4>2, Empty, Zenon
    <3>. HIDE DEF v, o
    <3>3. Covered(x, Append(o, Write(m, v)))
      <4>1. Covered(t, o)
        BY <2>6 DEF o
      <4>. QED  BY <2>12, <3>2, <4>1, CoverName, ZenonT(20) DEF v
    <3>4. ImportWrites(x) = Append(o, Write(m, v))
      BY <2>5, <2>9, <2>12, <3>1, Zenon
    <3>5. Top(x, u.name)
      BY <2>12, <3>1, BlockNew, Zenon
    <3>6. Heads(x) # {}
      BY <2>7, <2>12, Zenon
    <3>. QED  BY <2>3, <2>9, <2>12, <3>3, <3>4, <3>5, <3>6, Zenon DEF Fits
  <2>. QED  BY <2>10, <2>11, <2>12, SMTT(20)
<1>3. Seq(Line) \subseteq G
  <2>. HIDE DEF G
  <2>. QED  BY <1>1, <1>2, SeqInduct, SMTT(20)
<1>. QED  BY <1>3, Zenon DEF Fits

(* What cmdImport writes last for a host is the host's block.              *)
LEMMA ImportBlock ==
  ASSUME NEW s \in Seq(Line), Named(s), NEW n, NEW j, Last(ImportWrites(s), n, j)
  PROVE  ImportWrites(s)[j].text = Block(s, n)
<1>1. Covered(s, ImportWrites(s))
  BY ImportCovers
<1>2. PICK at, end : BlockAt(s, n, at, end, ImportWrites(s)[j].text)
  BY <1>1, Zenon DEF Covered
<1>. QED  BY <1>2, BlockFound, Zenon

-----------------------------------------------------------------------------
(***************************************************************************)
(* Imports.                                                                *)
(***************************************************************************)
(* How far an import has come: m of the files it makes are written.  What  *)
(* it wrote last for a host is on the disk, unless another command writes  *)
(* the host too or it is just writing the host again.                      *)
Files(p) == ImportWrites(cmd[p].stream)
Shared(p, n) == \E q \in Proc \ {p} : n \in Touches(q)
LastUpTo(W, m, n, j) == W[j].path = n /\ \A k \in 1..m : k > j => W[k].path # n
OnDisk(p, W, m) ==
  \A n \in Node, j \in 1..m :
    LastUpTo(W, m, n, j) /\ ~(pc[p] = "write" /\ W[m + 1].path = n) =>
      disk[n] = W[j].text \/ Shared(p, n)
Placed(p, W, m) ==
  /\ m \in 0..Len(W) /\ todo[p] = SubSeq(W, m + 1, Len(W))
  /\ pc[p] \in {"open", "write", "ok"} => OnDisk(p, W, m)
  /\ pc[p] = "ok" => m = Len(W)
Importing(p) == \E W, m : W = Files(p) /\ Placed(p, W, m)
FaithInv == \A p \in Proc : cmd[p].op = "import" => Importing(p)

(* The files of an import are files of hosts/.                             *)
LEMMA FilesType ==
  ASSUME HostsOnly, NEW c \in Command, c.op = "import"
  PROVE  c.stream \in Seq(Line) /\ Named(c.stream) /\ ImportWrites(c.stream) \in Seq(HostFile)
<1>1. c.stream \in Seq(Line)
  BY ConfigAssumption, ZenonT(20) DEF Edit
<1>2. Named(c.stream)
  BY ZenonT(20) DEF HostsOnly, Named
<1>. QED  BY <1>1, <1>2, ImportHosts, ZenonT(20)

(* The files of a list from the next one on.                               *)
LEMMA RestEmpty ==
  ASSUME NEW W \in Seq(HostFile), NEW m \in 0..Len(W)
  PROVE  SubSeq(W, m + 1, Len(W)) = <<>> <=> m = Len(W)
<1>. DEFINE t == SubSeq(W, m + 1, Len(W))
<1>1. Len(t) = Len(W) - m /\ t \in Seq(HostFile) /\ Len(W) \in Nat
  OBVIOUS
<1>. HIDE DEF t
<1>2. t = <<>> <=> Len(t) = 0
  BY <1>1
<1>3. ASSUME NEW k \in Nat, NEW i \in 0..k PROVE k - i = 0 <=> i = k
  OBVIOUS
<1>4. (Len(W) - m = 0) <=> (m = Len(W))
  BY <1>1, <1>3, Zenon
<1>5. t = <<>> <=> m = Len(W)
  BY <1>1, <1>2, <1>4, Zenon
<1>. QED  BY <1>5 DEF t

(* The file to write next, and the rest behind it.                         *)
LEMMA RestNext ==
  ASSUME NEW W \in Seq(HostFile), NEW m \in 0..Len(W),
         NEW t, t = SubSeq(W, m + 1, Len(W)), t # <<>>
  PROVE  /\ Head(t) = W[m + 1] /\ Tail(t) = SubSeq(W, (m + 1) + 1, Len(W))
         /\ m + 1 \in 1..Len(W)
<1>1. m # Len(W)
  BY RestEmpty, Zenon
<1>2. m + 1 \in 1..Len(W)
  BY <1>1
<1>3. Head(SubSeq(W, m + 1, Len(W))) = W[m + 1]
  BY <1>2
<1>4. Tail(SubSeq(W, m + 1, Len(W))) = SubSeq(W, (m + 1) + 1, Len(W))
  BY <1>2
<1>. QED  BY <1>2, <1>3, <1>4, Zenon

(* Who writes the file of a host touches it.                               *)
LEMMA WritesTouched ==
  ASSUME IdInv, HostsOnly, NEW q \in Proc, pc[q] \in {"open", "write"},
         Head(todo[q]).path \in Node
  PROVE  Head(todo[q]).path \in Touches(q)
<1>. DEFINE f == Head(todo[q]).path
            n == cmd[q].name
<1>1. Doing(q)
  BY DEF IdInv
<1>2. cmd[q] \in Command
  BY <1>1, ZenonT(20) DEF Doing
<1>3. f \notin {"gsnet.conf", "ed25519_key.priv", "wg.priv"}
  BY ZenonT(20) DEF HostsOnly
<1>4. CASE cmd[q].op \in Edit
  <2>1. PICK text : todo[q] = <<Write("gsnet.conf", text)>>
    BY <1>1, <1>4, ZenonT(20) DEF Doing
  <2>2. f = "gsnet.conf"
    BY <2>1, Fields
  <2>. QED  BY <1>3, <2>2, Zenon
<1>5. CASE cmd[q].op = "import"
  <2>. DEFINE S == Range(ImportWrites(cmd[q].stream))
  <2>1. todo[q] \in Seq(S) /\ todo[q] # <<>>
    BY <1>1, <1>5, ZenonT(20) DEF Doing
  <2>2. Touches(q) = {w.path : w \in S}
    BY <1>5, ZenonT(20) DEF Touches
  <2>. HIDE DEF S
  <2>3. Head(todo[q]) \in S
    BY <2>1
  <2>. QED  BY <2>2, <2>3, Zenon
<1>6. CASE cmd[q].op = "init"
  <2>1. Touches(q) = {n}
    BY <1>6, ZenonT(20) DEF Touches
  <2>2. todo[q] \in {InitWrites(q, n), Left3(q, n), Left2(q, n), Left1(q, n)}
    BY <1>1, <1>6, ZenonT(20) DEF Doing
  <2>3. /\ Head(InitWrites(q, n)).path = "ed25519_key.priv"
        /\ Head(Left3(q, n)).path = "wg.priv" /\ Head(Left2(q, n)).path = "gsnet.conf"
        /\ Head(Left1(q, n)).path = n
    <3>1. Head(InitWrites(q, n)) = Write("ed25519_key.priv", <<q>>)
      BY InitOrder
    <3>2. Head(Left3(q, n)) = Write("wg.priv", <<q>>)
      BY InitOrder
    <3>3. Head(Left2(q, n)).path = "gsnet.conf"
      BY InitOrder, Zenon
    <3>4. Head(Left1(q, n)) = Write(n, Render(PublicKeys(q)))
      BY InitOrder, ZenonT(20)
    <3>. QED  BY <3>1, <3>2, <3>3, <3>4, Fields, ZenonT(20)
  <2>4. f = n
    BY <1>3, <2>2, <2>3, ZenonT(20)
  <2>. QED  BY <2>1, <2>4, Zenon
<1>. QED  BY <1>2, <1>4, <1>5, <1>6, ConfigAssumption, ZenonT(20)

(* What other commands write stays known.                                  *)
LEMMA StaysShared ==
  ASSUME \A q \in Proc : cmd'[q] = cmd[q] \/ cmd[q] = None, NEW p \in Proc, NEW n, Shared(p, n)
  PROVE  Shared(p, n)'
<1>1. PICK q \in Proc \ {p} : n \in Touches(q)
  BY DEF Shared
<1>2. None.op = "none"
  BY DEF None
<1>3. cmd[q] # None
  BY <1>1, <1>2, ZenonT(20) DEF Touches
<1>4. Touches(q)' = Touches(q)
  BY <1>3, ZenonT(20) DEF Touches
<1>. QED  BY <1>1, <1>4, ZenonT(20) DEF Shared

(* An import that does not move has its files, or shares them.             *)
LEMMA StaysPlaced ==
  ASSUME NEW p \in Proc, NEW W, NEW m, Placed(p, W, m), pc'[p] = pc[p], todo'[p] = todo[p],
         \A q \in Proc : cmd'[q] = cmd[q] \/ cmd[q] = None,
         \A n \in Node : disk'[n] = disk[n] \/ Shared(p, n)'
  PROVE  Placed(p, W, m)'
<1>1. ASSUME OnDisk(p, W, m) PROVE OnDisk(p, W, m)'
  <2>1. \A n : Shared(p, n) => Shared(p, n)'
    BY StaysShared
  <2>. QED  BY <1>1, <2>1, ZenonT(20) DEF OnDisk
<1>. QED  BY <1>1, ZenonT(20) DEF Placed

(* A command starts.                                                       *)
LEMMA FaithStart ==
  ASSUME HostsOnly, IdInv, FaithInv, NEW p \in Proc, NEW c \in Command, Start(p, c)
  PROVE  FaithInv'
<1>1. Total /\ pc[p] = "new" /\ cmd[p] = None
  BY ZenonT(20) DEF IdInv, Doing, Start
<1>2. cmd'[p] = c /\ (\A q \in Proc \ {p} : cmd'[q] = cmd[q]) /\ disk' = disk
  BY <1>1, ZenonT(20) DEF Start, Total
<1>3. \A q \in Proc \ {p} : pc'[q] = pc[q] /\ todo'[q] = todo[q]
  <2>1. CASE \E where : Goto(p, where) /\ UNCHANGED todo
    BY <1>1, <2>1, Moves, ZenonT(20)
  <2>2. CASE \E writes : Proceed(p, writes)
    BY <1>1, <2>2, Proceeds, ZenonT(20)
  <2>. QED  BY <2>1, <2>2, ZenonT(20) DEF Start, Fail
<1>4. ASSUME NEW q \in Proc \ {p}, cmd'[q].op = "import" PROVE Importing(q)'
  <2>1. PICK W, m : W = Files(q) /\ Placed(q, W, m)
    BY <1>2, <1>4, ZenonT(20) DEF FaithInv, Importing
  <2>2. Files(q)' = Files(q)
    BY <1>2, ZenonT(20) DEF Files
  <2>3. Placed(q, W, m)'
    BY <1>1, <1>2, <1>3, <2>1, StaysPlaced, ZenonT(20)
  <2>. QED  BY <2>1, <2>2, <2>3, ZenonT(20) DEF Importing
<1>5. ASSUME c.op = "import" PROVE Importing(p)'
  <2>. DEFINE W == ImportWrites(c.stream)
  <2>1. Files(p)' = W
    BY <1>2, ZenonT(20) DEF Files
  <2>2. W \in Seq(HostFile)
    BY <1>5, FilesType, SMTT(20)
  <2>3. Proceed(p, W)
    BY <1>5, ZenonT(20) DEF Start, Edit
  <2>. HIDE DEF W
  <2>4. pc'[p] = (IF W = <<>> THEN "ok" ELSE "open") /\ todo'[p] = W
    BY <1>1, <2>3, Proceeds, ZenonT(20)
  <2>5. 0 \in 0..Len(W) /\ todo'[p] = SubSeq(W, 0 + 1, Len(W)) /\ (pc'[p] = "ok" => 0 = Len(W))
    <3>1. Len(W) \in Nat /\ SubSeq(W, 0 + 1, Len(W)) = W /\ (W = <<>> => Len(W) = 0)
      BY <2>2
    <3>. QED  BY <2>4, <3>1
  <2>6. OnDisk(p, W, 0)'
    BY DEF OnDisk
  <2>7. Placed(p, W, 0)'
    BY <2>5, <2>6, ZenonT(20) DEF Placed
  <2>. QED  BY <2>1, <2>7, ZenonT(20) DEF Importing
<1>. QED  BY <1>2, <1>4, <1>5, ZenonT(20) DEF FaithInv

(* A running process moves: the imports of the others keep their files.    *)
LEMMA FaithMove ==
  ASSUME HostsOnly, IdInv, FaithInv, NEW p \in Proc, cmd' = cmd,
         \A q \in Proc \ {p} : pc'[q] = pc[q] /\ todo'[q] = todo[q],
         \A n \in Node : disk'[n] = disk[n] \/ n \in Touches(p),
         cmd[p].op = "import" => Importing(p)'
  PROVE  FaithInv'
<1>1. \A q : Files(q)' = Files(q) /\ Touches(q)' = Touches(q)
  BY ZenonT(20) DEF Files, Touches
<1>2. ASSUME NEW q \in Proc \ {p}, cmd[q].op = "import" PROVE Importing(q)'
  <2>1. PICK W, m : W = Files(q) /\ Placed(q, W, m)
    BY <1>2, ZenonT(20) DEF FaithInv, Importing
  <2>2. \A n \in Node : disk'[n] = disk[n] \/ Shared(q, n)'
    BY <1>1, <1>2, ZenonT(20) DEF Shared
  <2>3. Placed(q, W, m)'
    BY <1>2, <2>1, <2>2, StaysPlaced, ZenonT(20)
  <2>. QED  BY <1>1, <2>1, <2>3, ZenonT(20) DEF Importing
<1>. QED  BY <1>2, ZenonT(20) DEF FaithInv

(* A process that ends without success.                                    *)
LEMMA FaithEnds ==
  ASSUME HostsOnly, IdInv, FaithInv, NEW p \in Proc, NEW where \in {"read", "failed", "killed"},
         Goto(p, where), UNCHANGED <<disk, cmd, todo>>
  PROVE  FaithInv'
<1>1. pc'[p] = where /\ \A q \in Proc \ {p} : pc'[q] = pc[q]
  BY Moves DEF IdInv
<1>2. pc'[p] \notin {"open", "write", "ok"}
  BY <1>1
<1>3. ASSUME cmd[p].op = "import" PROVE Importing(p)'
  <2>1. PICK W, m : W = Files(p) /\ Placed(p, W, m)
    BY <1>3, ZenonT(20) DEF FaithInv, Importing
  <2>2. Files(p)' = Files(p)
    BY ZenonT(20) DEF Files
  <2>3. Placed(p, W, m)'
    BY <1>2, <2>1, ZenonT(20) DEF Placed
  <2>. QED  BY <2>1, <2>2, <2>3, ZenonT(20) DEF Importing
<1>. QED  BY <1>1, <1>3, FaithMove, ZenonT(20)

(* An import truncates the next file, and writes it.                       *)
LEMMA FaithOpen ==
  ASSUME HostsOnly, IdInv, FaithInv, NEW p \in Proc, OpenFile(p)
  PROVE  FaithInv'
<1>1. Total /\ pc[p] = "open" /\ cmd' = cmd
  BY ZenonT(20) DEF IdInv, OpenFile
<1>2. CASE Fail(p) /\ UNCHANGED disk
  BY <1>1, <1>2, FaithEnds, ZenonT(20) DEF Fail
<1>3. CASE /\ disk' = [disk EXCEPT ![Head(todo[p]).path] = <<>>]
           /\ Goto(p, "write") /\ UNCHANGED todo
  <2>. DEFINE f == Head(todo[p]).path
  <2>1. \A n \in Node : disk'[n] = disk[n] \/ n = f
    BY <1>1, <1>3, Put, ZenonT(20) DEF Path
  <2>2. pc'[p] = "write" /\ \A q \in Proc \ {p} : pc'[q] = pc[q]
    BY <1>1, <1>3, Moves, ZenonT(20)
  <2>3. \A n \in Node : disk'[n] = disk[n] \/ n \in Touches(p)
    BY <1>1, <2>1, WritesTouched, ZenonT(20)
  <2>4. ASSUME cmd[p].op = "import" PROVE Importing(p)'
    <3>1. PICK W, m : W = Files(p) /\ Placed(p, W, m)
      BY <2>4, ZenonT(20) DEF FaithInv, Importing
    <3>2. Files(p)' = Files(p)
      BY <1>1, ZenonT(20) DEF Files
    <3>3. W \in Seq(HostFile) /\ m \in 0..Len(W) /\ todo[p] = SubSeq(W, m + 1, Len(W))
      BY <1>1, <2>4, <3>1, FilesType, ZenonT(20) DEF Placed, Files, IdInv, Doing
    <3>4. f = W[m + 1].path
      <4>1. todo[p] # <<>>
        BY <1>1, <2>4, ZenonT(20) DEF IdInv, Doing
      <4>. QED  BY <3>3, <4>1, RestNext, ZenonT(20)
    <3>5. OnDisk(p, W, m)
      BY <1>1, <3>1, ZenonT(20) DEF Placed
    <3>6. \A n : Shared(p, n) => Shared(p, n)'
      BY <1>1, StaysShared, ZenonT(20)
    <3>. HIDE DEF f
    <3>7. OnDisk(p, W, m)'
      BY <1>1, <2>1, <2>2, <3>4, <3>5, <3>6, ZenonT(20) DEF OnDisk
    <3>8. Placed(p, W, m)'
      BY <1>3, <2>2, <3>3, <3>7, ZenonT(20) DEF Placed
    <3>. QED  BY <3>1, <3>2, <3>8, ZenonT(20) DEF Importing
  <2>. QED  BY <1>1, <1>3, <2>2, <2>3, <2>4, FaithMove, ZenonT(20)
<1>. QED  BY <1>2, <1>3, ZenonT(20) DEF OpenFile

(* A write puts the last file for a host on the disk.                      *)
LEMMA FaithWrite ==
  ASSUME HostsOnly, IdInv, FaithInv, NEW p \in Proc, WriteFile(p)
  PROVE  FaithInv'
<1>. DEFINE f == Head(todo[p]).path
            text == Head(todo[p]).text
<1>1. Total /\ pc[p] = "write" /\ cmd' = cmd
  BY ZenonT(20) DEF IdInv, WriteFile
<1>2. \A n \in Node : disk'[n] = IF n = f THEN text ELSE disk[n]
  BY <1>1, Put, ZenonT(40) DEF WriteFile, Path
<1>3. /\ pc'[p] = IF Tail(todo[p]) = <<>> THEN "ok" ELSE "open"
      /\ todo'[p] = Tail(todo[p])
      /\ \A q \in Proc \ {p} : pc'[q] = pc[q] /\ todo'[q] = todo[q]
  BY <1>1, Proceeds, ZenonT(20) DEF WriteFile
<1>4. \A n \in Node : disk'[n] = disk[n] \/ n \in Touches(p)
  BY <1>1, <1>2, WritesTouched, ZenonT(20)
<1>5. ASSUME cmd[p].op = "import" PROVE Importing(p)'
  <2>1. PICK W, m : W = Files(p) /\ Placed(p, W, m)
    BY <1>5, ZenonT(20) DEF FaithInv, Importing
  <2>2. Files(p)' = Files(p)
    BY <1>1, ZenonT(20) DEF Files
  <2>3. W \in Seq(HostFile) /\ m \in 0..Len(W) /\ todo[p] = SubSeq(W, m + 1, Len(W))
    BY <1>1, <1>5, <2>1, FilesType, ZenonT(20) DEF Placed, Files, IdInv, Doing
  <2>4. todo[p] # <<>>
    BY <1>1, <1>5, ZenonT(20) DEF IdInv, Doing
  <2>5. /\ Head(todo[p]) = W[m + 1] /\ Tail(todo[p]) = SubSeq(W, (m + 1) + 1, Len(W))
        /\ m + 1 \in 1..Len(W)
    BY <2>3, <2>4, RestNext, ZenonT(20)
  <2>6. m + 1 \in 0..Len(W) /\ m \in Nat /\ Len(W) \in Nat
    BY <2>3, <2>5
  <2>7. SubSeq(W, (m + 1) + 1, Len(W)) = <<>> <=> m + 1 = Len(W)
    BY <2>3, <2>6, RestEmpty, ZenonT(20)
  <2>8. OnDisk(p, W, m)
    BY <1>1, <2>1, ZenonT(20) DEF Placed
  <2>9. \A n : Shared(p, n) => Shared(p, n)'
    BY <1>1, StaysShared, ZenonT(20)
  <2>. HIDE DEF f, text
  <2>10. f = W[m + 1].path /\ text = W[m + 1].text
    BY <2>5, SMTT(20) DEF f, text
  <2>11. ASSUME NEW n \in Node, NEW j \in 1..(m + 1), LastUpTo(W, m + 1, n, j)
         PROVE  disk'[n] = W[j].text \/ Shared(p, n)'
    <3>1. CASE n = f
      <4>1. j = m + 1
        BY <2>6, <2>10, <2>11, <3>1, SMTT(20) DEF LastUpTo
      <4>. QED  BY <1>2, <2>10, <3>1, <4>1, ZenonT(20)
    <3>2. CASE n # f
      <4>1. j \in 1..m /\ LastUpTo(W, m, n, j)
        BY <2>6, <2>10, <2>11, <3>2, SMTT(20) DEF LastUpTo
      <4>2. disk[n] = W[j].text \/ Shared(p, n)
        BY <2>8, <2>10, <3>2, <4>1, ZenonT(20) DEF OnDisk
      <4>. QED  BY <1>2, <2>9, <3>2, <4>2, ZenonT(20)
    <3>. QED  BY <3>1, <3>2
  <2>12. OnDisk(p, W, m + 1)'
    BY <2>11, ZenonT(20) DEF OnDisk
  <2>13. Placed(p, W, m + 1)'
    BY <1>3, <2>5, <2>6, <2>7, <2>12, ZenonT(20) DEF Placed
  <2>. QED  BY <2>1, <2>2, <2>13, ZenonT(20) DEF Importing
<1>. QED  BY <1>1, <1>3, <1>4, <1>5, FaithMove, ZenonT(20)

(* Every step keeps the files of the imports.                              *)
LEMMA FaithStep ==
  ASSUME HostsOnly, IdInv, FaithInv, [Next]_vars
  PROVE  FaithInv'
<1>1. Total
  BY DEF IdInv
<1>2. CASE UNCHANGED <<disk, cmd, pc, todo>>
  <2>1. \A p \in Proc : Files(p)' = Files(p)
    BY <1>2, ZenonT(20) DEF Files
  <2>2. ASSUME NEW p \in Proc, cmd[p].op = "import" PROVE Importing(p)'
    <3>1. PICK W, m : W = Files(p) /\ Placed(p, W, m)
      BY <2>2, ZenonT(20) DEF FaithInv, Importing
    <3>2. Placed(p, W, m)'
      BY <1>2, <3>1, StaysPlaced, ZenonT(20)
    <3>. QED  BY <2>1, <3>1, <3>2, ZenonT(20) DEF Importing
  <2>. QED  BY <1>2, <2>2, ZenonT(20) DEF FaithInv
<1>3. ASSUME NEW p \in Proc, ReadConf(p) PROVE FaithInv'
  <2>1. cmd[p].op \in Edit /\ UNCHANGED <<disk, cmd>>
    BY <1>3, ZenonT(20) DEF IdInv, Doing, ReadConf
  <2>2. CASE Fail(p)
    BY <2>1, <2>2, FaithEnds, ZenonT(20) DEF Fail
  <2>3. CASE \E writes : Proceed(p, writes)
    <3>1. \A q \in Proc \ {p} : pc'[q] = pc[q] /\ todo'[q] = todo[q]
      BY <1>1, <2>3, Proceeds, ZenonT(20)
    <3>2. cmd[p].op # "import"
      BY <2>1, ZenonT(20) DEF Edit
    <3>. QED  BY <2>1, <3>1, <3>2, FaithMove, ZenonT(20)
  <2>. QED  BY <1>3, <2>2, <2>3, ZenonT(20) DEF ReadConf
<1>4. ASSUME NEW p \in Proc, Fault(p) PROVE FaithInv'
  <2>1. UNCHANGED <<disk, cmd, todo>>
    BY <1>4, ZenonT(20) DEF Fault, Fail
  <2>2. \E where \in {"read", "failed", "killed"} : Goto(p, where)
    BY <1>4, ZenonT(20) DEF Fault, Fail
  <2>. QED  BY <2>1, <2>2, FaithEnds, ZenonT(20)
<1>5. CASE LoadConf \/ LoadEd \/ LoadWG \/ UNCHANGED vars
  BY <1>2, <1>5, ZenonT(20) DEF LoadConf, LoadEd, LoadWG, vars
<1>. QED
  BY <1>3, <1>4, <1>5, FaithStart, FaithOpen, FaithWrite, ZenonT(20) DEF Next

(* A host that an import names has a last file.                            *)
LEMMA LastExists ==
  ASSUME NEW W \in Seq(HostFile), NEW w \in Range(W)
  PROVE  \E j : Last(W, w.path, j)
<1>. DEFINE n == w.path
            T == {k \in Nat : Len(W) - k \in 1..Len(W) /\ W[Len(W) - k].path = n}
<1>1. DOMAIN W = 1..Len(W) /\ Len(W) \in Nat
  OBVIOUS
<1>2. PICK i \in 1..Len(W) : W[i] = w
  BY <1>1 DEF Range
<1>3. T # {}
  <2>1. Len(W) - i \in Nat /\ Len(W) - (Len(W) - i) = i
    BY <1>1, <1>2
  <2>2. Len(W) - i \in T
    BY <1>2, <2>1
  <2>. QED  BY <2>2, Zenon
<1>4. PICK k \in T : \A y \in T : k <= y
  <2>1. T \in SUBSET Nat
    OBVIOUS
  <2>. HIDE DEF T
  <2>. QED  BY <1>3, <2>1, Least
<1>5. ASSUME NEW l \in 1..Len(W), l > Len(W) - k PROVE W[l].path # n
  <2>1. Len(W) - l \in Nat /\ Len(W) - (Len(W) - l) = l /\ ~(k <= Len(W) - l)
    BY <1>1, <1>4, <1>5, SMTT(20)
  <2>2. Len(W) - l \notin T
    BY <1>4, <2>1, Zenon
  <2>. QED  BY <2>1, <2>2, SMTT(20)
<1>6. Last(W, n, Len(W) - k)
  BY <1>1, <1>4, <1>5 DEF Last
<1>. QED  BY <1>6

(* An import that has written all its files.                               *)
LEMMA FaithDone ==
  ASSUME HostsOnly, IdInv, FaithInv
  PROVE  ImportIsFaithful
<1>. SUFFICES ASSUME NEW p \in Proc, cmd[p].op = "import", pc[p] = "ok", NEW n \in Touches(p)
              PROVE  disk[n] = Block(cmd[p].stream, n) \/ Shared(p, n)
  BY ZenonT(20) DEF ImportIsFaithful, Shared
<1>1. cmd[p] \in Command
  BY ZenonT(20) DEF IdInv, Doing
<1>2. PICK W, m : W = Files(p) /\ Placed(p, W, m)
  BY ZenonT(20) DEF FaithInv, Importing
<1>3. /\ cmd[p].stream \in Seq(Line) /\ Named(cmd[p].stream)
      /\ W = ImportWrites(cmd[p].stream) /\ W \in Seq(HostFile)
  BY <1>1, <1>2, FilesType, ZenonT(20) DEF Files
<1>4. m = Len(W) /\ OnDisk(p, W, m)
  BY <1>2, ZenonT(20) DEF Placed
<1>5. PICK w \in Range(W) : n = w.path
  BY <1>3, ZenonT(20) DEF Touches
<1>6. PICK j : Last(W, n, j)
  BY <1>3, <1>5, LastExists, ZenonT(20)
<1>7. W[j].text = Block(cmd[p].stream, n)
  BY <1>3, <1>6, ImportBlock, ZenonT(20)
<1>8. j \in 1..m /\ LastUpTo(W, m, n, j) /\ n \in Node
  <2>1. DOMAIN W = 1..Len(W) /\ \A i \in DOMAIN W : W[i] \in HostFile
    BY <1>3
  <2>2. \A h \in HostFile : h.path \in Node
    BY DEF HostFile
  <2>. QED  BY <1>4, <1>6, <2>1, <2>2, ZenonT(20) DEF Last, LastUpTo
<1>. QED  BY <1>4, <1>7, <1>8, ZenonT(20) DEF OnDisk

(* An import that reports success has given each host it names the lines   *)
(* between its last Name line and the next, and the first host those       *)
(* before it too, whatever runs meanwhile, unless another command writes   *)
(* the same host, if streams name nodes (cmdImport's loop).                *)
THEOREM ImportHolds ==
  ASSUME HostsOnly
  PROVE  Spec => []ImportIsFaithful
<1>1. IdInv /\ [Next]_vars => IdInv'
  BY IdStep
<1>2. IdInv /\ FaithInv /\ [Next]_vars => FaithInv'
  BY FaithStep
<1>3. Init => FaithInv
  <2>. SUFFICES ASSUME Init PROVE FaithInv
    OBVIOUS
  <2>1. \A p \in Proc : cmd[p] = None
    BY ZenonT(20) DEF Init
  <2>2. None.op = "none"
    BY DEF None
  <2>. QED  BY <2>1, <2>2, ZenonT(20) DEF FaithInv
<1>4. IdInv /\ FaithInv => ImportIsFaithful
  BY FaithDone
<1>. QED  BY <1>1, <1>2, <1>3, <1>4, IdInit, PTL DEF Spec

=============================================================================
