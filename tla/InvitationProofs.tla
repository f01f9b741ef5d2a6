-------------------------- MODULE InvitationProofs --------------------------
(***************************************************************************)
(* Proofs about module Invitation: with the invitation that "gsnet invite" *)
(* makes, "gsnet join" makes a tree that works.                            *)
(***************************************************************************)
EXTENDS ConfigTypes, Invitation

-----------------------------------------------------------------------------
(***************************************************************************)
(* The entries of a block.                                                 *)
(***************************************************************************)
(* The entries of a block that are not fields of their own.                *)
Others(es) == Pick(es, {i \in DOMAIN es : es[i].key \notin Field})

(* The states of ParseFile's loop.                                         *)
Scan == [blocks : Seq(Seq(Line)), current : Seq(Line)]
Unread == [blocks |-> <<>>, current |-> <<>>]
Scans(f, s) == f[0] = Unread /\ \A i \in 1..Len(s) : f[i] = ParseLine(f[i - 1], s[i])

(* A block: a Name line and lines that are neither names nor comments.     *)
Whole(b) ==
  /\ b \in Seq(Line) /\ b # <<>> /\ b[1].key = "Name"
  /\ \A i \in DOMAIN b : b[i] # Comment /\ (i # 1 => b[i].key # "Name")

(* The values of a key in two lists one after the other.                   *)
LEMMA GetAllConcat ==
  ASSUME NEW s \in Seq(Line), NEW t \in Seq(Line), NEW k
  PROVE  GetAll(s \o t, k) = GetAll(s, k) \o GetAll(t, k)
<1> DEFINE G == {u \in Seq(Line) : GetAll(s \o u, k) = GetAll(s, k) \o GetAll(u, k)}
<1>1. <<>> \in G
  <2>1. GetAll(<<>>, k) = <<>>
    BY GetAllNone
  <2>2. GetAll(s, k) \in Seq(Proc \cup STRING)
    BY GetAllType
  <2>3. s \o <<>> = s /\ GetAll(s, k) \o <<>> = GetAll(s, k)
    BY <2>2
  <2> QED BY <2>1, <2>3, Empty, Zenon
<1>2. ASSUME NEW u \in Seq(Line), u \in G, NEW e \in Line PROVE Append(u, e) \in G
  <2> DEFINE a == GetAll(s, k)
             b == GetAll(u, k)
             v == e.value
  <2>1. s \o u \in Seq(Line) /\ s \o Append(u, e) = Append(s \o u, e) /\ Append(u, e) \in Seq(Line)
    OBVIOUS
  <2>2. GetAll(Append(s \o u, e), k)
          = IF e.key = k THEN Append(GetAll(s \o u, k), v) ELSE GetAll(s \o u, k)
    BY <2>1, GetAllAppend, ZenonT(40)
  <2>3. GetAll(Append(u, e), k) = IF e.key = k THEN Append(b, v) ELSE b
    BY GetAllAppend, Zenon
  <2>4. a \in Seq(Proc \cup STRING) /\ b \in Seq(Proc \cup STRING) /\ v \in Proc \cup STRING
    BY GetAllType, Fielded, Zenon
  <2>5. GetAll(s \o u, k) = a \o b
    BY <1>2
  <2> HIDE DEF a, b, v
  <2>6. a \o Append(b, v) = Append(a \o b, v)
    BY <2>4, SMTT(20)
  <2>7. GetAll(s \o Append(u, e), k) = a \o GetAll(Append(u, e), k)
    BY <2>1, <2>2, <2>3, <2>5, <2>6, Zenon
  <2> QED BY <2>1, <2>7, Zenon DEF a
<1>3. Seq(Line) \subseteq G
  <2> HIDE DEF G
  <2> QED BY <1>1, <1>2, SeqInduct
<1> QED BY <1>3, Zenon

(* The same for all keys at once.                                          *)
LEMMA GetAllTwo ==
  ASSUME NEW s \in Seq(Line), NEW t \in Seq(Line)
  PROVE  \A k : GetAll(s \o t, k) = GetAll(s, k) \o GetAll(t, k)
  BY GetAllConcat

(* The values of a key in three lists one after the other.                 *)
LEMMA GetAllThree ==
  ASSUME NEW s \in Seq(Line), NEW t \in Seq(Line), NEW u \in Seq(Line)
  PROVE  \A k : GetAll(s \o t \o u, k) = GetAll(s, k) \o GetAll(t, k) \o GetAll(u, k)
<1> TAKE k
<1>1. s \o t \in Seq(Line)
  OBVIOUS
<1>2. GetAll(s \o t, k) = GetAll(s, k) \o GetAll(t, k)
  BY GetAllConcat
<1>3. GetAll((s \o t) \o u, k) = GetAll(s \o t, k) \o GetAll(u, k)
  BY <1>1, GetAllConcat, ZenonT(40)
<1> QED BY <1>2, <1>3, Zenon

(* The entries that stay in a block, when one is appended.                 *)
LEMMA OthersAppend ==
  ASSUME NEW s \in Seq(Line), NEW e \in Line
  PROVE  Others(Append(s, e)) = IF e.key \in Field THEN Others(s) ELSE Append(Others(s), e)
<1> DEFINE r == Append(s, e)
           I == {i \in DOMAIN r : r[i].key \notin Field}
           J == {i \in DOMAIN s : s[i].key \notin Field}
<1>1. /\ DOMAIN r = 1..(Len(s) + 1) /\ DOMAIN s = 1..Len(s) /\ Len(s) \in Nat
      /\ r[Len(s) + 1] = e /\ \A i \in 1..Len(s) : r[i] = s[i]
  BY Appended
<1>2. (\A i \in 1..Len(s) : i \in I <=> i \in J) /\ (Len(s) + 1 \in I <=> e.key \notin Field)
  <2> HIDE DEF r
  <2> QED BY <1>1
<1>3. Pick(r, I) = IF e.key \in Field THEN Pick(s, J) ELSE Append(Pick(s, J), e)
  <2> HIDE DEF I, J
  <2> QED BY <1>2, PickAppend
<1> QED BY <1>3, Zenon DEF Others

(* They are entries, and parsed ones if all are.                           *)
LEMMA OthersType ==
  ASSUME NEW s \in Seq(Line)
  PROVE  Others(s) \in Seq(Line) /\ (Parsed(s) => Parsed(Others(s)))
<1> DEFINE I == {i \in DOMAIN s : s[i].key \notin Field}
<1>1. Others(s) = Pick(s, I)
  BY DEF Others
<1> HIDE DEF I
<1>2. Pick(s, I) \in Seq(Line)
  BY PickType
<1>3. ASSUME Parsed(s), NEW j \in DOMAIN Pick(s, I)
      PROVE  /\ Pick(s, I)[j].key # ""
             /\ Pick(s, I)[j].value \notin {""} \cup DOMAIN Padded
  <2>1. Pick(s, I)[j] \in Range(Pick(s, I))
    BY Zenon DEF Range
  <2>2. \A x \in Range(Pick(s, I)) : \E i \in DOMAIN s : i \in I /\ x = s[i]
    BY PickFrom
  <2>3. PICK i \in DOMAIN s : Pick(s, I)[j] = s[i]
    BY <2>1, <2>2, Zenon
  <2> QED BY <1>3, <2>3, Zenon DEF Parsed
<1> QED BY <1>1, <1>2, <1>3, Zenon DEF Parsed

(* They have the values of every key that is not a field, and of no field. *)
LEMMA OthersValues ==
  ASSUME NEW s \in Seq(Line), NEW k
  PROVE  GetAll(Others(s), k) = IF k \in Field THEN <<>> ELSE GetAll(s, k)
<1> DEFINE G == {t \in Seq(Line) : GetAll(Others(t), k) = IF k \in Field THEN <<>> ELSE GetAll(t, k)}
<1>1. <<>> \in G
  <2>1. Others(<<>>) = <<>>
    BY PickNone, Zenon DEF Others
  <2> QED BY <2>1, GetAllNone, Empty, Zenon
<1>2. ASSUME NEW t \in Seq(Line), t \in G, NEW e \in Line PROVE Append(t, e) \in G
  <2>1. Others(t) \in Seq(Line) /\ Append(t, e) \in Seq(Line)
    BY OthersType, Appends, Zenon
  <2>2. GetAll(Append(Others(t), e), k)
          = IF e.key = k THEN Append(GetAll(Others(t), k), e.value) ELSE GetAll(Others(t), k)
    BY <2>1, GetAllAppend, Zenon
  <2>3. GetAll(Append(t, e), k) = IF e.key = k THEN Append(GetAll(t, k), e.value) ELSE GetAll(t, k)
    BY GetAllAppend, Zenon
  <2>4. Others(Append(t, e)) = IF e.key \in Field THEN Others(t) ELSE Append(Others(t), e)
    BY OthersAppend, Zenon
  <2>5. GetAll(Others(t), k) = IF k \in Field THEN <<>> ELSE GetAll(t, k)
    BY <1>2, Zenon
  <2>6. GetAll(Others(Append(t, e)), k) = IF k \in Field THEN <<>> ELSE GetAll(Append(t, e), k)
    BY <2>2, <2>3, <2>4, <2>5, Zenon
  <2> QED BY <2>1, <2>6, Zenon
<1>3. Seq(Line) \subseteq G
  <2> HIDE DEF G
  <2> QED BY <1>1, <1>2, SeqInduct
<1> QED BY <1>3, Zenon

(* Behind fields, they are the same.                                       *)
LEMMA OthersBehind ==
  ASSUME NEW h \in Seq(Line), Others(h) = <<>>, NEW s \in Seq(Line)
  PROVE  Others(h \o s) = Others(s)
<1> DEFINE G == {t \in Seq(Line) : Others(h \o t) = Others(t)}
<1>1. <<>> \in G
  <2>1. h \o <<>> = h
    OBVIOUS
  <2>2. Others(<<>>) = <<>>
    BY PickNone, Zenon DEF Others
  <2> QED BY <2>1, <2>2, Empty, Zenon
<1>2. ASSUME NEW t \in Seq(Line), t \in G, NEW e \in Line PROVE Append(t, e) \in G
  <2>1. h \o t \in Seq(Line) /\ h \o Append(t, e) = Append(h \o t, e) /\ Append(t, e) \in Seq(Line)
    OBVIOUS
  <2>2. /\ Others(Append(h \o t, e)) = IF e.key \in Field THEN Others(h \o t) ELSE Append(Others(h \o t), e)
        /\ Others(Append(t, e)) = IF e.key \in Field THEN Others(t) ELSE Append(Others(t), e)
    BY <2>1, OthersAppend, Zenon
  <2> QED BY <1>2, <2>1, <2>2, Zenon
<1>3. Seq(Line) \subseteq G
  <2> HIDE DEF G
  <2> QED BY <1>1, <1>2, SeqInduct
<1> QED BY <1>3, Zenon

-----------------------------------------------------------------------------
(***************************************************************************)
(* The loop of ParseFile.                                                  *)
(***************************************************************************)
(* A turn of ParseFile's loop.                                             *)
LEMMA FlushTurn ==
  ASSUME NEW v \in Scan
  PROVE  /\ Flush(v) \in Scan /\ Flush(v).current = <<>>
         /\ v.current = <<>> => Flush(v) = v
         /\ v.current # <<>> => Flush(v) = [blocks |-> Append(v.blocks, v.current), current |-> <<>>]
  BY DEF Flush, Scan

(* A block that has lines is put with the others.                          *)
LEMMA Flushed ==
  ASSUME NEW B, NEW c, c # <<>>
  PROVE  Flush([blocks |-> B, current |-> c]) = [blocks |-> Append(B, c), current |-> <<>>]
  BY DEF Flush

(* A block without lines is not.                                           *)
LEMMA NoFlush ==
  ASSUME NEW B PROVE Flush([blocks |-> B, current |-> <<>>]) = [blocks |-> B, current |-> <<>>]
  BY DEF Flush

(* A turn of the loop of ParseFile, by the line it looks at.               *)
LEMMA ParseTurn ==
  ASSUME NEW v \in Scan, NEW l \in Line
  PROVE  /\ ParseLine(v, l) \in Scan
         /\ l = Comment => ParseLine(v, l) = Flush(v)
         /\ l # Comment /\ l.key # "Name" =>
              ParseLine(v, l) = [blocks |-> v.blocks, current |-> Append(v.current, l)]
         /\ l # Comment /\ l.key = "Name" =>
              ParseLine(v, l) = [blocks |-> Flush(v).blocks, current |-> <<l>>]
<1> DEFINE w == Flush(v)
<1>1. w \in Scan /\ w.current = <<>>
  BY FlushTurn
<1> HIDE DEF w
<1>2. \A x \in Scan : LET y == [x EXCEPT !.current = Append(@, l)]
                      IN  y \in Scan /\ y = [blocks |-> x.blocks, current |-> Append(x.current, l)]
  <2> TAKE x \in Scan
  <2> DEFINE c == Append(x.current, l)
  <2>1. x.current \in Seq(Line) /\ x.blocks \in Seq(Seq(Line))
    BY DEF Scan
  <2>2. c \in Seq(Line)
    BY <2>1
  <2> HIDE DEF c
  <2>3. [x EXCEPT !.current = c] = [blocks |-> x.blocks, current |-> c]
    <3>1. \A B, C : [[blocks |-> B, current |-> C] EXCEPT !.current = c] = [blocks |-> B, current |-> c]
      OBVIOUS
    <3>2. x = [blocks |-> x.blocks, current |-> x.current]
      BY DEF Scan
    <3> QED BY <3>1, <3>2, Zenon
  <2>4. [blocks |-> x.blocks, current |-> c] \in Scan
    BY <2>1, <2>2 DEF Scan
  <2> QED BY <2>3, <2>4, Zenon DEF c
<1>3. Append(<<>>, l) = <<l>>
  OBVIOUS
<1>4. ParseLine(v, l) = IF l = Comment THEN w
                        ELSE IF l.key = "Name" THEN [w EXCEPT !.current = Append(@, l)]
                        ELSE [v EXCEPT !.current = Append(@, l)]
  BY Zenon DEF ParseLine, w
<1> QED BY <1>1, <1>2, <1>3, <1>4, Zenon DEF w

(* The state in which the loop begins.                                     *)
LEMMA UnreadType == Unread \in Scan
  BY DEF Unread, Scan

(* The loop as a sequence of turns.                                        *)
LEMMA ScanRec ==
  ASSUME NEW s \in Seq(Line)
  PROVE  \E f \in [0..Len(s) -> Scan] : Scans(f, s) /\ ParseLoop(s) = f[Len(s)]
<1> DEFINE n == Len(s)
           D(f) == [i \in 0..n |-> IF i = 0 THEN Unread ELSE ParseLine(f[i - 1], s[i])]
           F == CHOOSE f : f = D(f)
           g == [i \in 1..n |-> [v \in Scan |-> ParseLine(v, s[i])]]
<1>0. ParseLoop(s) = F[n]
  BY DEF ParseLoop, Unread
<1>1. n \in Nat /\ \A i \in 1..n : s[i] \in Line
  OBVIOUS
<1>2. \A v \in Scan, i \in 1..n : ParseLine(v, s[i]) \in Scan
  BY <1>1, ParseTurn, Zenon
<1> HIDE DEF n
<1>3. g \in [1..n -> [Scan -> Scan]]
  BY <1>1, <1>2
<1>4. PICK f \in [0..n -> Scan] : Builds(f, Unread, n, g)
  <2> HIDE DEF g
  <2> QED BY <1>1, <1>3, UnreadType, Steps, Zenon
<1>5. \A i \in 1..n : f[i - 1] \in Scan /\ f[i] = ParseLine(f[i - 1], s[i])
  <2>1. \A i \in 1..n : f[i - 1] \in Scan /\ f[i] = g[i][f[i - 1]]
    BY <1>1, <1>4 DEF Builds
  <2>2. \A i \in 1..n, v \in Scan : g[i][v] = ParseLine(v, s[i])
    OBVIOUS
  <2> HIDE DEF g
  <2> QED BY <2>1, <2>2
<1>6. f = D(f)
  <2>1. \A i \in 0..n : f[i] = IF i = 0 THEN Unread ELSE ParseLine(f[i - 1], s[i])
    BY <1>1, <1>4, <1>5 DEF Builds
  <2> QED BY <2>1
<1>7. F = D(F)
  <2> HIDE DEF D
  <2> QED BY <1>6
<1> HIDE DEF F
<1>8. F[0] = Unread /\ \A i \in 1..n : F[i] = ParseLine(F[i - 1], s[i])
  BY <1>1, <1>7
<1>9. F \in [0..n -> Scan]
  <2> DEFINE T == {i \in 0..n : F[i] \in Scan}
  <2>1. 0 \in T /\ \A i \in 1..n : i - 1 \in T => i \in T
    BY <1>1, <1>2, <1>8, UnreadType
  <2>2. 0..n \subseteq T
    <3> HIDE DEF T
    <3> QED BY <1>1, <2>1, UpTo, Zenon
  <2>3. \A i \in 0..n : F[i] \in Scan
    BY <2>2
  <2> QED BY <1>7, <2>3
<1> QED BY <1>0, <1>8, <1>9 DEF n, Scans

(* A file without lines.                                                   *)
LEMMA ScanNone == ParseLoop(<<>>) = Unread
<1>1. <<>> \in Seq(Line) /\ Len(<<>>) = 0
  OBVIOUS
<1>2. PICK f \in [0..Len(<<>>) -> Scan] : Scans(f, <<>>) /\ ParseLoop(<<>>) = f[Len(<<>>)]
  BY <1>1, ScanRec, Zenon
<1> QED BY <1>1, <1>2 DEF Scans

(* One line more is one turn more.                                         *)
LEMMA ScanAppend ==
  ASSUME NEW s \in Seq(Line), NEW l \in Line
  PROVE  /\ ParseLoop(Append(s, l)) = ParseLine(ParseLoop(s), l)
         /\ ParseLoop(s) \in Scan
<1> DEFINE n == Len(s)
           t == Append(s, l)
<1>0. n \in Nat /\ t \in Seq(Line) /\ Len(t) = n + 1 /\ t[n + 1] = l /\ \A i \in 1..n : t[i] = s[i]
  OBVIOUS
<1>1. PICK f \in [0..n -> Scan] : Scans(f, s) /\ ParseLoop(s) = f[n]
  BY ScanRec
<1>2. PICK g \in [0..Len(t) -> Scan] : Scans(g, t) /\ ParseLoop(t) = g[Len(t)]
  <2> HIDE DEF t
  <2> QED BY <1>0, ScanRec
<1> HIDE DEF t
<1> DEFINE T == {i \in 0..n : f[i] = g[i]}
<1>3. 0 \in T
  BY <1>0, <1>1, <1>2 DEF Scans
<1>4. \A i \in 1..n : i - 1 \in T => i \in T
  BY <1>0, <1>1, <1>2 DEF Scans
<1>5. n \in T
  <2>1. 0..n \subseteq T
    <3> HIDE DEF T, n
    <3> QED BY <1>0, <1>3, <1>4, UpTo, Zenon
  <2> QED BY <1>0, <2>1
<1>6. ParseLoop(t) = ParseLine(ParseLoop(s), l) /\ ParseLoop(s) \in Scan
  BY <1>0, <1>1, <1>2, <1>5 DEF Scans
<1> QED BY <1>6 DEF t

(* A block is read as it is.                                               *)
LEMMA ScanBlock ==
  ASSUME NEW t \in Seq(Line), ParseLoop(t) \in Scan, NEW b, Whole(b)
  PROVE  ParseLoop(t \o b) = [blocks |-> Flush(ParseLoop(t)).blocks, current |-> b]
<1> DEFINE B == Flush(ParseLoop(t)).blocks
           G == {u \in Seq(Line) : Whole(u) => ParseLoop(t \o u) = [blocks |-> B, current |-> u]}
<1>1. <<>> \in G
  BY Empty, Zenon DEF Whole
<1>2. ASSUME NEW u \in Seq(Line), u \in G, NEW e \in Line PROVE Append(u, e) \in G
  <2> DEFINE r == Append(u, e)
  <2>1. /\ t \o u \in Seq(Line) /\ t \o r = Append(t \o u, e) /\ r \in Seq(Line)
        /\ DOMAIN r = 1..(Len(u) + 1) /\ DOMAIN u = 1..Len(u) /\ Len(u) \in Nat
        /\ r[Len(u) + 1] = e /\ \A i \in 1..Len(u) : r[i] = u[i]
        /\ u = <<>> <=> Len(u) = 0
    OBVIOUS
  <2>2. ParseLoop(t \o r) = ParseLine(ParseLoop(t \o u), e)
    BY <2>1, ScanAppend, Zenon
  <2> SUFFICES ASSUME Whole(r) PROVE ParseLoop(t \o r) = [blocks |-> B, current |-> r]
    BY <2>1, Zenon
  <2> HIDE DEF r
  <2>3. e # Comment
    <3>1. Len(u) + 1 \in DOMAIN r
      BY <2>1
    <3> QED BY <2>1, <3>1, Zenon DEF Whole
  <2>4. CASE u = <<>>
    <3>1. t \o u = t /\ r = <<e>> /\ e.key = "Name"
      <4>1. t \o <<>> = t /\ Append(<<>>, e) = <<e>> /\ <<e>>[1] = e
        OBVIOUS
      <4> QED BY <2>4, <4>1, Zenon DEF Whole, r
    <3> QED BY <2>2, <2>3, <3>1, ParseTurn, Zenon
  <2>5. CASE u # <<>>
    <3>1. e.key # "Name"
      <4>1. Len(u) + 1 \in DOMAIN r /\ Len(u) + 1 # 1
        BY <2>1, <2>5
      <4> QED BY <2>1, <4>1, Zenon DEF Whole
    <3>2. Whole(u)
      <4>1. 1 \in 1..Len(u) /\ \A i \in 1..Len(u) : i \in DOMAIN r
        BY <2>1, <2>5
      <4> QED BY <2>1, <2>5, <4>1, Zenon DEF Whole
    <3>3. ParseLoop(t \o u) = [blocks |-> B, current |-> u]
      BY <1>2, <3>2, Zenon
    <3>4. ParseLoop(t \o u) \in Scan
      BY <2>1, ScanAppend, Zenon
    <3>5. ParseLine(ParseLoop(t \o u), e)
            = [blocks |-> ParseLoop(t \o u).blocks, current |-> Append(ParseLoop(t \o u).current, e)]
      BY <2>3, <3>1, <3>4, ParseTurn, Zenon
    <3>6. \A x : x = [blocks |-> B, current |-> u] => x.blocks = B /\ x.current = u
      OBVIOUS
    <3> QED BY <2>2, <3>3, <3>5, <3>6, Zenon DEF r
  <2> QED BY <2>4, <2>5
<1>3. Seq(Line) \subseteq G
  <2> HIDE DEF G
  <2> QED BY <1>1, <1>2, SeqInduct
<1>4. b \in Seq(Line)
  BY Zenon DEF Whole
<1> QED BY <1>3, <1>4, Zenon

(* A pair, as a list that was appended to twice.                           *)
LEMMA Two == ASSUME NEW S, NEW x \in S, NEW y \in S PROVE Append(Append(<<>>, x), y) = <<x, y>>
<1> DEFINE r == Append(Append(<<>>, x), y)
           t == <<x, y>>
<1>1. r \in Seq(S) /\ Len(r) = 2 /\ r[1] = x /\ r[2] = y
  OBVIOUS
<1>2. t \in Seq(S) /\ Len(t) = 2 /\ t[1] = x /\ t[2] = y
  OBVIOUS
<1> HIDE DEF r, t
<1>3. r = t
  BY <1>1, <1>2
<1> QED BY <1>3 DEF r, t

(* Two blocks and a separator between them are read as two blocks.         *)
LEMMA ScanTwo ==
  ASSUME NEW a, Whole(a), NEW b, Whole(b)
  PROVE  Flush(ParseLoop(a \o <<Comment>> \o b)).blocks = <<a, b>>
<1> DEFINE t == a \o <<Comment>>
<1>1. a \in Seq(Line) /\ b \in Seq(Line) /\ a # <<>> /\ b # <<>>
  BY Zenon DEF Whole
<1>2. Comment \in Line
  <2>1. Comment = Entry("#", "")
    BY Zenon DEF Comment
  <2> QED BY <2>1, Literals, Fielded, Zenon
<1>3. t = Append(a, Comment) /\ t \in Seq(Line) /\ <<>> \o a = a
  BY <1>1, <1>2
<1>4. ParseLoop(a) = [blocks |-> <<>>, current |-> a]
  <2>1. Unread \in Scan /\ Unread.current = <<>> /\ Unread.blocks = <<>>
    BY UnreadType DEF Unread
  <2>2. ParseLoop(<<>> \o a) = [blocks |-> Flush(Unread).blocks, current |-> a]
    BY <2>1, ScanNone, ScanBlock, Empty, Zenon
  <2>3. Flush(Unread) = Unread
    BY <2>1, FlushTurn, Zenon
  <2> QED BY <1>3, <2>1, <2>2, <2>3, Zenon
<1>5. ParseLoop(t) = [blocks |-> Append(<<>>, a), current |-> <<>>] /\ ParseLoop(t) \in Scan
  <2>1. ParseLoop(a) \in Scan
    BY <1>1, <1>2, ScanAppend, Zenon
  <2>2. ParseLoop(Append(a, Comment)) = ParseLine(ParseLoop(a), Comment)
    BY <1>1, <1>2, ScanAppend, Zenon
  <2>3. ParseLine(ParseLoop(a), Comment) = Flush(ParseLoop(a))
    BY <1>2, <2>1, ParseTurn, Zenon
  <2>4. ParseLoop(t) \in Scan
    BY <1>2, <1>3, ScanAppend, Zenon
  <2>5. Flush(ParseLoop(a)) = [blocks |-> Append(<<>>, a), current |-> <<>>]
    BY <1>1, <1>4, Flushed, Zenon
  <2> QED BY <1>3, <2>2, <2>3, <2>4, <2>5, Zenon
<1>6. \A x, y, z : x = [blocks |-> y, current |-> z] => x.blocks = y
  OBVIOUS
<1>7. Flush(ParseLoop(t)).blocks = Append(<<>>, a)
  BY <1>5, <1>6, NoFlush, Zenon
<1>8. ParseLoop(t \o b) = [blocks |-> Append(<<>>, a), current |-> b]
  BY <1>3, <1>5, <1>7, ScanBlock, Zenon
<1>9. Flush(ParseLoop(t \o b)) = [blocks |-> Append(Append(<<>>, a), b), current |-> <<>>]
  BY <1>1, <1>8, Flushed, Zenon
<1>10. Append(Append(<<>>, a), b) = <<a, b>>
  BY <1>1, Two
<1> QED BY <1>6, <1>9, <1>10, Zenon

-----------------------------------------------------------------------------
(***************************************************************************)
(* What ParseFile reads back of two blocks.                                *)
(***************************************************************************)
(* Lists of one element and of none in front and behind.                   *)
LEMMA Joins ==
  ASSUME NEW S, NEW s \in Seq(S), NEW e \in S
  PROVE  s \o <<e>> = Append(s, e) /\ s \o <<>> = s /\ <<>> \o s = s /\ <<e>> \in Seq(S)
  OBVIOUS

(* The values of a key in one entry.                                       *)
LEMMA GetAllOne ==
  ASSUME NEW e \in Line, NEW k PROVE GetAll(<<e>>, k) = IF e.key = k THEN <<e.value>> ELSE <<>>
<1>1. Append(<<>>, e) = <<e>> /\ Append(<<>>, e.value) = <<e.value>>
  OBVIOUS
<1>2. GetAll(Append(<<>>, e), k) = IF e.key = k THEN Append(GetAll(<<>>, k), e.value)
                                   ELSE GetAll(<<>>, k)
  BY GetAllAppend, Empty, Zenon
<1> QED BY <1>1, <1>2, GetAllNone, Zenon

(* Where there is no value there is no key.                                *)
LEMMA GetAllEmpty ==
  ASSUME NEW s \in Seq(Line), NEW k, GetAll(s, k) = <<>> PROVE \A i \in DOMAIN s : s[i].key # k
<1> DEFINE G == {t \in Seq(Line) : GetAll(t, k) = <<>> => \A i \in DOMAIN t : t[i].key # k}
<1>1. <<>> \in G
  OBVIOUS
<1>2. ASSUME NEW t \in Seq(Line), t \in G, NEW e \in Line PROVE Append(t, e) \in G
  <2> DEFINE r == Append(t, e)
             a == GetAll(t, k)
  <2>1. GetAll(r, k) = IF e.key = k THEN Append(a, e.value) ELSE a
    BY GetAllAppend, Zenon
  <2>2. a \in Seq(Proc \cup STRING) /\ e.value \in Proc \cup STRING
    BY GetAllType, Fielded, Zenon
  <2>3. Append(a, e.value) # <<>>
    <3> HIDE DEF a
    <3> QED BY <2>2
  <2>4. /\ r \in Seq(Line)
        /\ DOMAIN r = 1..(Len(t) + 1) /\ DOMAIN t = 1..Len(t) /\ Len(t) \in Nat
        /\ r[Len(t) + 1] = e /\ \A i \in 1..Len(t) : r[i] = t[i]
    BY Appended, Appends
  <2>5. ASSUME GetAll(r, k) = <<>> PROVE \A i \in DOMAIN r : r[i].key # k
    <3>1. e.key # k /\ \A i \in DOMAIN t : t[i].key # k
      BY <1>2, <2>1, <2>3, <2>5, Zenon
    <3> HIDE DEF r
    <3> QED BY <2>4, <3>1
  <2> QED BY <2>4, <2>5, Zenon
<1>3. Seq(Line) \subseteq G
  <2> HIDE DEF G
  <2> QED BY <1>1, <1>2, SeqInduct
<1> QED BY <1>3, Zenon

(* What holds of parsed values.                                            *)
LEMMA GetAllParsed ==
  ASSUME NEW s, Parsed(s), NEW k
  PROVE  \A i \in DOMAIN GetAll(s, k) : GetAll(s, k)[i] \notin {""} \cup DOMAIN Padded
<1> DEFINE I == {i \in DOMAIN s : s[i].key = k}
           p == Pick(s, I)
<1>1. GetAll(s, k) = [i \in DOMAIN p |-> p[i].value]
  BY Zenon DEF GetAll, Filter
<1>2. s \in Seq(Line)
  BY Zenon DEF Parsed
<1> HIDE DEF I
<1>3. \A x \in Range(p) : \E i \in DOMAIN s : i \in I /\ x = s[i]
  BY <1>2, PickFrom
<1> HIDE DEF p
<1>4. ASSUME NEW i \in DOMAIN p PROVE p[i].value \notin {""} \cup DOMAIN Padded
  <2>1. p[i] \in Range(p)
    BY Zenon DEF Range
  <2>2. PICK j \in DOMAIN s : p[i] = s[j]
    BY <1>3, <2>1, Zenon
  <2> QED BY <2>2, Zenon DEF Parsed
<1>5. DOMAIN GetAll(s, k) = DOMAIN p /\ \A i \in DOMAIN p : GetAll(s, k)[i] = p[i].value
  BY <1>1
<1> QED BY <1>4, <1>5, Zenon

(* A file with one host.                                                   *)
LEMMA RenderTwo ==
  ASSUME NEW file, NEW x, NEW y, NEW nn, file = [netname |-> nn, invitee |-> x, hosts |-> <<y>>]
  PROVE  RenderFile(file) = WriteBlock(x, nn) \o <<Comment>> \o WriteBlock(y, "")
<1> DEFINE a == WriteBlock(file.invitee, file.netname)
           W(n) == WriteBlock(file.hosts[n], "")
           Next1(v, n) == v \o <<Comment>> \o W(n)
           D(f) == [n \in 0..Len(file.hosts) |-> IF n = 0 THEN a ELSE Next1(f[n - 1], n)]
           F == CHOOSE f : f = D(f)
<1>1. file.invitee = x /\ file.netname = nn /\ Len(file.hosts) = 1 /\ file.hosts[1] = y
  OBVIOUS
<1>2. RenderFile(file) = F[Len(file.hosts)]
  BY Zenon DEF RenderFile
<1>3. W(1) = WriteBlock(y, "") /\ a = WriteBlock(x, nn)
  BY <1>1, Zenon
<1> HIDE DEF Next1, a
<1> DEFINE f == [n \in 0..1 |-> IF n = 0 THEN a ELSE Next1(a, n)]
<1>4. f = D(f)
  BY <1>1
<1>5. F = D(F)
  <2> HIDE DEF D, f
  <2> QED BY <1>4
<1> HIDE DEF F
<1>6. F[0] = a /\ F[1] = Next1(F[0], 1)
  BY <1>1, <1>5
<1> QED BY <1>1, <1>2, <1>3, <1>6, Zenon DEF Next1

(* The types of what a block is read as.                                   *)
LEMMA LastType == ASSUME NEW s \in Seq(Proc \cup STRING) PROVE LastOf(s) \in Proc \cup STRING
<1>1. s # <<>> => s[Len(s)] \in Proc \cup STRING
  OBVIOUS
<1>2. "" \in STRING
  BY Literals, Zenon
<1> QED BY <1>1, <1>2, Zenon DEF LastOf

(* What is read of a block.                                                *)
LEMMA BlockFields ==
  ASSUME NEW es \in Seq(Line), NEW b, b = BlockFromEntries(es)
  PROVE  /\ b \in HostBlock
         /\ b.name = LastOf(GetAll(es, "Name")) /\ b.address = LastOf(GetAll(es, "Address"))
         /\ b.connectTo = GetAll(es, "ConnectTo") /\ b.other = Others(es)
<1> DEFINE n == LastOf(GetAll(es, "Name"))
           a == LastOf(GetAll(es, "Address"))
           c == GetAll(es, "ConnectTo")
           o == Others(es)
<1>1. b = [name |-> n, address |-> a, connectTo |-> c, other |-> o]
  BY Zenon DEF BlockFromEntries, Others, Filter
<1>2. n \in Proc \cup STRING /\ a \in Proc \cup STRING /\ c \in Seq(Proc \cup STRING)
  BY GetAllType, LastType, Zenon
<1>3. o \in Seq(Line)
  BY OthersType
<1> HIDE DEF n, a, c, o
<1>4. /\ b \in HostBlock
      /\ b.name = n /\ b.address = a /\ b.connectTo = c /\ b.other = o
  BY <1>1, <1>2, <1>3 DEF HostBlock, Value
<1> QED BY <1>4, Zenon DEF n, a, c, o

(* The file of an invitee and one host.                                    *)
ReadsAs(file, u, v) == file # Bad /\ file.invitee = u /\ file.hosts = <<v>>

(* A file of two blocks is read back as two blocks.                        *)
LEMMA ReadBack ==
  ASSUME NEW a, Whole(a), NEW b, Whole(b), NEW x \in Seq(Line), NEW y \in Seq(Line),
         x = Parse(a), y = Parse(b),
         ~Unnamed(BlockFromEntries(x)), ~Unnamed(BlockFromEntries(y))
  PROVE  ReadsAs(ParseFile(a \o <<Comment>> \o b), BlockFromEntries(x), BlockFromEntries(y))
<1> DEFINE s == Flush(ParseLoop(a \o <<Comment>> \o b))
           entries == [i \in DOMAIN s.blocks |-> Parse(s.blocks[i])]
           blocks == [i \in DOMAIN entries |-> BlockFromEntries(entries[i])]
           r == [netname |-> GetFirst(entries[1], "Netname"), invitee |-> blocks[1],
                 hosts |-> Tail(blocks)]
           u == BlockFromEntries(x)
           v == BlockFromEntries(y)
           file == ParseFile(a \o <<Comment>> \o b)
<1>1. s.blocks = <<a, b>>
  BY ScanTwo, Zenon
<1> HIDE DEF s
<1>2. entries = <<x, y>>
  BY <1>1
<1>3. Bad \notin Range(entries)
  <2>1. Bad \notin {x, y}
    BY InvitationAssumption, Zenon
  <2>2. Range(<<x, y>>) = {x, y}
    BY DEF Range
  <2> HIDE DEF entries
  <2> QED BY <1>2, <2>1, <2>2, Zenon
<1>4. blocks = <<u, v>>
  <2> HIDE DEF entries
  <2> QED BY <1>2
<1> HIDE DEF u, v
<1>5. blocks # <<>> /\ blocks[1] = u /\ Tail(blocks) = <<v>> /\ DOMAIN blocks = {1, 2} /\ blocks[2] = v
  <2>1. <<u, v>> # <<>> /\ <<u, v>>[1] = u /\ Tail(<<u, v>>) = <<v>> /\ DOMAIN <<u, v>> = {1, 2} /\ <<u, v>>[2] = v
    BY Lists
  <2> HIDE DEF blocks
  <2> QED BY <1>4, <2>1, Zenon
<1>6. ~\E i \in DOMAIN blocks : blocks[i].name = ""
  <2> HIDE DEF blocks
  <2> QED BY <1>5, Zenon DEF u, v, Unnamed
<1>7. ParseFile(a \o <<Comment>> \o b)
        = IF blocks = <<>> \/ Bad \in Range(entries) THEN Bad
          ELSE IF \E i \in DOMAIN blocks : blocks[i].name = "" THEN Bad ELSE r
  BY Zenon DEF ParseFile, s
<1>8. file = r
  <2> HIDE DEF blocks, entries, r
  <2> QED BY <1>3, <1>5, <1>6, <1>7, Zenon
<1>9. r.invitee = u /\ r.hosts = <<v>>
  <2> HIDE DEF blocks, entries
  <2> QED BY <1>5
<1>10. r \in File
  <2>1. u \in HostBlock /\ v \in HostBlock
    BY BlockFields, Zenon DEF u, v
  <2>2. GetFirst(entries[1], "Netname") \in Value
    <3>1. GetAll(x, "Netname") \in Seq(Proc \cup STRING)
      BY GetAllType
    <3>2. "" \in STRING
      BY Literals, Zenon
    <3>3. GetAll(x, "Netname") # <<>> => GetAll(x, "Netname")[1] \in Proc \cup STRING
      BY <3>1
    <3>4. entries[1] = x
      <4> HIDE DEF entries
      <4> QED BY <1>2
    <3> HIDE DEF entries
    <3> QED BY <3>2, <3>3, <3>4, Zenon DEF GetFirst, Value
  <2> HIDE DEF blocks, entries
  <2> DEFINE nn == GetFirst(entries[1], "Netname")
  <2> HIDE DEF nn
  <2>3. [netname |-> nn, invitee |-> u, hosts |-> <<v>>] \in File
    BY <2>1, <2>2 DEF File, nn
  <2> QED BY <1>5, <2>3, Zenon DEF nn
<1> HIDE DEF r
<1>11. file # Bad
  BY <1>8, <1>10, InvitationAssumption, Zenon
<1> QED BY <1>8, <1>9, <1>11, Zenon DEF u, v, ReadsAs

-----------------------------------------------------------------------------
(***************************************************************************)
(* The blocks of an invitation.                                            *)
(***************************************************************************)
(* The blocks of an invitation, for the inviter n.                         *)
Given(k, v) == IF v = "" THEN <<>> ELSE <<Entry(k, v)>>
InviteeOf(n) == [name |-> Invitee, address |-> "", connectTo |-> <<n>>, other |-> <<>>]
InviterOf(n, a, es) == [name |-> n, address |-> a, connectTo |-> <<>>, other |-> es]
Trimmed(v) == v \in Proc \cup STRING /\ v \notin {""} \cup DOMAIN Padded

(* Lines with the keys of a block.                                         *)
LEMMA Entries ==
  ASSUME NEW v \in Proc \cup STRING
  PROVE  /\ Entry("Name", v) \in Line /\ Entry("ConnectTo", v) \in Line
         /\ Entry("Address", v) \in Line /\ Entry("Netname", v) \in Line
<1>1. {"Name", "ConnectTo", "Address", "Netname"} \subseteq STRING
  BY Literals, InvitationAssumption, Zenon
<1> QED BY <1>1, Fielded, Zenon

(* The name of a node has no white space around.                           *)
LEMMA NodeTrimmed == ASSUME NEW n \in Node PROVE Trimmed(n)
  BY ConfigAssumption, Zenon DEF Trimmed

(* An entry that was trimmed is parsed as it is.                           *)
LEMMA ParsedOne ==
  ASSUME NEW k \in STRING, NEW v, Usable(k, v), Trimmed(v) PROVE Parsed(<<Entry(k, v)>>)
<1> DEFINE e == Entry(k, v)
<1>1. e \in Line
  BY Fielded, Zenon DEF Trimmed
<1>2. e.key = k /\ e.value = v
  BY EntryFields, Zenon
<1> HIDE DEF e
<1>3. <<e>> \in Seq(Line) /\ \A i \in DOMAIN <<e>> : <<e>>[i] = e
  BY <1>1
<1> QED BY <1>2, <1>3, Zenon DEF Parsed, Trimmed, Usable, e

(* Two lists one after the other.                                          *)
LEMMA Concats ==
  ASSUME NEW S, NEW s \in Seq(S), NEW t \in Seq(S)
  PROVE  /\ s \o t \in Seq(S) /\ DOMAIN (s \o t) = 1..(Len(s) + Len(t))
         /\ \A i \in 1..Len(s) : (s \o t)[i] = s[i]
         /\ \A i \in 1..(Len(s) + Len(t)) : i > Len(s) => (s \o t)[i] = t[i - Len(s)]
  OBVIOUS

(* Two texts that can be read are read one after the other.                *)
LEMMA ParseConcat ==
  ASSUME NEW s \in Seq(Line), Readable(s), NEW t \in Seq(Line), Readable(t)
  PROVE  Readable(s \o t) /\ Parse(s \o t) = Parse(s) \o Parse(t)
<1> DEFINE u == s \o t
<1>1. /\ u \in Seq(Line) /\ Len(s) \in Nat /\ Len(t) \in Nat
      /\ DOMAIN s = 1..Len(s) /\ DOMAIN t = 1..Len(t) /\ DOMAIN u = 1..(Len(s) + Len(t))
      /\ \A i \in 1..Len(s) : u[i] = s[i]
      /\ \A i \in 1..(Len(s) + Len(t)) : i > Len(s) => i - Len(s) \in DOMAIN t /\ u[i] = t[i - Len(s)]
  OBVIOUS
<1> HIDE DEF u
<1>2. Readable(u)
  <2>1. ASSUME NEW i \in DOMAIN u PROVE Usable(u[i].key, u[i].value)
    <3>1. i \in DOMAIN s \/ i > Len(s)
      BY <1>1
    <3>2. CASE i \in DOMAIN s
      BY <1>1, <3>2, Zenon DEF Readable
    <3>3. CASE i > Len(s)
      BY <1>1, <3>3, Zenon DEF Readable
    <3> QED BY <3>1, <3>2, <3>3
  <2> QED BY <2>1, Zenon DEF Readable
<1> DEFINE P(e) == Entry(e.key, Trim(e.value))
<1>3. /\ Parse(s) = [i \in DOMAIN s |-> P(s[i])] /\ Parse(t) = [i \in DOMAIN t |-> P(t[i])]
      /\ Parse(u) = [i \in DOMAIN u |-> P(u[i])]
  BY <1>1, <1>2, ParseWritten, Zenon
<1> HIDE DEF P
<1> DEFINE S == {P(e) : e \in Line}
<1>4. Parse(s) \in Seq(S) /\ Parse(t) \in Seq(S) /\ Len(Parse(s)) = Len(s) /\ Len(Parse(t)) = Len(t)
  <2>1. (\A i \in DOMAIN s : P(s[i]) \in S) /\ (\A i \in DOMAIN t : P(t[i]) \in S)
    <3>1. (\A i \in DOMAIN s : s[i] \in Line) /\ (\A i \in DOMAIN t : t[i] \in Line)
      BY <1>1
    <3> QED BY <3>1
  <2> HIDE DEF S
  <2> QED BY <1>1, <1>3, <2>1
<1> HIDE DEF S
<1>5. Parse(u) = Parse(s) \o Parse(t)
  <2> DEFINE a == Parse(s)
             b == Parse(t)
  <2>1. /\ \A i \in DOMAIN s : a[i] = P(s[i])
        /\ \A i \in DOMAIN t : b[i] = P(t[i])
    BY <1>3
  <2> HIDE DEF a, b
  <2>2. /\ a \o b \in Seq(S) /\ DOMAIN (a \o b) = 1..(Len(s) + Len(t))
        /\ \A i \in 1..Len(s) : (a \o b)[i] = a[i]
        /\ \A i \in 1..(Len(s) + Len(t)) : i > Len(s) => (a \o b)[i] = b[i - Len(s)]
    <3>1. a \in Seq(S) /\ b \in Seq(S) /\ Len(a) = Len(s) /\ Len(b) = Len(t)
      BY <1>4 DEF a, b
    <3>2. /\ a \o b \in Seq(S) /\ DOMAIN (a \o b) = 1..(Len(a) + Len(b))
          /\ \A i \in 1..Len(a) : (a \o b)[i] = a[i]
          /\ \A i \in 1..(Len(a) + Len(b)) : i > Len(a) => (a \o b)[i] = b[i - Len(a)]
      BY <3>1, Concats, Zenon
    <3> QED BY <3>1, <3>2, Zenon
  <2>3. ASSUME NEW i \in DOMAIN u PROVE P(u[i]) = (a \o b)[i]
    <3>1. i \in 1..(Len(s) + Len(t)) /\ (i \in 1..Len(s) \/ i > Len(s))
      BY <1>1
    <3>2. CASE i \in 1..Len(s)
      <4>1. u[i] = s[i] /\ (a \o b)[i] = a[i] /\ a[i] = P(s[i])
        BY <1>1, <2>1, <2>2, <3>2, SMTT(20)
      <4> QED BY <4>1
    <3>3. CASE i > Len(s)
      <4>1. /\ u[i] = t[i - Len(s)] /\ (a \o b)[i] = b[i - Len(s)]
            /\ b[i - Len(s)] = P(t[i - Len(s)])
        BY <1>1, <2>1, <2>2, <3>1, <3>3, Zenon
      <4> QED BY <4>1
    <3> QED BY <3>1, <3>2, <3>3, Zenon
  <2>4. Parse(u) = a \o b
    <3> DEFINE w == a \o b
    <3>1. w \in Seq(S) /\ DOMAIN w = DOMAIN u /\ \A i \in DOMAIN u : P(u[i]) = w[i]
      BY <1>1, <2>2, <2>3
    <3> HIDE DEF w
    <3>2. w = [i \in DOMAIN u |-> w[i]]
      BY <3>1
    <3>3. Parse(u) = w
      BY <1>3, <3>1, <3>2, Zenon
    <3> QED BY <3>3 DEF w
  <2> QED BY <2>4 DEF a, b
<1> QED BY <1>2, <1>5 DEF u

(* Blocks are made of a Name line and of other lines.                      *)
LEMMA WholeOne == ASSUME NEW n, Trimmed(n) PROVE Whole(<<Entry("Name", n)>>)
<1> DEFINE e == Entry("Name", n)
<1>1. e \in Line /\ e.key = "Name" /\ e.value = n
  BY Entries, EntryFields, Zenon DEF Trimmed
<1>2. Comment.value = ""
  BY EntryFields, Zenon DEF Comment
<1>3. e # Comment
  BY <1>1, <1>2, Zenon DEF Trimmed
<1> HIDE DEF e
<1>4. <<e>> \in Seq(Line) /\ <<e>> # <<>> /\ <<e>>[1] = e /\ DOMAIN <<e>> = {1}
  BY <1>1
<1> QED BY <1>1, <1>3, <1>4, Zenon DEF Whole, e

(* A block stays one with more lines, but Name lines and comments.         *)
LEMMA WholeMore ==
  ASSUME NEW b, Whole(b), NEW t \in Seq(Line), Nameless(t), \A i \in DOMAIN t : t[i] # Comment
  PROVE  Whole(b \o t)
<1>1. b \in Seq(Line) /\ b # <<>>
  BY Zenon DEF Whole
<1> DEFINE u == b \o t
<1>2. /\ u \in Seq(Line) /\ u # <<>> /\ u[1] = b[1] /\ Len(b) \in Nat /\ 1 <= Len(b)
      /\ DOMAIN b = 1..Len(b)
      /\ \A i \in DOMAIN u : \/ i \in DOMAIN b /\ u[i] = b[i]
                             \/ i # 1 /\ i - Len(b) \in DOMAIN t /\ u[i] = t[i - Len(b)]
  BY <1>1
<1> HIDE DEF u
<1>3. \A i \in DOMAIN u : u[i] # Comment /\ (i # 1 => u[i].key # "Name")
  BY <1>2, ZenonT(40) DEF Whole, Nameless
<1>4. u[1].key = "Name"
  BY <1>2, Zenon DEF Whole
<1>5. Whole(u)
  BY <1>2, <1>3, <1>4, Zenon DEF Whole
<1> QED BY <1>5 DEF u

(* What File.Render writes for the invitee and for the inviter.            *)
LEMMA BlockText ==
  ASSUME NEW b, NEW nn
  PROVE  WriteBlock(b, nn)
           = <<Entry("Name", b.name)>> \o Given("Netname", nn)
               \o [i \in DOMAIN b.connectTo |-> Entry("ConnectTo", b.connectTo[i])]
               \o Given("Address", b.address) \o b.other
  BY Zenon DEF WriteBlock, Given

(* A line that is only there with a value.                                 *)
LEMMA GivenType ==
  ASSUME NEW k \in STRING, NEW v \in Proc \cup STRING
  PROVE  Given(k, v) \in Seq(Line)
<1> DEFINE e == Entry(k, v)
<1>1. e \in Line
  BY Fielded, Zenon
<1> HIDE DEF e
<1>2. <<e>> \in Seq(Line) /\ <<>> \in Seq(Line)
  BY <1>1
<1> QED BY <1>2, Zenon DEF Given, e

(* The fields of a block.                                                  *)
LEMMA RecordOf ==
  ASSUME NEW n, NEW a, NEW c, NEW o, NEW r,
         r = [name |-> n, address |-> a, connectTo |-> c, other |-> o]
  PROVE  r.name = n /\ r.address = a /\ r.connectTo = c /\ r.other = o
  OBVIOUS

(* A line for each of one value.                                           *)
LEMMA OneLine ==
  ASSUME NEW k, NEW v PROVE [i \in DOMAIN <<v>> |-> Entry(k, <<v>>[i])] = <<Entry(k, v)>>
<1> DEFINE f == [i \in DOMAIN <<v>> |-> Entry(k, <<v>>[i])]
<1>1. DOMAIN <<v>> = {1} /\ <<v>>[1] = v
  OBVIOUS
<1>2. f = [i \in {1} |-> Entry(k, v)]
  BY <1>1
<1>3. \A e : [i \in {1} |-> e] = <<e>>
  OBVIOUS
<1> QED BY <1>2, <1>3, Zenon

(* The block of the invitee, as it is rendered.                            *)
LEMMA InviteeText ==
  ASSUME NEW n \in Node
  PROVE  WriteBlock(InviteeOf(n), Netname)
           = <<Entry("Name", Invitee)>> \o Given("Netname", Netname) \o <<Entry("ConnectTo", n)>>
<1> DEFINE b == InviteeOf(n)
           h == Entry("Name", Invitee)
           c == Entry("ConnectTo", n)
           m == Given("Netname", Netname)
<1>1. b.name = Invitee /\ b.address = "" /\ b.connectTo = <<n>> /\ b.other = <<>>
  BY RecordOf, Zenon DEF InviteeOf
<1>2. Given("Address", b.address) = <<>>
  BY <1>1, Zenon DEF Given
<1>3. [i \in DOMAIN b.connectTo |-> Entry("ConnectTo", b.connectTo[i])] = <<c>>
  BY <1>1, OneLine, Zenon
<1>4. WriteBlock(b, Netname) = <<h>> \o m \o <<c>> \o <<>> \o <<>>
  BY <1>1, <1>2, <1>3, BlockText, Zenon
<1>5. n \in Proc \cup STRING /\ Invitee \in Proc \cup STRING /\ Netname \in Proc \cup STRING
  BY ConfigAssumption, InvitationAssumption, Zenon
<1>6. h \in Line /\ c \in Line /\ "Netname" \in STRING
  BY <1>5, Entries, InvitationAssumption, Zenon
<1>7. m \in Seq(Line)
  BY <1>5, <1>6, GivenType, Zenon
<1> HIDE DEF b, h, c, m
<1>8. <<h>> \o m \o <<c>> \o <<>> \o <<>> = <<h>> \o m \o <<c>>
  BY <1>6, <1>7
<1> QED BY <1>4, <1>8, Zenon DEF b, h, c, m

(* The block of the inviter, as it is rendered.                            *)
LEMMA InviterText ==
  ASSUME NEW n \in Node, NEW a, Trimmed(a), NEW es \in Seq(Line)
  PROVE  WriteBlock(InviterOf(n, a, es), "") = <<Entry("Name", n)>> \o <<Entry("Address", a)>> \o es
<1> DEFINE b == InviterOf(n, a, es)
           h == Entry("Name", n)
           d == Entry("Address", a)
<1>1. b.name = n /\ b.address = a /\ b.connectTo = <<>> /\ b.other = es
  BY RecordOf, Zenon DEF InviterOf
<1>2. Given("Address", b.address) = <<d>> /\ Given("Netname", "") = <<>>
  BY <1>1, Zenon DEF Given, Trimmed
<1>3. [i \in DOMAIN b.connectTo |-> Entry("ConnectTo", b.connectTo[i])] = <<>>
  <2>1. \A k : [i \in DOMAIN <<>> |-> Entry(k, <<>>[i])] = <<>>
    OBVIOUS
  <2> QED BY <1>1, <2>1, Zenon
<1>4. WriteBlock(b, "") = <<h>> \o <<>> \o <<>> \o <<d>> \o es
  BY <1>1, <1>2, <1>3, BlockText, Zenon
<1>5. h \in Line
  BY Entries, ConfigAssumption, Zenon
<1> HIDE DEF h, d, b
<1>6. <<h>> \o <<>> \o <<>> = <<h>>
  BY <1>5
<1> QED BY <1>4, <1>6, Zenon DEF h, d, b

(* The line with the netname, where there is one.                          *)
LEMMA NetnameRead ==
  ASSUME NEW m, m = Given("Netname", Netname)
  PROVE  /\ m \in Seq(Line) /\ Readable(m) /\ Nameless(m) /\ \A i \in DOMAIN m : m[i] # Comment
         /\ Parse(m) \in Seq(Line)
         /\ GetAll(Parse(m), "Name") = <<>> /\ GetAll(Parse(m), "ConnectTo") = <<>>
<1> DEFINE e == Entry("Netname", Netname)
           x == Entry("Netname", Trim(Netname))
<1>1. CASE m = <<>>
  <2>1. <<>> \in Seq(Line) /\ DOMAIN <<>> = {}
    BY Empty
  <2>2. Readable(<<>>)
    BY <2>1, Zenon DEF Readable
  <2>3. Parsed(<<>>)
    BY <2>1, Zenon DEF Parsed
  <2>4. Parse(<<>>) = <<>>
    BY <2>3, ParseAgain, Zenon
  <2> QED BY <1>1, <2>1, <2>2, <2>4, GetAllNone, Zenon DEF Nameless
<1>2. CASE m = <<e>> /\ Usable("Netname", Netname)
  <2>1. Netname \in Proc \cup STRING /\ "Netname" \in STRING
    BY InvitationAssumption, Zenon
  <2>2. Trim(Netname) \in Proc \cup STRING
    BY <2>1, TrimFacts, Zenon
  <2>3. e \in Line /\ x \in Line
    BY <2>1, <2>2, Fielded, Zenon
  <2>4. e.key = "Netname" /\ e.value = Netname /\ x.key = "Netname"
    BY EntryFields, Zenon
  <2>5. e # Comment
    <3>1. Comment.value = ""
      BY EntryFields, Zenon DEF Comment
    <3>2. Trim("") = ""
      BY TrimFacts, Zenon
    <3> QED BY <1>2, <2>4, <3>1, <3>2, Zenon DEF Usable
  <2>6. Parse(Append(<<>>, e)) = Append(<<>>, x)
    <3>1. <<>> \in Seq(Line) /\ DOMAIN <<>> = {}
      BY Empty
    <3>2. Parsed(<<>>)
      BY <3>1, Zenon DEF Parsed
    <3>3. Usable(e.key, e.value)
      BY <1>2, <2>4, Zenon
    <3>4. Parse(Append(<<>>, e)) = Append(<<>>, Entry(e.key, Trim(e.value)))
      BY <2>3, <3>2, <3>3, ParseMore, Zenon
    <3> QED BY <2>4, <3>4, Zenon
  <2>7. GetAll(<<x>>, "Name") = <<>> /\ GetAll(<<x>>, "ConnectTo") = <<>>
    BY <2>3, <2>4, GetAllOne, Zenon
  <2>8. Usable(e.key, e.value)
    BY <1>2, <2>4, Zenon
  <2> HIDE DEF e, x
  <2>9. /\ Append(<<>>, e) = <<e>> /\ Append(<<>>, x) = <<x>>
        /\ <<e>> \in Seq(Line) /\ <<x>> \in Seq(Line) /\ \A i \in DOMAIN <<e>> : <<e>>[i] = e
    BY <2>3
  <2>10. Readable(m) /\ Nameless(m) /\ \A i \in DOMAIN m : m[i] # Comment
    BY <1>2, <2>4, <2>5, <2>8, <2>9, Zenon DEF Readable, Nameless
  <2> QED BY <1>2, <2>6, <2>7, <2>9, <2>10, Zenon
<1>3. Netname = "" \/ Usable("Netname", Netname)
  BY InvitationAssumption, Zenon DEF Usable
<1> QED BY <1>1, <1>2, <1>3, Zenon DEF Given

(* What ParseFile makes of the two blocks.                                 *)
LEMMA ParsedLines ==
  ASSUME NEW v, Trimmed(v)
  PROVE  Parsed(<<Entry("Name", v)>>) /\ Parsed(<<Entry("ConnectTo", v)>>) /\ Parsed(<<Entry("Address", v)>>)
<1>1. Trim(v) = v /\ v # ""
  BY TrimFacts, Zenon DEF Trimmed
<1>2. Usable("Name", v) /\ Usable("ConnectTo", v) /\ Usable("Address", v)
  BY <1>1, Zenon DEF Usable
<1>3. "Name" \in STRING /\ "ConnectTo" \in STRING /\ "Address" \in STRING
  BY Literals, InvitationAssumption, Zenon
<1> QED BY <1>2, <1>3, ParsedOne, Zenon

(* Entries that the parser returned, it accepts again.                     *)
LEMMA ParsedReadable == ASSUME NEW s, Parsed(s) PROVE s \in Seq(Line) /\ Readable(s) /\ Parse(s) = s
  BY ParsedLine, ParseAgain, Zenon DEF Parsed, Readable

(* The block of the invitee, as it is read back.                           *)
LEMMA InviteeRead ==
  ASSUME NEW n \in Node, NEW a, a = WriteBlock(InviteeOf(n), Netname)
  PROVE  /\ Whole(a) /\ Parse(a) \in Seq(Line)
         /\ GetAll(Parse(a), "Name") = <<Invitee>> /\ GetAll(Parse(a), "ConnectTo") = <<n>>
<1> DEFINE h == Entry("Name", Invitee)
           c == Entry("ConnectTo", n)
           m == Given("Netname", Netname)
           P == Parse(m)
<1>0. a = <<h>> \o m \o <<c>>
  BY InviteeText, Zenon
<1>1. Trimmed(n) /\ Trimmed(Invitee)
  BY NodeTrimmed, InvitationAssumption, Zenon
<1>2. Parsed(<<h>>) /\ Parsed(<<c>>)
  BY <1>1, ParsedLines, Zenon
<1>3. h \in Line /\ h.key = "Name" /\ h.value = Invitee
  BY <1>1, Entries, EntryFields, Zenon DEF Trimmed
<1>4. c \in Line /\ c.key = "ConnectTo" /\ c.value = n
  BY <1>1, Entries, EntryFields, Zenon DEF Trimmed
<1>5. Whole(<<h>>)
  BY <1>1, WholeOne, Zenon
<1>6. /\ m \in Seq(Line) /\ Readable(m) /\ Nameless(m) /\ \A i \in DOMAIN m : m[i] # Comment
      /\ P \in Seq(Line) /\ GetAll(P, "Name") = <<>> /\ GetAll(P, "ConnectTo") = <<>>
  BY NetnameRead, Zenon
<1>7. c # Comment
  BY <1>4, ConfigAssumption, EntryFields, Zenon DEF Comment
<1> HIDE DEF h, c, m, P
<1>8. <<h>> \in Seq(Line) /\ <<c>> \in Seq(Line) /\ \A i \in DOMAIN <<c>> : <<c>>[i] = c
  BY <1>3, <1>4
<1>9. Whole(a)
  <2>1. Whole(<<h>> \o m)
    BY <1>5, <1>6, WholeMore, Zenon
  <2>2. Nameless(<<c>>) /\ \A i \in DOMAIN <<c>> : <<c>>[i] # Comment
    BY <1>4, <1>7, <1>8, Zenon DEF Nameless
  <2> QED BY <1>0, <1>8, <2>1, <2>2, WholeMore, Zenon
<1>10. Parse(a) = <<h>> \o P \o <<c>>
  <2>1. /\ Readable(<<h>>) /\ Parse(<<h>>) = <<h>>
        /\ Readable(<<c>>) /\ Parse(<<c>>) = <<c>>
    BY <1>2, ParsedReadable, Zenon
  <2>2. <<h>> \o m \in Seq(Line)
    BY <1>6, <1>8
  <2>3. Readable(<<h>> \o m) /\ Parse(<<h>> \o m) = <<h>> \o P
    BY <1>6, <1>8, <2>1, ParseConcat, Zenon DEF P
  <2> QED BY <1>0, <1>8, <2>1, <2>2, <2>3, ParseConcat, Zenon
<1>11. <<h>> \o P \in Seq(Line) /\ <<h>> \o P \o <<c>> \in Seq(Line)
  BY <1>6, <1>8
<1>12. \A k : GetAll(Parse(a), k) = GetAll(<<h>>, k) \o GetAll(P, k) \o GetAll(<<c>>, k)
  <2>1. <<h>> \in Seq(Line) /\ P \in Seq(Line) /\ <<c>> \in Seq(Line)
    BY <1>6, <1>8
  <2>2. \A k : GetAll(<<h>> \o P \o <<c>>, k) = GetAll(<<h>>, k) \o GetAll(P, k) \o GetAll(<<c>>, k)
    BY <2>1, GetAllThree, ZenonT(20)
  <2> QED BY <1>10, <2>2, Zenon
<1>13. GetAll(<<h>>, "Name") = <<Invitee>> /\ GetAll(<<h>>, "ConnectTo") = <<>>
  BY <1>3, GetAllOne, Zenon
<1>14. GetAll(<<c>>, "Name") = <<>> /\ GetAll(<<c>>, "ConnectTo") = <<n>>
  BY <1>4, GetAllOne, Zenon
<1>15. <<Invitee>> \o <<>> \o <<>> = <<Invitee>> /\ <<>> \o <<>> \o <<n>> = <<n>>
  OBVIOUS
<1> QED BY <1>6, <1>9, <1>10, <1>11, <1>12, <1>13, <1>14, <1>15, Zenon

(* The block of the inviter, n at the address v with the host file es, as  *)
(* it is read back.                                                        *)
InviterIs(b, n, v, es) ==
  /\ Whole(b) /\ b \in Seq(Line) /\ Parse(b) = b
  /\ GetAll(b, "Name") = <<n>> /\ GetAll(b, "Address") = <<v>> \o GetAll(es, "Address")
  /\ Others(b) = Others(es)

(* That is how it is read back.                                            *)
LEMMA InviterRead ==
  ASSUME NEW n \in Node, NEW v, Trimmed(v), NEW es, Parsed(es), GetAll(es, "Name") = <<>>
  PROVE  InviterIs(<<Entry("Name", n)>> \o <<Entry("Address", v)>> \o es, n, v, es)
<1> DEFINE h == Entry("Name", n)
           d == Entry("Address", v)
           f == <<h>> \o <<d>>
           b == f \o es
<1>1. Trimmed(n)
  BY NodeTrimmed
<1>2. Parsed(<<h>>) /\ Parsed(<<d>>)
  BY <1>1, ParsedLines, Zenon
<1>3. h \in Line /\ h.key = "Name" /\ h.value = n
  BY <1>1, Entries, EntryFields, Zenon DEF Trimmed
<1>4. d \in Line /\ d.key = "Address" /\ d.value = v
  BY Entries, EntryFields, Zenon DEF Trimmed
<1>5. Whole(<<h>>)
  BY <1>1, WholeOne, Zenon
<1>6. es \in Seq(Line)
  BY Zenon DEF Parsed
<1>7. \A s : Parsed(s) => \A i \in DOMAIN s : s[i] # Comment
  <2>1. Comment.value = ""
    BY EntryFields, Zenon DEF Comment
  <2> QED BY <2>1, Zenon DEF Parsed
<1>8. b = f \o es
  OBVIOUS
<1> HIDE DEF h, d
<1>9. <<h>> \in Seq(Line) /\ <<d>> \in Seq(Line) /\ f \in Seq(Line) /\ \A i \in DOMAIN <<d>> : <<d>>[i] = d
  BY <1>3, <1>4
<1>10. Whole(f)
  BY <1>2, <1>4, <1>5, <1>7, <1>9, WholeMore, Zenon DEF Nameless
<1>11. Nameless(es)
  BY <1>6, GetAllEmpty, Zenon DEF Nameless
<1>12. Parsed(f)
  BY <1>2, ParsedBoth, Zenon
<1>13. \A k : GetAll(f, k) = GetAll(<<h>>, k) \o GetAll(<<d>>, k)
  BY <1>9, GetAllConcat, Zenon
<1>14. GetAll(<<h>>, "Name") = <<n>> /\ GetAll(<<h>>, "Address") = <<>>
  BY <1>3, GetAllOne, Zenon
<1>15. GetAll(<<d>>, "Name") = <<>> /\ GetAll(<<d>>, "Address") = <<v>>
  BY <1>4, GetAllOne, Zenon
<1>16. <<n>> \o <<>> = <<n>> /\ <<>> \o <<v>> = <<v>> /\ <<n>> \o <<>> \o <<>> = <<n>>
  OBVIOUS
<1>17. Others(f) = <<>>
  <2>1. f = Append(Append(<<>>, h), d)
    BY <1>3, <1>4
  <2>2. Others(<<>>) = <<>>
    BY PickNone, Zenon DEF Others
  <2>3. Append(<<>>, h) \in Seq(Line)
    BY <1>3
  <2>4. Others(Append(<<>>, h)) = Others(<<>>)
    BY <1>3, OthersAppend, Empty, Zenon DEF Field
  <2>5. Others(Append(Append(<<>>, h), d)) = Others(Append(<<>>, h))
    BY <1>4, <2>3, OthersAppend, Zenon DEF Field
  <2> HIDE DEF f
  <2> QED BY <2>1, <2>2, <2>4, <2>5, Zenon
<1> HIDE DEF f, b
<1>18. Whole(b)
  BY <1>2, <1>6, <1>7, <1>8, <1>10, <1>11, WholeMore, Zenon
<1>19. Parsed(b)
  BY <1>8, <1>12, ParsedBoth, Zenon
<1>20. \A k : GetAll(b, k) = GetAll(f, k) \o GetAll(es, k)
  <2>1. \A k : GetAll(f \o es, k) = GetAll(f, k) \o GetAll(es, k)
    BY <1>6, <1>9, GetAllConcat, SMT
  <2> QED BY <1>8, <2>1, Zenon
<1>21. Others(b) = Others(es)
  BY <1>6, <1>8, <1>9, <1>17, OthersBehind, Zenon
<1>22. GetAll(b, "Name") = <<n>> /\ GetAll(b, "Address") = <<v>> \o GetAll(es, "Address")
  BY <1>13, <1>14, <1>15, <1>16, <1>20, Zenon
<1>23. InviterIs(b, n, v, es)
  BY <1>18, <1>19, <1>21, <1>22, ParsedReadable, Zenon DEF InviterIs
<1> QED BY <1>8, <1>23, Zenon DEF f, h, d

-----------------------------------------------------------------------------
(***************************************************************************)
(* The files of "gsnet join".                                              *)
(***************************************************************************)
(* The first and the last of a list that is not empty.                     *)
LEMMA FirstOf ==
  ASSUME NEW es, NEW k, NEW x, NEW t \in Seq(Proc \cup STRING), GetAll(es, k) = <<x>> \o t
  PROVE  GetFirst(es, k) = x
<1>1. <<x>> \o t # <<>> /\ (<<x>> \o t)[1] = x
  OBVIOUS
<1> QED BY <1>1, Zenon DEF GetFirst

(* The first value that the parser returned is trimmed.                    *)
LEMMA FirstTrimmed ==
  ASSUME NEW es, Parsed(es), NEW k, GetAll(es, k) # <<>> PROVE Trimmed(GetFirst(es, k))
<1> DEFINE g == GetAll(es, k)
<1>1. g \in Seq(Proc \cup STRING)
  BY GetAllType, Zenon DEF Parsed
<1>2. \A i \in DOMAIN g : g[i] \notin {""} \cup DOMAIN Padded
  BY GetAllParsed, Zenon
<1>3. g # <<>> /\ GetFirst(es, k) = g[1]
  BY Zenon DEF GetFirst
<1> HIDE DEF g
<1>4. 1 \in DOMAIN g /\ g[1] \in Proc \cup STRING
  <2>1. g # <<>>
    BY <1>3
  <2> QED BY <1>1, <2>1
<1> QED BY <1>2, <1>3, <1>4, Zenon DEF Trimmed

(* And so is the last, behind one that is.                                 *)
LEMMA LastTrimmed ==
  ASSUME NEW v, Trimmed(v), NEW es, Parsed(es), NEW k
  PROVE  Trimmed(LastOf(<<v>> \o GetAll(es, k)))
<1> DEFINE g == GetAll(es, k)
           s == <<v>> \o g
<1>1. g \in Seq(Proc \cup STRING)
  BY GetAllType, Zenon DEF Parsed
<1>2. \A i \in DOMAIN g : Trimmed(g[i])
  <2>1. \A i \in DOMAIN g : g[i] \notin {""} \cup DOMAIN Padded
    BY GetAllParsed, Zenon
  <2>2. \A i \in DOMAIN g : g[i] \in Proc \cup STRING
    <3> HIDE DEF g
    <3> QED BY <1>1
  <2> QED BY <2>1, <2>2, Zenon DEF Trimmed
<1> HIDE DEF g
<1>3. s # <<>> /\ (s[Len(s)] = v \/ \E i \in DOMAIN g : s[Len(s)] = g[i])
  <2>1. CASE g = <<>>
    <3>1. s = <<v>>
      BY <2>1
    <3> QED BY <3>1
  <2>2. CASE g # <<>>
    <3>1. Len(g) \in DOMAIN g /\ Len(s) = Len(g) + 1 /\ s[Len(s)] = g[Len(g)] /\ s # <<>>
      BY <1>1, <2>2
    <3> QED BY <3>1
  <2> QED BY <2>1, <2>2
<1> HIDE DEF s
<1>4. Trimmed(s[Len(s)])
  BY <1>2, <1>3, Zenon
<1>5. LastOf(s) = s[Len(s)]
  BY <1>3, Zenon DEF LastOf
<1> QED BY <1>4, <1>5, Zenon DEF s, g

(* The last of one value.                                                  *)
LEMMA LastOne == ASSUME NEW v PROVE LastOf(<<v>>) = v
<1>1. <<v>> # <<>> /\ <<v>>[Len(<<v>>)] = v
  OBVIOUS
<1> QED BY <1>1, Zenon DEF LastOf

(* The tree that five files make.                                          *)
LEMMA FiveFiles ==
  ASSUME NEW a \in Path, NEW b \in Path, NEW c \in Path, NEW d \in Path, NEW e \in Path,
         a # b, a # c, a # d, a # e, b # c, b # d, b # e, c # d, c # e, d # e,
         NEW A, NEW B, NEW C, NEW D, NEW E, NEW ws,
         ws = <<Write(a, A), Write(b, B), Write(c, C), Write(d, D), Write(e, E)>>
  PROVE  /\ TreeOf(ws)[a] = A /\ TreeOf(ws)[b] = B /\ TreeOf(ws)[c] = C
         /\ TreeOf(ws)[d] = D /\ TreeOf(ws)[e] = E
<1> DEFINE at(f) == {i \in DOMAIN ws : ws[i].path = f}
<1>1. /\ DOMAIN ws = 1..5
      /\ ws[1] = Write(a, A) /\ ws[2] = Write(b, B) /\ ws[3] = Write(c, C)
      /\ ws[4] = Write(d, D) /\ ws[5] = Write(e, E)
  OBVIOUS
<1>2. /\ ws[1].path = a /\ ws[2].path = b /\ ws[3].path = c /\ ws[4].path = d /\ ws[5].path = e
      /\ ws[1].text = A /\ ws[2].text = B /\ ws[3].text = C /\ ws[4].text = D /\ ws[5].text = E
  BY <1>1, Fields, Zenon
<1>3. at(a) = {1} /\ at(b) = {2} /\ at(c) = {3} /\ at(d) = {4} /\ at(e) = {5}
  <2>1. \A i \in DOMAIN ws : i = 1 \/ i = 2 \/ i = 3 \/ i = 4 \/ i = 5
    BY <1>1
  <2>2. {1, 2, 3, 4, 5} \subseteq DOMAIN ws
    BY <1>1
  <2> QED BY <1>2, <2>1, <2>2
<1>4. \A i \in Nat : Max({i}) = i /\ {i} # {}
  BY DEF Max
<1>5. \A f \in Path : TreeOf(ws)[f] = IF at(f) = {} THEN NoFile ELSE ws[Max(at(f))].text
  BY DEF TreeOf
<1> HIDE DEF at
<1>6. \A f \in Path, i \in Nat : at(f) = {i} => TreeOf(ws)[f] = ws[i].text
  <2> SUFFICES ASSUME NEW f \in Path, NEW i \in Nat, at(f) = {i} PROVE TreeOf(ws)[f] = ws[i].text
    OBVIOUS
  <2>1. Max(at(f)) = i /\ at(f) # {}
    BY <1>4, Zenon
  <2> QED BY <1>5, <2>1, Zenon
<1>7. 1 \in Nat /\ 2 \in Nat /\ 3 \in Nat /\ 4 \in Nat /\ 5 \in Nat
  OBVIOUS
<1>8. TreeOf(ws)[a] = A
  BY <1>2, <1>3, <1>6, <1>7, Zenon
<1>9. TreeOf(ws)[b] = B
  BY <1>2, <1>3, <1>6, <1>7, Zenon
<1>10. TreeOf(ws)[c] = C
  BY <1>2, <1>3, <1>6, <1>7, Zenon
<1>11. TreeOf(ws)[d] = D
  BY <1>2, <1>3, <1>6, <1>7, Zenon
<1>12. TreeOf(ws)[e] = E
  BY <1>2, <1>3, <1>6, <1>7, Zenon
<1> QED BY <1>8, <1>9, <1>10, <1>11, <1>12, SMTT(20)

(* The public keys of the machine that joins, as they are read back.       *)
LEMMA JoinerKeys ==
  LET k == PublicKeys("joiner")
  IN  /\ Parsed(k) /\ Render(k) = k
      /\ GetFirst(k, "Ed25519PublicKey") = "joiner" /\ GetFirst(k, "WGPublicKey") = "joiner"
<1> DEFINE j == "joiner"
           x == Entry("Ed25519PublicKey", j)
           y == Entry("WGPublicKey", j)
<1>1. Trimmed(j)
  BY InvitationAssumption, Zenon DEF Trimmed
<1>2. Trim(j) = j /\ j # ""
  BY <1>1, TrimFacts, Zenon DEF Trimmed
<1>3. "Ed25519PublicKey" \in STRING /\ "WGPublicKey" \in STRING
  BY Literals, Zenon
<1>4. Parsed(<<x>>) /\ Parsed(<<y>>)
  BY <1>1, <1>2, <1>3, ParsedOne, Zenon DEF Usable
<1>5. x \in Line /\ x.key = "Ed25519PublicKey" /\ x.value = j
  <2>1. x \in Line
    BY <1>1, <1>3, Fielded, Zenon DEF Trimmed
  <2> QED BY <2>1, EntryFields, Zenon
<1>6. y \in Line /\ y.key = "WGPublicKey" /\ y.value = j
  <2>1. y \in Line
    BY <1>1, <1>3, Fielded, Zenon DEF Trimmed
  <2> QED BY <2>1, EntryFields, Zenon
<1>7. PublicKeys(j) = <<x, y>>
  BY Zenon DEF PublicKeys
<1> HIDE DEF j, x, y
<1>8. <<x, y>> = <<x>> \o <<y>> /\ <<x>> \in Seq(Line) /\ <<y>> \in Seq(Line)
  <2>1. <<x>> \o <<y>> = Append(Append(<<>>, x), y)
    BY <1>5, <1>6
  <2>2. Append(Append(<<>>, x), y) = <<x, y>>
    BY <1>5, <1>6, Two
  <2>3. <<x>> \in Seq(Line) /\ <<y>> \in Seq(Line)
    BY <1>5, <1>6
  <2> QED BY <2>1, <2>2, <2>3, Zenon
<1>9. Parsed(<<x, y>>)
  BY <1>4, <1>8, ParsedBoth, Zenon
<1>10. \A k : GetAll(<<x, y>>, k) = GetAll(<<x>>, k) \o GetAll(<<y>>, k)
  <2>1. <<x>> \in Seq(Line) /\ <<y>> \in Seq(Line)
    BY <1>8
  <2>2. \A k : GetAll(<<x>> \o <<y>>, k) = GetAll(<<x>>, k) \o GetAll(<<y>>, k)
    BY <2>1, GetAllTwo, Zenon
  <2> QED BY <1>8, <2>2, Zenon
<1>11. GetAll(<<x>>, "Ed25519PublicKey") = <<j>> /\ GetAll(<<x>>, "WGPublicKey") = <<>>
  BY <1>5, GetAllOne, Zenon
<1>12. GetAll(<<y>>, "Ed25519PublicKey") = <<>> /\ GetAll(<<y>>, "WGPublicKey") = <<j>>
  BY <1>6, GetAllOne, Zenon
<1>13. <<>> \o <<j>> = <<j>> \o <<>> /\ <<>> \in Seq(Proc \cup STRING)
  OBVIOUS
<1>14. GetFirst(<<x, y>>, "Ed25519PublicKey") = j
  BY <1>10, <1>11, <1>12, <1>13, FirstOf, Zenon
<1>15. GetFirst(<<x, y>>, "WGPublicKey") = j
  BY <1>10, <1>11, <1>12, <1>13, FirstOf, Zenon
<1>16. Render(<<x, y>>) = <<x, y>>
  BY <1>9, RenderSame, Zenon DEF Parsed
<1> QED BY <1>7, <1>9, <1>14, <1>15, <1>16, Zenon DEF j

(* What "gsnet join" writes, when n invites from the address v with the    *)
(* host file es.                                                           *)
JoinConf(n) == <<Entry("Name", Invitee)>> \o <<Entry("ConnectTo", n)>>
JoinHost(v, es) == <<Entry("Address", LastOf(<<v>> \o GetAll(es, "Address")))>> \o Others(es)
JoinFiles(n, v, es) ==
  << Write("ed25519_key.priv", <<"joiner">>), Write("wg.priv", <<"joiner">>),
     Write("gsnet.conf", JoinConf(n)), Write(Invitee, PublicKeys("joiner")),
     Write(n, JoinHost(v, es)) >>

(* gsnet.conf has a name and a node to connect to.                         *)
LEMMA JoinConfRead ==
  ASSUME NEW n \in Node
  PROVE  /\ Parsed(JoinConf(n)) /\ JoinConf(n) \in Seq(Line) /\ Parse(JoinConf(n)) = JoinConf(n)
         /\ GetAll(JoinConf(n), "Name") = <<Invitee>> /\ GetAll(JoinConf(n), "ConnectTo") = <<n>>
         /\ GetAll(JoinConf(n), "Subnet") = <<>>
<1> DEFINE h == Entry("Name", Invitee)
           c == Entry("ConnectTo", n)
<1>1. Trimmed(n) /\ Trimmed(Invitee)
  BY NodeTrimmed, InvitationAssumption, Zenon
<1>2. Parsed(<<h>>) /\ Parsed(<<c>>)
  BY <1>1, ParsedLines, Zenon
<1>3. h \in Line /\ h.key = "Name" /\ h.value = Invitee
  BY <1>1, Entries, EntryFields, Zenon DEF Trimmed
<1>4. c \in Line /\ c.key = "ConnectTo" /\ c.value = n
  BY <1>1, Entries, EntryFields, Zenon DEF Trimmed
<1>5. JoinConf(n) = <<h>> \o <<c>>
  BY Zenon DEF JoinConf
<1> HIDE DEF h, c
<1>6. <<h>> \in Seq(Line) /\ <<c>> \in Seq(Line)
  BY <1>3, <1>4
<1>7. Parsed(JoinConf(n))
  BY <1>2, <1>5, ParsedBoth, Zenon
<1>8. \A k : GetAll(JoinConf(n), k) = GetAll(<<h>>, k) \o GetAll(<<c>>, k)
  <2>1. \A k : GetAll(<<h>> \o <<c>>, k) = GetAll(<<h>>, k) \o GetAll(<<c>>, k)
    BY <1>6, GetAllTwo, ZenonT(20)
  <2> QED BY <1>5, <2>1, Zenon
<1>9. /\ GetAll(<<h>>, "Name") = <<Invitee>> /\ GetAll(<<h>>, "ConnectTo") = <<>>
      /\ GetAll(<<h>>, "Subnet") = <<>>
  BY <1>3, GetAllOne, Zenon
<1>10. /\ GetAll(<<c>>, "Name") = <<>> /\ GetAll(<<c>>, "ConnectTo") = <<n>>
       /\ GetAll(<<c>>, "Subnet") = <<>>
  BY <1>4, GetAllOne, Zenon
<1>11. <<Invitee>> \o <<>> = <<Invitee>> /\ <<>> \o <<n>> = <<n>> /\ <<>> \o <<>> = <<>>
  OBVIOUS
<1>12. GetAll(JoinConf(n), "Name") = <<Invitee>> /\ GetAll(JoinConf(n), "ConnectTo") = <<n>>
  BY <1>8, <1>9, <1>10, <1>11, Zenon
<1>13. GetAll(JoinConf(n), "Subnet") = <<>>
  BY <1>8, <1>9, <1>10, <1>11, Zenon
<1> QED BY <1>7, <1>12, <1>13, ParsedReadable, Zenon

(* The host file of the inviter has the address, and keys as before.       *)
LEMMA JoinHostRead ==
  ASSUME NEW v, Trimmed(v), NEW es, Parsed(es)
  PROVE  /\ Parsed(JoinHost(v, es)) /\ JoinHost(v, es) \in Seq(Line)
         /\ Parse(JoinHost(v, es)) = JoinHost(v, es)
         /\ GetFirst(JoinHost(v, es), "Address") = LastOf(<<v>> \o GetAll(es, "Address"))
         /\ \A k : k \notin Field =>
              /\ GetFirst(JoinHost(v, es), k) = GetFirst(es, k)
              /\ GetFirst(Others(es), k) = GetFirst(es, k)
<1> DEFINE w == LastOf(<<v>> \o GetAll(es, "Address"))
           d == Entry("Address", w)
           o == Others(es)
<1>1. Trimmed(w)
  BY LastTrimmed, Zenon
<1>2. Parsed(<<d>>)
  BY <1>1, ParsedLines, Zenon
<1>3. d \in Line /\ d.key = "Address" /\ d.value = w
  <2>1. w \in Proc \cup STRING
    BY <1>1, Zenon DEF Trimmed
  <2> HIDE DEF w
  <2>2. d \in Line
    BY <2>1, Entries, Zenon
  <2> QED BY <2>2, EntryFields, Zenon
<1>4. es \in Seq(Line)
  BY Zenon DEF Parsed
<1>5. o \in Seq(Line) /\ Parsed(o)
  BY <1>4, OthersType, Zenon
<1>6. \A k : GetAll(o, k) = IF k \in Field THEN <<>> ELSE GetAll(es, k)
  BY <1>4, OthersValues, Zenon
<1>7. JoinHost(v, es) = <<d>> \o o
  BY Zenon DEF JoinHost
<1> HIDE DEF w, d, o
<1>8. <<d>> \in Seq(Line)
  BY <1>3
<1>9. Parsed(JoinHost(v, es))
  BY <1>2, <1>5, <1>7, ParsedBoth, Zenon
<1>10. \A k : GetAll(JoinHost(v, es), k) = GetAll(<<d>>, k) \o GetAll(o, k)
  <2>1. \A k : GetAll(<<d>> \o o, k) = GetAll(<<d>>, k) \o GetAll(o, k)
    BY <1>5, <1>8, GetAllTwo, Zenon
  <2> QED BY <1>7, <2>1, Zenon
<1>11. GetFirst(JoinHost(v, es), "Address") = w
  <2>1. GetAll(<<d>>, "Address") = <<w>>
    BY <1>3, GetAllOne, Zenon
  <2>2. GetAll(o, "Address") \in Seq(Proc \cup STRING)
    BY <1>5, GetAllType
  <2> QED BY <1>10, <2>1, <2>2, FirstOf, Zenon
<1>12. ASSUME NEW k, k \notin Field
       PROVE  GetFirst(JoinHost(v, es), k) = GetFirst(es, k) /\ GetFirst(o, k) = GetFirst(es, k)
  <2>1. GetAll(<<d>>, k) = <<>>
    BY <1>3, <1>12, GetAllOne, Zenon DEF Field
  <2>2. GetAll(o, k) = GetAll(es, k)
    BY <1>6, <1>12, Zenon
  <2>3. <<>> \o GetAll(es, k) = GetAll(es, k)
    <3>1. GetAll(es, k) \in Seq(Proc \cup STRING)
      BY <1>4, GetAllType
    <3> QED BY <3>1
  <2>4. GetAll(JoinHost(v, es), k) = GetAll(es, k)
    BY <1>10, <2>1, <2>2, <2>3, Zenon
  <2> QED BY <2>2, <2>4, Zenon DEF GetFirst
<1> QED BY <1>9, <1>11, <1>12, ParsedReadable, Zenon DEF w, o

(* An invitation of n's, at the address v with the host file es.           *)
Makes(made, n, v, es) ==
  /\ UsableURL(made.url) /\ made.url.key = GetFirst(es, "Ed25519PublicKey")
  /\ made.text = WriteBlock(InviteeOf(n), Netname) \o <<Comment>>
                   \o (<<Entry("Name", n)>> \o <<Entry("Address", v)>> \o es)

(* What "gsnet join" writes with an invitation.                            *)
LEMMA JoinWrites ==
  ASSUME NEW n \in Node, NEW v, Trimmed(v), NEW es, Parsed(es), GetAll(es, "Name") = <<>>,
         NEW made, Makes(made, n, v, es)
  PROVE  CmdJoin("joiner", made.url, made.text) = JoinFiles(n, v, es)
<1> SUFFICES ASSUME NEW url, url = made.url, UsableURL(url),
                    url.key = GetFirst(es, "Ed25519PublicKey"),
                    NEW a, a = WriteBlock(InviteeOf(n), Netname),
                    NEW b, b = <<Entry("Name", n)>> \o <<Entry("Address", v)>> \o es
             PROVE  CmdJoin("joiner", url, a \o <<Comment>> \o b) = JoinFiles(n, v, es)
  BY Zenon DEF Makes
<1> DEFINE x == Parse(a)
           u == BlockFromEntries(x)
           w == BlockFromEntries(b)
           adr == LastOf(<<v>> \o GetAll(es, "Address"))
           file == ParseFile(a \o <<Comment>> \o b)
<1>1. /\ Whole(a) /\ x \in Seq(Line)
      /\ GetAll(x, "Name") = <<Invitee>> /\ GetAll(x, "ConnectTo") = <<n>>
  BY InviteeRead, Zenon
<1>2. /\ Whole(b) /\ b \in Seq(Line) /\ b = Parse(b)
      /\ GetAll(b, "Name") = <<n>> /\ GetAll(b, "Address") = <<v>> \o GetAll(es, "Address")
      /\ Others(b) = Others(es)
  <2>1. InviterIs(b, n, v, es)
    BY InviterRead, Zenon
  <2> QED BY <2>1, Zenon DEF InviterIs
<1>3. u.name = Invitee /\ u.connectTo = <<n>>
  BY <1>1, BlockFields, LastOne, Zenon
<1>4. w.name = n /\ w.address = adr /\ w.other = Others(es)
  BY <1>2, BlockFields, LastOne, Zenon
<1>5. ~Unnamed(u) /\ ~Unnamed(w)
  BY <1>3, <1>4, InvitationAssumption, ConfigAssumption, Zenon DEF Unnamed
<1> HIDE DEF x, u, w
<1>6. file # Bad /\ file.invitee = u /\ file.hosts = <<w>>
  <2>1. ReadsAs(file, u, w)
    BY <1>1, <1>2, <1>5, ReadBack, Zenon DEF x, u, w
  <2> QED BY <2>1, Zenon DEF ReadsAs
<1>7. <<w>> # <<>> /\ <<w>>[1] = w
  OBVIOUS
<1> HIDE DEF file
<1>8. GetFirst(w.other, "Ed25519PublicKey") = url.key
  <2>1. "Ed25519PublicKey" \notin Field
    BY Zenon DEF Field
  <2> QED BY <1>4, <2>1, JoinHostRead, Zenon
<1>9. adr # ""
  BY LastTrimmed, Zenon DEF Trimmed
<1>10. [i \in DOMAIN u.connectTo |-> Entry("ConnectTo", u.connectTo[i])] = <<Entry("ConnectTo", n)>>
  BY <1>3, OneLine, Zenon
<1>11. Render(JoinConf(n)) = JoinConf(n) /\ Render(JoinHost(v, es)) = JoinHost(v, es)
  BY JoinConfRead, JoinHostRead, RenderSame, Zenon
<1>12. Render(PublicKeys("joiner")) = PublicKeys("joiner")
  BY RenderKeys
<1>13. CmdJoin("joiner", url, a \o <<Comment>> \o b)
         = << Write("ed25519_key.priv", <<"joiner">>), Write("wg.priv", <<"joiner">>),
              Write("gsnet.conf", Render(<<Entry("Name", u.name)>>
                 \o [i \in DOMAIN u.connectTo |-> Entry("ConnectTo", u.connectTo[i])])),
              Write(u.name, Render(PublicKeys("joiner"))),
              Write(w.name, Render((IF w.address = "" THEN <<>> ELSE <<Entry("Address", w.address)>>)
                                     \o w.other)) >>
  BY <1>6, <1>7, <1>8, ZenonT(30) DEF CmdJoin, JoinWith, file
<1>14. (IF w.address = "" THEN <<>> ELSE <<Entry("Address", w.address)>>) \o w.other = JoinHost(v, es)
  BY <1>4, <1>9, Zenon DEF JoinHost
<1>15. <<Entry("Name", u.name)>> \o [i \in DOMAIN u.connectTo |-> Entry("ConnectTo", u.connectTo[i])]
         = JoinConf(n)
  BY <1>3, <1>10, Zenon DEF JoinConf
<1> QED BY <1>3, <1>4, <1>11, <1>12, <1>13, <1>14, <1>15, Zenon DEF JoinFiles

-----------------------------------------------------------------------------
(***************************************************************************)
(* The tree that an invitation leaves.                                     *)
(***************************************************************************)
(* gsnet.conf and the fragments, read.                                     *)
LEMMA LoadIs ==
  ASSUME NEW text, NEW a, a = IF text = NoFile THEN <<>> ELSE Parse(text),
         NEW b, b = Parse(Fragment)
  PROVE  LoadDirectory(text) = IF Bad \in {a, b} THEN Bad ELSE a \o b
<1>1. <<a, b>>[1] = a /\ <<a, b>>[2] = b
  OBVIOUS
<1>2. LoadDirectory(text)
        = IF Bad \in {<<a, b>>[1], <<a, b>>[2]} THEN Bad ELSE <<a, b>>[1] \o <<a, b>>[2]
  BY Zenon DEF LoadDirectory
<1> QED BY <1>1, <1>2, Zenon

(* The values in two lists one after the other.                            *)
LEMMA RangeConcat ==
  ASSUME NEW S, NEW s \in Seq(S), NEW t \in Seq(S)
  PROVE  Range(s \o t) = Range(s) \cup Range(t)
<1>1. /\ DOMAIN (s \o t) = 1..(Len(s) + Len(t)) /\ DOMAIN s = 1..Len(s) /\ DOMAIN t = 1..Len(t)
      /\ Len(s) \in Nat /\ Len(t) \in Nat
      /\ \A i \in 1..Len(s) : (s \o t)[i] = s[i]
      /\ \A i \in 1..(Len(s) + Len(t)) : i > Len(s) => (s \o t)[i] = t[i - Len(s)]
  BY Concats
<1> DEFINE r == s \o t
<1> HIDE DEF r
<1>2. \A x : x \in Range(r) <=> \E i \in 1..(Len(s) + Len(t)) : x = r[i]
  BY <1>1, ZenonT(20) DEF Range, r
<1>3. \A x : x \in Range(s) <=> \E i \in 1..Len(s) : x = s[i]
  BY <1>1 DEF Range
<1>4. \A x : x \in Range(t) <=> \E i \in 1..Len(t) : x = t[i]
  BY <1>1 DEF Range
<1>5. \A x : x \in Range(s) => x \in Range(r)
  BY <1>1, <1>2, <1>3 DEF r
<1>6. ASSUME NEW x, x \in Range(t) PROVE x \in Range(r)
  <2>1. PICK i \in 1..Len(t) : x = t[i]
    BY <1>4, <1>6
  <2>2. /\ i + Len(s) \in 1..(Len(s) + Len(t)) /\ i + Len(s) > Len(s) /\ (i + Len(s)) - Len(s) = i
    BY <1>1, <2>1, SMTT(20)
  <2>3. r[i + Len(s)] = t[i]
    BY <1>1, <2>2 DEF r
  <2> QED BY <1>2, <2>1, <2>2, <2>3, SMTT(20)
<1>7. ASSUME NEW x, x \in Range(r) PROVE x \in Range(s) \/ x \in Range(t)
  <2>1. PICK i \in 1..(Len(s) + Len(t)) : x = r[i]
    BY <1>2, <1>7
  <2>2. CASE i <= Len(s)
    BY <1>1, <1>3, <2>1, <2>2, SMTT(20) DEF r
  <2>3. CASE i > Len(s)
    <3>1. i - Len(s) \in 1..Len(t) /\ r[i] = t[i - Len(s)]
      BY <1>1, <2>1, <2>3 DEF r
    <3> QED BY <1>4, <2>1, <3>1, SMTT(20)
  <2> QED BY <1>1, <2>1, <2>2, <2>3, SMTT(20)
<1> QED BY <1>5, <1>6, <1>7, Zenon DEF r

(* The configuration of the node that joined, with the fragments.          *)
LEMMA JoinedLoads ==
  ASSUME ConnectsInConf, NEW n \in Node, NEW frag, frag = Parse(Fragment), frag # Bad,
         NEW es, es = LoadDirectory(JoinConf(n))
  PROVE  /\ es # Bad /\ GetFirst(es, "Name") = Invitee
         /\ GetAll(es, "ConnectTo") = <<n>> /\ GetAll(es, "Subnet") = GetAll(frag, "Subnet")
<1> DEFINE c == JoinConf(n)
<1>1. /\ c \in Seq(Line) /\ Parse(c) = c
      /\ GetAll(c, "Name") = <<Invitee>> /\ GetAll(c, "ConnectTo") = <<n>>
      /\ GetAll(c, "Subnet") = <<>>
  BY JoinConfRead, Zenon
<1>2. Parsed(frag) /\ frag \in Seq(Line)
  BY ParseIsParsed, ConfigAssumption, Zenon DEF Parsed
<1>3. GetAll(frag, "ConnectTo") = <<>>
  BY Zenon DEF ConnectsInConf
<1> HIDE DEF c
<1>4. c # NoFile /\ c # Bad
  BY <1>1, InvitationAssumption, Zenon
<1>5. es = c \o frag
  BY <1>1, <1>4, LoadIs, Zenon DEF c
<1>6. c \o frag \in Seq(Line) /\ c \o frag # Bad
  <2>1. c \o frag \in Seq(Line)
    BY <1>1, <1>2
  <2> QED BY <2>1, InvitationAssumption, Zenon
<1>7. \A k : GetAll(es, k) = GetAll(c, k) \o GetAll(frag, k)
  <2>1. \A k : GetAll(c \o frag, k) = GetAll(c, k) \o GetAll(frag, k)
    BY <1>1, <1>2, GetAllTwo, Zenon
  <2> QED BY <1>5, <2>1, Zenon
<1>8. \A k : GetAll(frag, k) \in Seq(Proc \cup STRING)
  BY <1>2, GetAllType
<1>9. <<n>> \o <<>> = <<n>>
  OBVIOUS
<1>10. <<>> \o GetAll(frag, "Subnet") = GetAll(frag, "Subnet")
  BY <1>8
<1>11. GetFirst(es, "Name") = Invitee
  BY <1>1, <1>7, <1>8, FirstOf, Zenon
<1> QED BY <1>1, <1>3, <1>5, <1>6, <1>7, <1>9, <1>10, <1>11, Zenon

(* The tree of a node that was invited by n.                               *)
JoinedIs(tree, n, v, es) ==
  /\ tree["ed25519_key.priv"] = <<"joiner">> /\ tree["wg.priv"] = <<"joiner">>
  /\ tree["gsnet.conf"] = JoinConf(n) /\ tree[Invitee] = PublicKeys("joiner")
  /\ tree[n] = JoinHost(v, es)

(* The five files that "gsnet join" writes are five.                       *)
LEMMA JoinedTree ==
  ASSUME HostsOnly, NEW n \in Node, n # Invitee, NEW v, NEW es
  PROVE  JoinedIs(TreeOf(JoinFiles(n, v, es)), n, v, es)
<1> DEFINE a == "ed25519_key.priv"
           b == "wg.priv"
           c == "gsnet.conf"
<1>1. Invitee \in Node
  BY InvitationAssumption, Zenon
<1>2. a \in Path /\ b \in Path /\ c \in Path /\ Invitee \in Path /\ n \in Path
  BY <1>1, Zenon DEF Path
<1>3. a # b /\ a # c /\ b # c
  OBVIOUS
<1>4. /\ a # Invitee /\ b # Invitee /\ c # Invitee
      /\ a # n /\ b # n /\ c # n
  BY <1>1, Zenon DEF HostsOnly
<1>5. JoinFiles(n, v, es)
        = << Write(a, <<"joiner">>), Write(b, <<"joiner">>), Write(c, JoinConf(n)),
             Write(Invitee, PublicKeys("joiner")), Write(n, JoinHost(v, es)) >>
  BY Zenon DEF JoinFiles
<1> HIDE DEF a, b, c
<1> DEFINE T == <<"joiner">>
           J == JoinConf(n)
           K == PublicKeys("joiner")
           H == JoinHost(v, es)
           ws == JoinFiles(n, v, es)
<1>6. ws = <<Write(a, T), Write(b, T), Write(c, J), Write(Invitee, K), Write(n, H)>>
  BY <1>5
<1> HIDE DEF T, J, K, H, ws
<1>7. /\ TreeOf(ws)[a] = T /\ TreeOf(ws)[b] = T /\ TreeOf(ws)[c] = J
      /\ TreeOf(ws)[Invitee] = K /\ TreeOf(ws)[n] = H
  BY <1>2, <1>3, <1>4, <1>6, FiveFiles, SMTT(20)
<1> QED BY <1>7, Zenon DEF a, b, c, T, J, K, H, ws, JoinedIs

(* The tree that "gsnet join" leaves passes fsck.                          *)
LEMMA JoinedFsck ==
  ASSUME HostsOnly, ConnectsInConf, NEW n \in Node, n # Invitee,
         NEW v, Trimmed(v), NEW es, Parsed(es),
         NEW frag, frag = Parse(Fragment), frag # Bad,
         \A s \in Range(GetAll(frag, "Subnet")) : Valid(s),
         NEW tree, tree = TreeOf(JoinFiles(n, v, es))
  PROVE  FsckPasses(tree)
<1> DEFINE e == LoadDirectory(tree["gsnet.conf"])
<1>1. /\ tree["ed25519_key.priv"] = <<"joiner">> /\ tree["wg.priv"] = <<"joiner">>
      /\ tree["gsnet.conf"] = JoinConf(n) /\ tree[Invitee] = PublicKeys("joiner")
      /\ tree[n] = JoinHost(v, es)
  <2>1. JoinedIs(tree, n, v, es)
    BY JoinedTree, Zenon
  <2> QED BY <2>1, Zenon DEF JoinedIs
<1>2. /\ e # Bad /\ GetFirst(e, "Name") = Invitee
      /\ GetAll(e, "ConnectTo") = <<n>> /\ GetAll(e, "Subnet") = GetAll(frag, "Subnet")
  BY <1>1, JoinedLoads, Zenon
<1>3. tree["gsnet.conf"] # NoFile
  BY <1>1, JoinConfRead, InvitationAssumption, Zenon
<1>4. Valid(Invitee) /\ Valid(n)
  BY ConfigAssumption, InvitationAssumption, Zenon DEF Valid
<1>5. <<"joiner">> # <<>> /\ <<"joiner">>[1] = "joiner"
  OBVIOUS
<1>6. <<"joiner">> # NoFile
  BY InvitationAssumption, Zenon
<1>7. CheckPrivateKey(tree["ed25519_key.priv"]) /\ CheckPrivateKey(tree["wg.priv"])
  BY <1>1, <1>5, <1>6, Zenon DEF CheckPrivateKey, ParsesAsKey
<1>8. /\ Parsed(PublicKeys("joiner"))
      /\ GetFirst(PublicKeys("joiner"), "Ed25519PublicKey") = "joiner"
      /\ GetFirst(PublicKeys("joiner"), "WGPublicKey") = "joiner"
  BY JoinerKeys
<1>9. /\ PublicKeys("joiner") \in Seq(Line)
      /\ Parse(PublicKeys("joiner")) = PublicKeys("joiner")
  BY <1>8, ParsedReadable, Zenon
<1>10. tree[Invitee] # NoFile /\ Parse(tree[Invitee]) # Bad
  BY <1>1, <1>9, InvitationAssumption, ZenonT(20)
<1>11. CheckHostMatchesPrivate(tree, Parse(tree[Invitee]))
  <2> DEFINE h == Parse(tree[Invitee])
  <2>1. /\ GetFirst(h, "Ed25519PublicKey") = tree["ed25519_key.priv"][1]
        /\ GetFirst(h, "WGPublicKey") = tree["wg.priv"][1]
    BY <1>1, <1>5, <1>8, <1>9, Zenon
  <2> HIDE DEF h
  <2>2. CheckHostMatchesPrivate(tree, h)
    BY <2>1 DEF CheckHostMatchesPrivate
  <2> QED BY <2>2 DEF h
<1>12. tree[n] # NoFile
  BY <1>1, JoinHostRead, InvitationAssumption, Zenon
<1>13. Range(<<n>>) = {n}
  BY DEF Range
<1>14. \A t \in Range(GetAll(e, "ConnectTo")) : Valid(t) /\ tree[t] # NoFile
  BY <1>2, <1>4, <1>12, <1>13, Zenon
<1>15. \A s \in Range(GetAll(e, "Subnet")) : Valid(s)
  BY <1>2, Zenon
<1> QED BY <1>2, <1>3, <1>4, <1>7, <1>10, <1>11, <1>14, <1>15, Zenon DEF FsckPasses

(* What "gsnet join" writes is no error.                                   *)
LEMMA JoinFilesType ==
  ASSUME NEW n \in Node, NEW v, Trimmed(v), NEW es, Parsed(es)
  PROVE  JoinFiles(n, v, es) # Bad
<1> DEFINE W == [path : Path, text : Seq(Line) \cup Seq(STRING)]
           T == <<"joiner">>
<1>1. "joiner" \in STRING
  BY InvitationAssumption, Zenon
<1>2. T \in Seq(STRING)
  BY <1>1
<1>3. JoinConf(n) \in Seq(Line) /\ JoinHost(v, es) \in Seq(Line) /\ PublicKeys("joiner") \in Seq(Line)
  BY JoinConfRead, JoinHostRead, JoinerKeys, ParsedReadable, Zenon
<1>4. {"ed25519_key.priv", "wg.priv", "gsnet.conf", Invitee, n} \subseteq Path
  BY InvitationAssumption, Zenon DEF Path
<1>5. \A p \in Path, t \in Seq(Line) \cup Seq(STRING) : Write(p, t) \in W
  BY DEF Write
<1> DEFINE w1 == Write("ed25519_key.priv", T)
           w2 == Write("wg.priv", T)
           w3 == Write("gsnet.conf", JoinConf(n))
           w4 == Write(Invitee, PublicKeys("joiner"))
           w5 == Write(n, JoinHost(v, es))
<1> HIDE DEF W
<1>6. w1 \in W /\ w2 \in W /\ w3 \in W
  BY <1>2, <1>3, <1>4, <1>5, Zenon
<1>7. w4 \in W /\ w5 \in W
  BY <1>2, <1>3, <1>4, <1>5, Zenon
<1>8. JoinFiles(n, v, es) = <<w1, w2, w3, w4, w5>>
  BY Zenon DEF JoinFiles
<1> HIDE DEF w1, w2, w3, w4, w5
<1>9. JoinFiles(n, v, es) \in Seq(W)
  BY <1>6, <1>7, <1>8
<1> QED BY <1>9, InvitationAssumption, Zenon DEF W

(* "gsnet invite" makes the invitation of a tree that fsck accepts.        *)
LEMMA Invites ==
  ASSUME NEW d, FsckPasses(d), NEW entries, entries = LoadDirectory(d["gsnet.conf"]),
         NEW n \in Node, n = GetFirst(entries, "Name"),
         NEW addr, addr = GetFirst(entries, "Address"), Trimmed(addr),
         GetFirst(entries, "Port") # "0",
         NEW es, es = Parse(d[n]), Parsed(es)
  PROVE  Makes(CmdInvite(d), n, addr, es)
<1> DEFINE port == GetFirst(entries, "Port")
           prt == IF Valid(port) THEN port ELSE "51820"
           url == [host |-> addr, port |-> prt, key |-> d["ed25519_key.priv"][1]]
           hosts == <<InviterOf(n, addr, es)>>
           file == [netname |-> Netname, invitee |-> InviteeOf(n), hosts |-> hosts]
           made == [url |-> url, text |-> RenderFile(file)]
<1>1. /\ entries # Bad /\ ParsesAsKey(d["ed25519_key.priv"]) /\ d[n] # NoFile /\ es # Bad
      /\ CheckHostMatchesPrivate(d, es)
  BY Zenon DEF FsckPasses, CheckPrivateKey
<1>2. n # ""
  BY ConfigAssumption, Zenon
<1>3. CmdInvite(d) = made
  BY <1>1, <1>2, Zenon DEF CmdInvite, InviteeOf, InviterOf
<1>4. made.url = url /\ made.text = RenderFile(file)
  <2> HIDE DEF url, file
  <2> QED OBVIOUS
<1>5. url.host = addr /\ url.port = prt /\ url.key = d["ed25519_key.priv"][1]
  <2> HIDE DEF prt
  <2> DEFINE k == d["ed25519_key.priv"][1]
  <2> HIDE DEF k
  <2>1. url = [host |-> addr, port |-> prt, key |-> k]
    BY Zenon DEF k
  <2> HIDE DEF url
  <2>2. url.host = addr /\ url.port = prt /\ url.key = k
    BY <2>1
  <2> QED BY <2>2, Zenon DEF k
<1>6. prt # "0"
  BY Zenon
<1>7. UsableURL(url)
  BY <1>5, <1>6, Zenon DEF UsableURL, Trimmed
<1>8. url.key = GetFirst(es, "Ed25519PublicKey")
  <2>1. GetFirst(es, "Ed25519PublicKey") = d["ed25519_key.priv"][1]
    BY <1>1 DEF CheckHostMatchesPrivate
  <2> QED BY <1>5, <2>1, Zenon
<1> HIDE DEF url
<1>9. RenderFile(file) = WriteBlock(InviteeOf(n), Netname) \o <<Comment>>
                           \o WriteBlock(InviterOf(n, addr, es), "")
  <2> DEFINE x == InviteeOf(n)
             y == InviterOf(n, addr, es)
  <2>1. file = [netname |-> Netname, invitee |-> x, hosts |-> <<y>>]
    BY Zenon
  <2> HIDE DEF x, y, file
  <2>2. RenderFile(file) = WriteBlock(x, Netname) \o <<Comment>> \o WriteBlock(y, "")
    BY <2>1, RenderTwo, ZenonT(20)
  <2> QED BY <2>2, Zenon DEF x, y
<1> HIDE DEF file
<1>10. es \in Seq(Line)
  BY Zenon DEF Parsed
<1>11. WriteBlock(InviterOf(n, addr, es), "") = <<Entry("Name", n)>> \o <<Entry("Address", addr)>> \o es
  BY <1>10, InviterText, Zenon
<1>12. CmdInvite(d).url = url /\ CmdInvite(d).text = RenderFile(file)
  BY <1>3, <1>4, Zenon
<1>13. CmdInvite(d).text = WriteBlock(InviteeOf(n), Netname) \o <<Comment>>
                             \o (<<Entry("Name", n)>> \o <<Entry("Address", addr)>> \o es)
  BY <1>9, <1>11, <1>12, Zenon
<1> QED BY <1>7, <1>8, <1>12, <1>13, Zenon DEF Makes

(* A host file with the same public keys matches the same private ones.    *)
LEMMA MatchesToo ==
  ASSUME NEW d, NEW x, NEW y, CheckHostMatchesPrivate(d, x),
         GetFirst(y, "Ed25519PublicKey") = GetFirst(x, "Ed25519PublicKey"),
         GetFirst(y, "WGPublicKey") = GetFirst(x, "WGPublicKey")
  PROVE  CheckHostMatchesPrivate(d, y)
  BY DEF CheckHostMatchesPrivate

(* The fragments' subnets are among those that fsck has looked at.         *)
LEMMA FragmentChecked ==
  ASSUME NEW text, text = NoFile \/ text \in Seq(Line),
         NEW entries, entries = LoadDirectory(text), entries # Bad,
         \A s \in Range(GetAll(entries, "Subnet")) : Valid(s)
  PROVE  /\ Parse(Fragment) # Bad
         /\ \A s \in Range(GetAll(Parse(Fragment), "Subnet")) : Valid(s)
<1> DEFINE a == IF text = NoFile THEN <<>> ELSE Parse(text)
           b == Parse(Fragment)
<1>1. LoadDirectory(text) = IF Bad \in {a, b} THEN Bad ELSE a \o b
  <2>1. a = (IF text = NoFile THEN <<>> ELSE Parse(text)) /\ b = Parse(Fragment)
    OBVIOUS
  <2> HIDE DEF a, b
  <2> QED BY <2>1, LoadIs, Zenon
<1>2. a # Bad /\ b # Bad /\ entries = a \o b
  <2> HIDE DEF a, b
  <2> QED BY <1>1, Zenon
<1>3. a \in Seq(Line)
  BY <1>2, ParseIsParsed, Empty, Zenon DEF Parsed
<1>4. b \in Seq(Line)
  BY <1>2, ParseIsParsed, ConfigAssumption, Zenon DEF Parsed
<1> HIDE DEF a, b
<1>5. GetAll(entries, "Subnet") = GetAll(a, "Subnet") \o GetAll(b, "Subnet")
  <2>1. \A k : GetAll(a \o b, k) = GetAll(a, k) \o GetAll(b, k)
    BY <1>3, <1>4, GetAllTwo, SMTT(20)
  <2> QED BY <1>2, <2>1, Zenon
<1>6. \A k : GetAll(a, k) \in Seq(Proc \cup STRING) /\ GetAll(b, k) \in Seq(Proc \cup STRING)
  BY <1>3, <1>4, GetAllType
<1>7. Range(GetAll(entries, "Subnet")) = Range(GetAll(a, "Subnet")) \cup Range(GetAll(b, "Subnet"))
  <2> DEFINE x == GetAll(a, "Subnet")
             y == GetAll(b, "Subnet")
  <2>1. x \in Seq(Proc \cup STRING) /\ y \in Seq(Proc \cup STRING)
    BY <1>6, Zenon
  <2> HIDE DEF x, y
  <2>2. Range(x \o y) = Range(x) \cup Range(y)
    BY <2>1, RangeConcat
  <2> QED BY <1>5, <2>2, Zenon DEF x, y
<1> QED BY <1>2, <1>7, Zenon DEF b

(* An invitation made from a tree of files of lines works.                 *)
LEMMA Invited ==
  ASSUME HostsOnly, ConnectsInConf, TypeOK
  PROVE  InvitationWorks
<1> DEFINE entries == LoadDirectory(disk["gsnet.conf"])
           n == GetFirst(entries, "Name")
           addr == GetFirst(entries, "Address")
           es == Parse(disk[n])
           made == CmdInvite(disk)
           joined == CmdJoin("joiner", made.url, made.text)
           tree == TreeOf(joined)
<1> SUFFICES ASSUME FsckPasses(disk), addr # "", GetFirst(entries, "Port") # "0",
                    n \in Node \ {Invitee}, GetAll(es, "Name") = <<>>
             PROVE  /\ joined # Bad /\ FsckPasses(tree)
                    /\ GetAll(Parse(tree["gsnet.conf"]), "Name") = <<Invitee>>
                    /\ GetAll(Parse(tree["gsnet.conf"]), "ConnectTo") = <<n>>
                    /\ CheckHostMatchesPrivate(disk, Parse(tree[n]))
                    /\ GetFirst(Parse(tree[n]), "Address") = LastOf(<<addr>> \o GetAll(es, "Address"))
  BY Zenon DEF InvitationWorks, JoinedTo
<1>1. n \in Node /\ n # Invitee
  BY Zenon
<1>2. /\ entries # Bad /\ disk[n] # NoFile /\ es # Bad
      /\ \A s \in Range(GetAll(entries, "Subnet")) : Valid(s)
  BY Zenon DEF FsckPasses
<1>3. CheckHostMatchesPrivate(disk, es)
  BY Zenon DEF FsckPasses
<1>4. disk["gsnet.conf"] = NoFile \/ disk["gsnet.conf"] \in Seq(Line)
  BY ZenonT(20) DEF TypeOK, Path
<1>5. disk[n] \in Seq(Line)
  <2> HIDE DEF n
  <2>1. n \in Path /\ n \notin {"ed25519_key.priv", "wg.priv"}
    BY <1>1, ZenonT(20) DEF HostsOnly, Path
  <2> QED BY <1>2, <2>1, ZenonT(20) DEF TypeOK
<1>6. Parsed(entries) /\ Parsed(es)
  BY <1>2, <1>4, <1>5, LoadParsed, ParseIsParsed, Zenon
<1>7. GetAll(entries, "Address") # <<>>
  BY Zenon DEF GetFirst
<1>8. Trimmed(addr)
  BY <1>6, <1>7, FirstTrimmed, Zenon
<1>9. /\ Parse(Fragment) # Bad
      /\ \A s \in Range(GetAll(Parse(Fragment), "Subnet")) : Valid(s)
  BY <1>2, <1>4, FragmentChecked, Zenon
<1>10. n = GetFirst(entries, "Name") /\ addr = GetFirst(entries, "Address") /\ es = Parse(disk[n])
  BY Zenon
<1> HIDE DEF n, addr, es
<1>11. Makes(made, n, addr, es)
  <2> DEFINE e == entries
  <2>1. /\ e = LoadDirectory(disk["gsnet.conf"]) /\ GetFirst(e, "Port") # "0"
        /\ n = GetFirst(e, "Name") /\ addr = GetFirst(e, "Address")
    BY <1>10, Zenon
  <2> HIDE DEF e
  <2> QED BY <1>1, <1>6, <1>8, <1>10, <2>1, Invites, Zenon
<1> HIDE DEF made
<1>12. joined = JoinFiles(n, addr, es)
  BY <1>1, <1>6, <1>8, <1>11, JoinWrites, Zenon
<1>13. joined # Bad
  BY <1>1, <1>6, <1>8, <1>12, JoinFilesType, Zenon
<1> HIDE DEF joined
<1>14. FsckPasses(tree)
  BY <1>1, <1>6, <1>8, <1>9, <1>12, JoinedFsck, Zenon
<1>15. JoinedIs(tree, n, addr, es)
  BY <1>1, <1>12, JoinedTree, Zenon
<1>16. tree["gsnet.conf"] = JoinConf(n) /\ tree[n] = JoinHost(addr, es)
  BY <1>15, Zenon DEF JoinedIs
<1> HIDE DEF tree
<1>17. GetAll(Parse(tree["gsnet.conf"]), "Name") = <<Invitee>>
  BY <1>1, <1>16, JoinConfRead, Zenon
<1>18. GetAll(Parse(tree["gsnet.conf"]), "ConnectTo") = <<n>>
  BY <1>1, <1>16, JoinConfRead, Zenon
<1>19. Parse(tree[n]) = JoinHost(addr, es)
  BY <1>6, <1>8, <1>16, JoinHostRead, Zenon
<1>20. GetFirst(Parse(tree[n]), "Address") = LastOf(<<addr>> \o GetAll(es, "Address"))
  BY <1>6, <1>8, <1>19, JoinHostRead, Zenon
<1>21. CheckHostMatchesPrivate(disk, Parse(tree[n]))
  <2>1. "Ed25519PublicKey" \notin Field /\ "WGPublicKey" \notin Field
    BY Zenon DEF Field
  <2>2. \A k : k \notin Field => GetFirst(JoinHost(addr, es), k) = GetFirst(es, k)
    BY <1>6, <1>8, JoinHostRead, ZenonT(20)
  <2>3. /\ GetFirst(JoinHost(addr, es), "Ed25519PublicKey") = GetFirst(es, "Ed25519PublicKey")
        /\ GetFirst(JoinHost(addr, es), "WGPublicKey") = GetFirst(es, "WGPublicKey")
    BY <2>1, <2>2, Zenon
  <2>4. CheckHostMatchesPrivate(disk, JoinHost(addr, es))
    BY <1>3, <2>3, MatchesToo, Zenon
  <2> QED BY <1>19, <2>4, Zenon
<1> QED BY <1>13, <1>14, <1>17, <1>18, <1>20, <1>21, Zenon

(* The invitation that "gsnet invite" makes of a tree that fsck accepts is *)
(* one with which "gsnet join" succeeds, and the tree it leaves passes     *)
(* fsck, connects to the inviter and knows the inviter's keys and address, *)
(* if what is imported names nodes and the fragments on the machine that   *)
(* joins connect to none (cmdInvite, File.Render, ParseFile, cmdJoin).     *)
THEOREM InvitationHolds ==
  ASSUME HostsOnly, ConnectsInConf
  PROVE  Spec => []InvitationWorks
<1>1. TypeOK => InvitationWorks
  BY Invited
<1>. QED  BY <1>1, TypeHolds, PTL

=============================================================================
