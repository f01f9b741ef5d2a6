---------------------------- MODULE ConfigTypes -----------------------------
(***************************************************************************)
(* Proofs about module Config: what its operators on lines return, and     *)
(* that every file holds what belongs into it.                             *)
(*                                                                         *)
(* What the loops over lines compute is shown by induction over lists, in  *)
(* the form of lemma SeqInduct, which rests on the least element of a set  *)
(* of numbers.                                                             *)
(***************************************************************************)
EXTENDS Config, TLAPS, WellFoundedInduction

(* What a command writes: keys, and files of lines.                        *)
Keys == {"ed25519_key.priv", "wg.priv"}
HostFile == [path : Node, text : Seq(Line)]

(* What the parser accepts.                                                *)
Parsed(es) ==
  /\ es \in Seq(Line)
  /\ \A i \in DOMAIN es : es[i].key # "" /\ es[i].value \notin {""} \cup DOMAIN Padded

(* Entries that the parser will accept.                                    *)
Usable(k, v) == k # "" /\ Trim(v) # ""
Readable(es) == \A i \in DOMAIN es : Usable(es[i].key, es[i].value)

(* Lines that name nobody, and a host without a name.                      *)
Nameless(s) == \A i \in DOMAIN s : s[i].key # "Name"
Unnamed(r) == r.name = ""

-----------------------------------------------------------------------------
(***************************************************************************)
(* Lists of lines, and what the parser makes of them.                      *)
(***************************************************************************)
(* A set of numbers that is not empty has a least element.                 *)
LEMMA Least ==
  ASSUME NEW T \in SUBSET Nat, T # {} PROVE \E x \in T : \A y \in T : x <= y
<1>1. IsWellFoundedOn(OpToRel(<, Nat), Nat)
  BY NatLessThanWellFounded, Zenon
<1>2. PICK x \in T : \A y \in T : ~(<<y, x>> \in OpToRel(<, Nat))
  BY <1>1, WFMin, Zenon
<1>3. \A y \in T : ~(y < x)
  BY <1>2, Zenon DEF OpToRel
<1> QED BY <1>3

(* What holds of 0 and is handed on holds up to n.                         *)
LEMMA UpTo ==
  ASSUME NEW n \in Nat, NEW G, 0 \in G, \A i \in 1..n : i - 1 \in G => i \in G
  PROVE  0..n \subseteq G
<1> DEFINE T == {i \in 0..n : i \notin G}
<1>1. T = {}
  <2> SUFFICES ASSUME T # {} PROVE FALSE
    OBVIOUS
  <2>1. PICK x \in T : \A y \in T : x <= y
    <3>1. T \in SUBSET Nat
      OBVIOUS
    <3> HIDE DEF T
    <3> QED BY <3>1, Least
  <2>2. x \in 1..n
    BY <2>1
  <2>3. x - 1 \in 0..n /\ x - 1 \notin T
    BY <2>1, <2>2
  <2> QED BY <2>1, <2>2, <2>3
<1> QED BY <1>1

(* A list is indexed from one to its length.                               *)
LEMMA Indexed ==
  ASSUME NEW S, NEW s \in Seq(S) PROVE DOMAIN s = 1..Len(s) /\ Len(s) \in Nat
  OBVIOUS

(* A list of elements of S stays one when another is appended.             *)
LEMMA Appends == \A S, s, e : s \in Seq(S) /\ e \in S => Append(s, e) \in Seq(S)
  OBVIOUS

(* The empty list is a list of elements of any set.                        *)
LEMMA Empty == \A S : <<>> \in Seq(S)
  OBVIOUS

(* What is where in a list that was appended to.                           *)
LEMMA Appended ==
  ASSUME NEW S, NEW s \in Seq(S), NEW e \in S
  PROVE  /\ DOMAIN Append(s, e) = 1..(Len(s) + 1) /\ DOMAIN s = 1..Len(s) /\ Len(s) \in Nat
         /\ Append(s, e)[Len(s) + 1] = e /\ \A i \in 1..Len(s) : Append(s, e)[i] = s[i]
  OBVIOUS

(* Induction over a list: a set that has the empty list, and with a list   *)
(* every list that is longer by one, has them all.                         *)
LEMMA SeqInduct ==
  ASSUME NEW S, NEW G, <<>> \in G,
         \A s \in Seq(S) : s \in G => \A e \in S : Append(s, e) \in G
  PROVE  Seq(S) \subseteq G
<1> DEFINE T == {i \in Nat : \A s \in Seq(S) : Len(s) = i => s \in G}
<1>1. 0 \in T
  OBVIOUS
<1>2. ASSUME NEW i \in Nat, i > 0, i - 1 \in T PROVE i \in T
  <2> SUFFICES ASSUME NEW s \in Seq(S), Len(s) = i PROVE s \in G
    OBVIOUS
  <2> DEFINE r == SubSeq(s, 1, i - 1)
  <2>1. r \in Seq(S) /\ Len(r) = i - 1 /\ s[i] \in S
    BY <1>2
  <2>2. s = Append(r, s[i])
    BY <1>2, <2>1
  <2>3. r \in G
    BY <1>2, <2>1, Zenon
  <2> QED BY <2>1, <2>2, <2>3, Zenon
<1>3. ASSUME NEW s \in Seq(S) PROVE s \in G
  <2>1. 0..Len(s) \subseteq T
    <3>1. Len(s) \in Nat /\ \A i \in 1..Len(s) : i - 1 \in T => i \in T
      BY <1>2
    <3> HIDE DEF T
    <3> QED BY <1>1, <3>1, UpTo, Zenon
  <2> QED BY <2>1
<1> QED BY <1>3

(* The function f that goes from a by the steps g, and the one that picks  *)
(* elements, as far as each place.                                         *)
Builds(f, a, n, g) == f[0] = a /\ \A i \in 1..n : f[i] = g[i][f[i - 1]]
Picks(f, s, I) ==
  /\ f[0] = <<>>
  /\ \A i \in 1..Len(s) : f[i] = IF i \in I THEN Append(f[i - 1], s[i]) ELSE f[i - 1]

(* A function can be defined step by step.                                 *)
LEMMA Steps ==
  ASSUME NEW V, NEW a \in V, NEW n \in Nat, NEW g \in [1..n -> [V -> V]]
  PROVE  \E f \in [0..n -> V] : Builds(f, a, n, g)
<1> DEFINE Good(m, f) == Builds(f, a, m, g)
           T == {m \in 0..n : \E f \in [0..m -> V] : Good(m, f)}
<1>1. 0 \in T
  <2>1. [i \in 0..0 |-> a] \in [0..0 -> V] /\ Good(0, [i \in 0..0 |-> a])
    BY DEF Builds
  <2> HIDE DEF Good
  <2>2. 0 \in 0..n /\ \E f \in [0..0 -> V] : Good(0, f)
    BY <2>1
  <2> QED BY <2>2
<1>2. ASSUME NEW m \in 1..n, m - 1 \in T PROVE m \in T
  <2>1. PICK f \in [0..(m - 1) -> V] : Good(m - 1, f)
    BY <1>2
  <2> DEFINE h == [i \in 0..m |-> IF i = m THEN g[m][f[m - 1]] ELSE f[i]]
  <2>2. h \in [0..m -> V]
    OBVIOUS
  <2>3. Good(m, h)
    BY <2>1 DEF Builds
  <2> HIDE DEF Good, h
  <2>4. m \in 0..n /\ \E k \in [0..m -> V] : Good(m, k)
    BY <2>2, <2>3
  <2> QED BY <2>4
<1>3. n \in T
  <2> HIDE DEF T
  <2>1. \A m \in 1..n : m - 1 \in T => m \in T
    BY <1>2
  <2>2. 0..n \subseteq T
    BY <1>1, <2>1, UpTo, Zenon
  <2> QED BY <2>2
<1> QED BY <1>3

(* The elements at the places I are picked one after the other.            *)
LEMMA PickRec ==
  ASSUME NEW S, NEW s \in Seq(S), NEW I
  PROVE  \E f \in [0..Len(s) -> Seq(S)] :
           Picks(f, s, I) /\ Pick(s, I) = f[Len(s)]
<1> DEFINE n == Len(s)
           V == Seq(S)
           Step(v, i) == IF i \in I THEN Append(v, s[i]) ELSE v
           D(f) == [i \in 0..n |-> IF i = 0 THEN <<>> ELSE Step(f[i - 1], i)]
           F == CHOOSE f : f = D(f)
           g == [i \in 1..n |-> [v \in V |-> Step(v, i)]]
<1>0. Pick(s, I) = F[n]
  BY DEF Pick
<1>1. n \in Nat /\ <<>> \in V /\ \A v \in V, i \in 1..n : Step(v, i) \in V
  OBVIOUS
<1> HIDE DEF n, V, Step
<1>2. g \in [1..n -> [V -> V]]
  BY <1>1
<1>3. PICK f \in [0..n -> V] : Builds(f, <<>>, n, g)
  <2> HIDE DEF g
  <2> QED BY <1>1, <1>2, Steps
<1>4. \A i \in 1..n : f[i - 1] \in V /\ f[i] = Step(f[i - 1], i)
  <2>1. \A i \in 1..n : f[i - 1] \in V /\ f[i] = g[i][f[i - 1]]
    BY <1>1, <1>3 DEF Builds
  <2>2. \A i \in 1..n, v \in V : g[i][v] = Step(v, i)
    OBVIOUS
  <2> HIDE DEF g
  <2> QED BY <2>1, <2>2
<1>5. f = D(f)
  <2>1. \A i \in 0..n : f[i] = IF i = 0 THEN <<>> ELSE Step(f[i - 1], i)
    BY <1>1, <1>3, <1>4 DEF Builds
  <2> QED BY <2>1
<1>6. F = D(F)
  <2> HIDE DEF D
  <2> QED BY <1>5
<1> HIDE DEF F
<1>7. F[0] = <<>> /\ \A i \in 1..n : F[i] = Step(F[i - 1], i)
  BY <1>1, <1>6
<1>8. F \in [0..n -> V]
  <2> DEFINE T == {i \in 0..n : F[i] \in V}
  <2>1. 0 \in T /\ \A i \in 1..n : i - 1 \in T => i \in T
    BY <1>1, <1>7
  <2>2. 0..n \subseteq T
    <3> HIDE DEF T
    <3> QED BY <1>1, <2>1, UpTo, Zenon
  <2>3. \A i \in 0..n : F[i] \in V
    BY <2>2
  <2> QED BY <1>6, <2>3
<1> QED BY <1>0, <1>7, <1>8 DEF n, V, Step, Picks

(* What is picked of a list that was appended to.                          *)
LEMMA PickAppend ==
  ASSUME NEW S, NEW s \in Seq(S), NEW e \in S, NEW I, NEW J,
         \A i \in 1..Len(s) : i \in I <=> i \in J
  PROVE  Pick(Append(s, e), I) = IF Len(s) + 1 \in I THEN Append(Pick(s, J), e) ELSE Pick(s, J)
<1> DEFINE n == Len(s)
           t == Append(s, e)
<1>0. n \in Nat /\ t \in Seq(S) /\ Len(t) = n + 1 /\ t[n + 1] = e /\ \A i \in 1..n : t[i] = s[i]
  OBVIOUS
<1>1. PICK f \in [0..n -> Seq(S)] :
        Picks(f, s, J) /\ Pick(s, J) = f[n]
  BY PickRec
<1>2. PICK g \in [0..Len(t) -> Seq(S)] :
        Picks(g, t, I) /\ Pick(t, I) = g[Len(t)]
  <2> HIDE DEF t
  <2> QED BY <1>0, PickRec, ZenonT(20)
<1> DEFINE T == {i \in 0..n : f[i] = g[i]}
<1>3. 0 \in T
  BY <1>0, <1>1, <1>2 DEF Picks
<1>4. \A i \in 1..n : i - 1 \in T => i \in T
  <2> SUFFICES ASSUME NEW i \in 1..n, f[i - 1] = g[i - 1] PROVE f[i] = g[i]
    OBVIOUS
  <2>1. f[i] = IF i \in J THEN Append(f[i - 1], s[i]) ELSE f[i - 1]
    BY <1>1 DEF Picks
  <2>2. g[i] = IF i \in I THEN Append(g[i - 1], t[i]) ELSE g[i - 1]
    <3> HIDE DEF t
    <3> QED BY <1>0, <1>2 DEF Picks
  <2>3. t[i] = s[i]
    BY <1>0
  <2> HIDE DEF t
  <2> QED BY <2>1, <2>2, <2>3
<1>5. n \in T
  <2>1. 0..n \subseteq T
    <3> HIDE DEF T, n
    <3> QED BY <1>0, <1>3, <1>4, UpTo, Zenon
  <2> QED BY <1>0, <2>1
<1> HIDE DEF t
<1>6. Pick(t, I) = IF n + 1 \in I THEN Append(Pick(s, J), e) ELSE Pick(s, J)
  BY <1>0, <1>1, <1>2, <1>5 DEF Picks
<1> QED BY <1>6 DEF t

(* Nothing is picked of the empty list.                                    *)
LEMMA PickNone == ASSUME NEW I PROVE Pick(<<>>, I) = <<>>
<1>1. <<>> \in Seq({}) /\ Len(<<>>) = 0
  OBVIOUS
<1>2. PICK f \in [0..Len(<<>>) -> Seq({})] : Picks(f, <<>>, I) /\ Pick(<<>>, I) = f[Len(<<>>)]
  BY <1>1, PickRec, ZenonT(20)
<1> QED BY <1>1, <1>2 DEF Picks

(* What is picked is a list of the same kind.                              *)
LEMMA PickType == ASSUME NEW S, NEW s \in Seq(S), NEW I PROVE Pick(s, I) \in Seq(S)
<1>1. PICK f \in [0..Len(s) -> Seq(S)] : Pick(s, I) = f[Len(s)]
  BY PickRec
<1> QED BY <1>1

(* The elements of a list that was appended to.                            *)
LEMMA RangeAppend ==
  ASSUME NEW S, NEW s \in Seq(S), NEW e \in S PROVE Range(Append(s, e)) = Range(s) \cup {e}
<1> DEFINE r == Append(s, e)
<1>1. /\ DOMAIN r = 1..(Len(s) + 1) /\ DOMAIN s = 1..Len(s) /\ Len(s) \in Nat
      /\ r[Len(s) + 1] = e /\ \A i \in 1..Len(s) : r[i] = s[i]
  OBVIOUS
<1> HIDE DEF r
<1>2. \A x : x \in Range(r) <=> \E i \in 1..(Len(s) + 1) : x = r[i]
  BY <1>1 DEF Range
<1>3. \A x : x \in Range(s) <=> \E i \in 1..Len(s) : x = s[i]
  BY <1>1 DEF Range
<1>4. \A x : x \in Range(r) <=> x \in Range(s) \/ x = e
  BY <1>1, <1>2, <1>3
<1> QED BY <1>4 DEF r

(* What is picked comes from one of the places.                            *)
LEMMA PickFrom ==
  ASSUME NEW S, NEW s \in Seq(S), NEW I
  PROVE  \A x \in Range(Pick(s, I)) : \E i \in DOMAIN s : i \in I /\ x = s[i]
<1> DEFINE From(t) == \A x \in Range(Pick(t, I)) : \E i \in DOMAIN t : i \in I /\ x = t[i]
           G == {t \in Seq(S) : From(t)}
<1>1. <<>> \in G
  BY PickNone DEF Range
<1>2. ASSUME NEW t \in Seq(S), t \in G, NEW e \in S PROVE Append(t, e) \in G
  <2> DEFINE r == Append(t, e)
             p == Pick(t, I)
  <2>1. Pick(r, I) = IF Len(t) + 1 \in I THEN Append(p, e) ELSE p
    BY PickAppend
  <2>2. p \in Seq(S)
    BY PickType
  <2>3. DOMAIN r = 1..(Len(t) + 1) /\ r[Len(t) + 1] = e /\ \A i \in DOMAIN t : i \in DOMAIN r /\ r[i] = t[i]
    OBVIOUS
  <2>4. Range(Append(p, e)) = Range(p) \cup {e}
    BY <2>2, RangeAppend
  <2>5. r \in Seq(S)
    OBVIOUS
  <2> HIDE DEF r, p
  <2>6. From(r)
    BY <1>2, <2>1, <2>3, <2>4 DEF p
  <2> QED BY <2>5, <2>6, Zenon DEF r
<1>3. Seq(S) \subseteq G
  <2> HIDE DEF G
  <2> QED BY <1>1, <1>2, SeqInduct
<1> QED BY <1>3

(* Who picks every place has the whole list.                               *)
LEMMA PickAll ==
  ASSUME NEW S, NEW s \in Seq(S), NEW I, 1..Len(s) \subseteq I PROVE Pick(s, I) = s
<1> DEFINE G == {t \in Seq(S) : 1..Len(t) \subseteq I => Pick(t, I) = t}
<1>1. <<>> \in G
  BY PickNone
<1>2. ASSUME NEW t \in Seq(S), t \in G, NEW e \in S PROVE Append(t, e) \in G
  <2>1. Pick(Append(t, e), I) = IF Len(t) + 1 \in I THEN Append(Pick(t, I), e) ELSE Pick(t, I)
    BY PickAppend
  <2> QED BY <1>2, <2>1
<1>3. Seq(S) \subseteq G
  <2> HIDE DEF G
  <2> QED BY <1>1, <1>2, SeqInduct
<1> QED BY <1>3

(* The values of a key in a list of entries that was appended to.          *)
LEMMA GetAllNone == ASSUME NEW k PROVE GetAll(<<>>, k) = <<>>
  BY PickNone DEF GetAll, Filter

(* The values of a key when an entry is appended.                          *)
LEMMA GetAllAppend ==
  ASSUME NEW s \in Seq(Line), NEW e \in Line, NEW k
  PROVE  GetAll(Append(s, e), k) = IF e.key = k THEN Append(GetAll(s, k), e.value)
                                   ELSE GetAll(s, k)
<1> DEFINE r == Append(s, e)
           I == {i \in DOMAIN r : r[i].key = k}
           J == {i \in DOMAIN s : s[i].key = k}
           p == Pick(s, J)
           q == Pick(r, I)
<1>1. /\ DOMAIN r = 1..(Len(s) + 1) /\ DOMAIN s = 1..Len(s) /\ Len(s) \in Nat
      /\ r[Len(s) + 1] = e /\ \A i \in 1..Len(s) : r[i] = s[i]
  OBVIOUS
<1>2. (\A i \in 1..Len(s) : i \in I <=> i \in J) /\ (Len(s) + 1 \in I <=> e.key = k)
  <2> HIDE DEF r
  <2> QED BY <1>1
<1>3. q = IF e.key = k THEN Append(p, e) ELSE p
  <2> HIDE DEF I, J
  <2> QED BY <1>2, PickAppend
<1>4. p \in Seq(Line)
  BY PickType
<1>5. /\ GetAll(s, k) = [i \in DOMAIN p |-> p[i].value]
      /\ GetAll(r, k) = [i \in DOMAIN q |-> q[i].value]
  BY DEF GetAll, Filter
<1> HIDE DEF p, q, r
<1>6. [i \in DOMAIN Append(p, e) |-> Append(p, e)[i].value]
        = Append([i \in DOMAIN p |-> p[i].value], e.value)
  BY <1>4
<1> QED BY <1>3, <1>5, <1>6, Zenon DEF r

(* Trimming twice does no more than trimming once.                         *)
LEMMA TrimFacts ==
  /\ \A v \in Proc \cup STRING : Trim(v) \in (Proc \cup STRING) \ DOMAIN Padded
  /\ \A v : v \notin DOMAIN Padded => Trim(v) = v
  /\ Trim("") = ""
  BY ConfigAssumption, Zenon DEF Trim

(* A line has a key and a value.                                           *)
LEMMA Fielded ==
  /\ \A l \in Line : l.key \in STRING /\ l.value \in Proc \cup STRING /\ Entry(l.key, l.value) = l
  /\ \A k \in STRING, v \in Proc \cup STRING : Entry(k, v) \in Line
  BY DEF Line, Entry

(* The key and the value of an entry.                                      *)
LEMMA EntryFields == \A x, k, v : x = Entry(k, v) => x.key = k /\ x.value = v
  BY DEF Entry

(* The parser returns entries with a key and a trimmed value.              *)
LEMMA ParseIsParsed ==
  ASSUME NEW t \in Seq(Line), Parse(t) # Bad PROVE Parsed(Parse(t))
<1> DEFINE E == Pick(t, {i \in DOMAIN t : t[i] # Comment})
<1>1. E \in Seq(Line)
  BY PickType
<1>2. /\ ~\E i \in DOMAIN E : "" \in {E[i].key, Trim(E[i].value)}
      /\ Parse(t) = [i \in DOMAIN E |-> Entry(E[i].key, Trim(E[i].value))]
  BY Zenon DEF Parse, ParseEntries, Filter
<1> HIDE DEF E
<1>3. ASSUME NEW i \in DOMAIN E
      PROVE  /\ Parse(t)[i] \in Line /\ Parse(t)[i].key # ""
             /\ Parse(t)[i].value \notin {""} \cup DOMAIN Padded
  <2>1. E[i] \in Line
    BY <1>1
  <2>2. Trim(E[i].value) \in (Proc \cup STRING) \ DOMAIN Padded /\ E[i].key \in STRING
    BY <2>1, Fielded, TrimFacts, Zenon
  <2>3. Parse(t)[i] = Entry(E[i].key, Trim(E[i].value))
    BY <1>2, Zenon
  <2>4. E[i].key # "" /\ Trim(E[i].value) # ""
    BY <1>2, Zenon
  <2>5. Entry(E[i].key, Trim(E[i].value)) \in Line
    BY <2>2, Fielded, Zenon
  <2>6. Parse(t)[i].key = E[i].key /\ Parse(t)[i].value = Trim(E[i].value)
    BY <2>3, EntryFields, ZenonT(20)
  <2> QED BY <2>2, <2>3, <2>4, <2>5, <2>6, Zenon
<1>4. DOMAIN Parse(t) = DOMAIN E /\ DOMAIN E = 1..Len(E) /\ Len(E) \in Nat
  <2>1. DOMAIN E = 1..Len(E) /\ Len(E) \in Nat
    BY <1>1
  <2> QED BY <1>2, <2>1, Zenon
<1>5. Parse(t) \in Seq(Line)
  <2>1. Parse(t) = [i \in 1..Len(E) |-> Parse(t)[i]] /\ \A i \in 1..Len(E) : Parse(t)[i] \in Line
    BY <1>2, <1>3, <1>4, Zenon
  <2> QED BY <1>4, <2>1
<1> QED BY <1>3, <1>4, <1>5, Zenon DEF Parsed

(* Entries are written as they are, and read back with their values        *)
(* trimmed.                                                                *)
LEMMA RenderSame == ASSUME NEW s \in Seq(Line) PROVE Render(s) = s
<1>1. \A i \in DOMAIN s : Entry(s[i].key, s[i].value) = s[i]
  BY Fielded
<1> QED BY <1>1 DEF Render

(* A text without comments or empty values is parsed line by line.         *)
LEMMA ParseWritten ==
  ASSUME NEW s \in Seq(Line), Readable(s)
  PROVE  Parse(s) = [i \in DOMAIN s |-> Entry(s[i].key, Trim(s[i].value))]
<1> DEFINE I == {i \in DOMAIN s : s[i] # Comment}
<1>1. 1..Len(s) \subseteq I
  <2>1. Trim("") = ""
    BY TrimFacts, Zenon
  <2>2. Comment.value = ""
    BY DEF Comment, Entry
  <2> QED BY <2>1, <2>2, Indexed, Zenon DEF Readable, Usable
<1>2. Pick(s, I) = s
  <2> HIDE DEF I
  <2> QED BY <1>1, PickAll
<1> QED BY <1>2, Zenon DEF Parse, ParseEntries, Filter, Readable, Usable

(* What is left of the values of a key.                                    *)
LEMMA GetAllType ==
  ASSUME NEW s \in Seq(Line), NEW k PROVE GetAll(s, k) \in Seq(Proc \cup STRING)
<1> DEFINE p == Pick(s, {i \in DOMAIN s : s[i].key = k})
<1>1. p \in Seq(Line) /\ GetAll(s, k) = [i \in DOMAIN p |-> p[i].value]
  BY PickType, Zenon DEF GetAll, Filter
<1> HIDE DEF p
<1>2. \A i \in DOMAIN p : p[i] \in Line
  BY <1>1
<1>3. \A i \in DOMAIN p : p[i].value \in Proc \cup STRING
  BY <1>2, Fielded, Zenon
<1>4. DOMAIN p = 1..Len(p) /\ Len(p) \in Nat
  BY <1>1, Indexed, Zenon
<1> QED BY <1>1, <1>3, <1>4

(* Reading what was read and written again, with or without a line more.   *)
LEMMA ParsedLine ==
  ASSUME NEW s, Parsed(s), NEW i \in DOMAIN s
  PROVE  /\ Usable(s[i].key, s[i].value)
         /\ Entry(s[i].key, Trim(s[i].value)) = s[i]
<1>0. s \in Seq(Line)
  BY Zenon DEF Parsed
<1>1. s[i] \in Line
  BY <1>0
<1>2. Trim(s[i].value) = s[i].value
  BY TrimFacts, Zenon DEF Parsed
<1> QED BY <1>1, <1>2, Fielded, Zenon DEF Parsed, Usable

(* Entries that the parser returned are parsed as they are.                *)
LEMMA ParseAgain == ASSUME NEW s, Parsed(s) PROVE Parse(s) = s
<1>1. s \in Seq(Line)
  BY Zenon DEF Parsed
<1>2. Readable(s)
  BY ParsedLine, Zenon DEF Readable
<1>3. Parse(s) = [i \in DOMAIN s |-> Entry(s[i].key, Trim(s[i].value))]
  BY <1>1, <1>2, ParseWritten, Zenon
<1>4. \A i \in DOMAIN s : Entry(s[i].key, Trim(s[i].value)) = s[i]
  BY ParsedLine, Zenon
<1>5. s = [i \in DOMAIN s |-> s[i]]
  BY <1>1
<1> QED BY <1>3, <1>4, <1>5, Zenon

(* And with a line behind them that has a key and a value.                 *)
LEMMA ParseMore ==
  ASSUME NEW s, Parsed(s), NEW e \in Line, Usable(e.key, e.value)
  PROVE  Parse(Append(s, e)) = Append(s, Entry(e.key, Trim(e.value)))
<1> DEFINE r == Append(s, e)
           x == Entry(e.key, Trim(e.value))
           y == Append(s, x)
<1>0. s \in Seq(Line)
  BY Zenon DEF Parsed
<1>1. /\ DOMAIN r = 1..(Len(s) + 1) /\ DOMAIN s = 1..Len(s) /\ Len(s) \in Nat
      /\ r[Len(s) + 1] = e /\ \A i \in 1..Len(s) : r[i] = s[i]
  BY <1>0
<1>2. r \in Seq(Line)
  BY <1>0
<1>3. x \in Line
  BY Fielded, TrimFacts, Zenon
<1>4. /\ y \in Seq(Line) /\ DOMAIN y = 1..(Len(s) + 1)
      /\ y[Len(s) + 1] = x /\ \A i \in 1..Len(s) : y[i] = s[i]
  <2> HIDE DEF x
  <2> QED BY <1>0, <1>3
<1> HIDE DEF r, y
<1>5. \A i \in 1..(Len(s) + 1) : i = Len(s) + 1 \/ i \in 1..Len(s)
  BY <1>1
<1>6. Readable(r)
  BY <1>1, <1>5, ParsedLine, Zenon DEF Readable
<1>7. Parse(r) = [i \in DOMAIN r |-> Entry(r[i].key, Trim(r[i].value))]
  BY <1>2, <1>6, ParseWritten, Zenon
<1>8. \A i \in DOMAIN r : Entry(r[i].key, Trim(r[i].value)) = y[i]
  <2>1. ASSUME NEW i \in 1..Len(s) PROVE Entry(r[i].key, Trim(r[i].value)) = y[i]
    BY <1>1, <1>4, ParsedLine, ZenonT(40)
  <2>2. Entry(r[Len(s) + 1].key, Trim(r[Len(s) + 1].value)) = y[Len(s) + 1]
    BY <1>1, <1>4, Zenon
  <2> QED BY <1>1, <1>5, <2>1, <2>2, Zenon
<1>9. y = [i \in DOMAIN y |-> y[i]] /\ DOMAIN r = DOMAIN y
  BY <1>1, <1>4
<1>10. Parse(r) = y
  BY <1>7, <1>8, <1>9, Zenon
<1> QED BY <1>10 DEF r, y

(* Entries of two files, one after the other.                              *)
LEMMA ParsedBoth ==
  ASSUME NEW a, NEW b, Parsed(a), Parsed(b)
  PROVE  Parsed(a \o b)
<1>1. a \in Seq(Line) /\ b \in Seq(Line)
  BY Zenon DEF Parsed
<1>2. /\ a \o b \in Seq(Line)
      /\ \A i \in DOMAIN (a \o b) : \/ i \in DOMAIN a /\ (a \o b)[i] = a[i]
                                    \/ i - Len(a) \in DOMAIN b /\ (a \o b)[i] = b[i - Len(a)]
  BY <1>1
<1>. QED  BY <1>2, Zenon DEF Parsed

(* What load reads of the configuration, the parser has accepted.          *)
LEMMA LoadParsed ==
  ASSUME NEW text, text = NoFile \/ text \in Seq(Line), LoadDirectory(text) # Bad
  PROVE  Parsed(LoadDirectory(text))
<1>. DEFINE a == IF text = NoFile THEN <<>> ELSE Parse(text)
            b == Parse(Fragment)
<1>1. LoadDirectory(text) = IF Bad \in {a, b} THEN Bad ELSE a \o b
  <2>. HIDE DEF a, b
  <2>1. <<a, b>>[1] = a /\ <<a, b>>[2] = b
    OBVIOUS
  <2>2. LoadDirectory(text)
          = IF Bad \in {<<a, b>>[1], <<a, b>>[2]} THEN Bad ELSE <<a, b>>[1] \o <<a, b>>[2]
    BY Zenon DEF LoadDirectory, a, b
  <2>. QED  BY <2>1, <2>2, Zenon
<1>2. a # Bad /\ b # Bad
  <2>. HIDE DEF a, b
  <2>. QED  BY <1>1, Zenon
<1>3. Parsed(<<>>)
  <2>1. <<>> \in Seq(Line) /\ DOMAIN <<>> = {}
    BY Empty
  <2>. QED  BY <2>1, Zenon DEF Parsed
<1>4. Parsed(a)
  BY <1>2, <1>3, ParseIsParsed, Zenon
<1>5. Parsed(b)
  BY <1>2, ParseIsParsed, ConfigAssumption, Zenon
<1>. HIDE DEF a, b
<1>. QED  BY <1>1, <1>2, <1>4, <1>5, ParsedBoth, Zenon

-----------------------------------------------------------------------------
(***************************************************************************)
(* What the commands write.                                                *)
(***************************************************************************)
(* The first of a list of files, and the others.                           *)
LEMMA Lists ==
  ASSUME NEW a, NEW b, NEW c, NEW d
  PROVE  /\ Head(<<a>>) = a /\ Tail(<<a>>) = <<>>
         /\ Head(<<a, b>>) = a /\ Tail(<<a, b>>) = <<b>>
         /\ Head(<<a, b, c>>) = a /\ Tail(<<a, b, c>>) = <<b, c>>
         /\ Head(<<a, b, c, d>>) = a /\ Tail(<<a, b, c, d>>) = <<b, c, d>>
<1>1. Tail(<<a>>) = <<>>
  OBVIOUS
<1>2. Tail(<<a, b>>) = <<b>>
  OBVIOUS
<1>3. Tail(<<a, b, c>>) = <<b, c>>
  OBVIOUS
<1>4. Tail(<<a, b, c, d>>) = <<b, c, d>>
  OBVIOUS
<1>. QED  BY <1>1, <1>2, <1>3, <1>4

(* A write is of the file and the text it was made with.                   *)
LEMMA Fields == \A f, text : Write(f, text).path = f /\ Write(f, text).text = text
BY DEF Write

(* The host file of init reads as it was meant.                            *)
LEMMA RenderKeys == ASSUME NEW p PROVE Render(PublicKeys(p)) = PublicKeys(p)
BY DEF Render, PublicKeys, Entry

(* What an edit leaves of the entries.                                     *)
Stays(e, c) == ~(e.key = c.key /\ (c.op = "set" \/ c.value \in {"", e.value}))
Kept(es, c) == IF c.op = "add" THEN es ELSE Pick(es, {i \in DOMAIN es : Stays(es[i], c)})

(* What an edit keeps, when a line is appended.                            *)
LEMMA KeptType == ASSUME NEW s \in Seq(Line), NEW c PROVE Kept(s, c) \in Seq(Line)
  BY PickType DEF Kept

(* An edit writes lines.                                                   *)
LEMMA EditedLines ==
  ASSUME NEW es \in Seq(Line), NEW c, Entry(c.key, c.value) \in Line
  PROVE  Render(Edited(es, c)) \in Seq(Line)
<1>. DEFINE kept == Kept(es, c)
            e == Entry(c.key, c.value)
<1>1. kept \in Seq(Line) /\ e \in Line
  BY KeptType
<1>2. Edited(es, c) = IF c.op = "del" THEN kept ELSE Append(kept, e)
  BY Zenon DEF Edited, Kept, Stays, Filter
<1>. HIDE DEF kept, e
<1>3. Append(kept, e) \in Seq(Line)
  BY <1>1
<1>4. Edited(es, c) \in Seq(Line)
  BY <1>1, <1>2, <1>3, Zenon
<1>. QED  BY <1>4, RenderSame, Zenon

(* Lines that name nodes only.                                             *)
Named(s) == \A i \in DOMAIN s : s[i].key = "Name" => Trim(s[i].value) \in Node

(* The states of the loop of "gsnet import".                               *)
AnyWrite == [path : Proc \cup STRING, text : Seq(Line)]
Reading == [name : Proc \cup STRING, lines : Seq(Line), out : Seq(AnyWrite)]
Fresh == [name |-> "", lines |-> <<>>, out |-> <<>>]
Follow(f, s) == f[0] = Fresh /\ \A i \in 1..Len(s) : f[i] = ImportLine(f[i - 1], s[i])

(* A turn of the loop keeps the types.                                     *)
LEMMA ImportTypes ==
  ASSUME NEW s \in Reading, NEW l \in Line PROVE ImportLine(s, l) \in Reading
<1>1. l.value \in Proc \cup STRING
  BY Fielded, Zenon
<1>2. Trim(l.value) \in Proc \cup STRING
  BY <1>1, TrimFacts, Zenon
<1>3. Append(s.lines, l) \in Seq(Line)
  BY DEF Reading
<1>4. Append(s.out, Write(s.name, s.lines)) \in Seq(AnyWrite)
  BY DEF Reading, AnyWrite, Write
<1> DEFINE n == Trim(l.value)
           k == l.key
<1> HIDE DEF n, k
<1>5. CASE k # "Name"
  BY <1>3, <1>5, Zenon DEF Reading, ImportLine, k
<1>6. CASE k = "Name" /\ s.name = ""
  BY <1>2, <1>6, Zenon DEF Reading, ImportLine, k, n
<1>7. CASE k = "Name" /\ s.name # ""
  <2> DEFINE o == Append(s.out, Write(s.name, s.lines))
  <2>1. ImportLine(s, l) = [name |-> n, lines |-> <<>>, out |-> o]
    BY <1>7, Zenon DEF ImportLine, k, n
  <2> HIDE DEF o
  <2>2. n \in Proc \cup STRING /\ o \in Seq(AnyWrite)
    BY <1>2, <1>4 DEF n, o
  <2>3. [name |-> n, lines |-> <<>>, out |-> o] \in Reading
    BY <2>2 DEF Reading
  <2> QED BY <2>1, <2>3
<1> QED BY <1>5, <1>6, <1>7, Zenon

(* A turn of the loop, by the line it looks at.                            *)
LEMMA ImportTurn ==
  ASSUME NEW s \in Reading, NEW l \in Line
  PROVE  LET r == ImportLine(s, l)
         IN  /\ l.key # "Name" => /\ r.name = s.name /\ r.out = s.out
                                  /\ r.lines = Append(s.lines, l)
             /\ l.key = "Name" => r.name = Trim(l.value)
             /\ l.key = "Name" /\ s.name = "" => r.lines = s.lines /\ r.out = s.out
             /\ l.key = "Name" /\ s.name # "" =>
                  r.lines = <<>> /\ r.out = Append(s.out, Write(s.name, s.lines))
<1> DEFINE n == Trim(l.value)
           k == l.key
           o == Append(s.out, Write(s.name, s.lines))
           a == Append(s.lines, l)
<1>1. ImportLine(s, l) = IF k # "Name" THEN [s EXCEPT !.lines = a]
                         ELSE IF s.name = "" THEN [s EXCEPT !.name = n]
                         ELSE [name |-> n, lines |-> <<>>, out |-> o]
  BY Zenon DEF ImportLine
<1> HIDE DEF n, k, o, a
<1>2. LET r == ImportLine(s, l)
      IN  /\ k # "Name" => /\ r.name = s.name /\ r.out = s.out
                           /\ r.lines = a
          /\ k = "Name" => r.name = n
          /\ k = "Name" /\ s.name = "" => r.lines = s.lines /\ r.out = s.out
          /\ k = "Name" /\ s.name # "" => r.lines = <<>> /\ r.out = o
  <2>1. CASE k # "Name"
    <3>1. ImportLine(s, l) = [s EXCEPT !.lines = a]
      BY <1>1, <2>1, Zenon
    <3>2. LET r == [s EXCEPT !.lines = a] IN r.name = s.name /\ r.out = s.out /\ r.lines = a
      BY DEF Reading
    <3> QED BY <2>1, <3>1, <3>2, Zenon
  <2>2. CASE k = "Name" /\ s.name = ""
    <3>1. ImportLine(s, l) = [s EXCEPT !.name = n]
      BY <1>1, <2>2, Zenon
    <3>2. LET r == [s EXCEPT !.name = n] IN r.name = n /\ r.out = s.out /\ r.lines = s.lines
      BY DEF Reading
    <3> QED BY <2>2, <3>1, <3>2, Zenon
  <2>3. CASE k = "Name" /\ s.name # ""
    <3>1. ImportLine(s, l) = [name |-> n, lines |-> <<>>, out |-> o]
      BY <1>1, <2>3, Zenon
    <3>2. LET r == [name |-> n, lines |-> <<>>, out |-> o]
          IN  r.name = n /\ r.out = o /\ r.lines = <<>>
      OBVIOUS
    <3> QED BY <2>3, <3>1, <3>2, Zenon
  <2> QED BY <2>1, <2>2, <2>3, Zenon
<1> QED BY <1>2, Zenon DEF n, k, o, a

(* The state in which the loop begins.                                     *)
LEMMA FreshType == Fresh \in Reading
<1> DEFINE n == ""
           no == <<>>
<1>1. n \in STRING
  BY Literals, Zenon
<1>2. no \in Seq(Line) /\ no \in Seq(AnyWrite)
  OBVIOUS
<1> HIDE DEF n, no
<1>3. [name |-> n, lines |-> no, out |-> no] \in Reading
  BY <1>1, <1>2 DEF Reading
<1> QED BY <1>3, Zenon DEF n, no, Fresh

(* The loop goes from line to line.                                        *)
LEMMA ImportRec ==
  ASSUME NEW s \in Seq(Line)
  PROVE  \E f \in [0..Len(s) -> Reading] :
           Follow(f, s) /\ ImportLoop(s) = f[Len(s)]
<1> DEFINE n == Len(s)
           D(f) == [i \in 0..n |-> IF i = 0 THEN Fresh ELSE ImportLine(f[i - 1], s[i])]
           F == CHOOSE f : f = D(f)
           g == [i \in 1..n |-> [v \in Reading |-> ImportLine(v, s[i])]]
<1>0. ImportLoop(s) = F[n]
  BY DEF ImportLoop, Fresh
<1>1. n \in Nat /\ \A i \in 1..n : s[i] \in Line
  OBVIOUS
<1>2. \A v \in Reading, i \in 1..n : ImportLine(v, s[i]) \in Reading
  BY <1>1, ImportTypes, Zenon
<1> HIDE DEF n
<1>3. g \in [1..n -> [Reading -> Reading]]
  BY <1>1, <1>2
<1>4. PICK f \in [0..n -> Reading] : Builds(f, Fresh, n, g)
  <2> HIDE DEF g
  <2> QED BY <1>1, <1>3, FreshType, Steps, Zenon
<1>5. \A i \in 1..n : f[i - 1] \in Reading /\ f[i] = ImportLine(f[i - 1], s[i])
  <2>1. \A i \in 1..n : f[i - 1] \in Reading /\ f[i] = g[i][f[i - 1]]
    BY <1>1, <1>4 DEF Builds
  <2>2. \A i \in 1..n, v \in Reading : g[i][v] = ImportLine(v, s[i])
    OBVIOUS
  <2> HIDE DEF g
  <2> QED BY <2>1, <2>2
<1>6. f = D(f)
  <2>1. \A i \in 0..n : f[i] = IF i = 0 THEN Fresh ELSE ImportLine(f[i - 1], s[i])
    BY <1>1, <1>4, <1>5 DEF Builds
  <2> QED BY <2>1
<1>7. F = D(F)
  <2> HIDE DEF D
  <2> QED BY <1>6
<1> HIDE DEF F
<1>8. F[0] = Fresh /\ \A i \in 1..n : F[i] = ImportLine(F[i - 1], s[i])
  BY <1>1, <1>7
<1>9. F \in [0..n -> Reading]
  <2> DEFINE T == {i \in 0..n : F[i] \in Reading}
  <2>1. 0 \in T /\ \A i \in 1..n : i - 1 \in T => i \in T
    BY <1>1, <1>2, <1>8, FreshType
  <2>2. 0..n \subseteq T
    <3> HIDE DEF T
    <3> QED BY <1>1, <2>1, UpTo, Zenon
  <2>3. \A i \in 0..n : F[i] \in Reading
    BY <2>2
  <2> QED BY <1>7, <2>3
<1> QED BY <1>0, <1>8, <1>9 DEF n, Follow

(* One turn for each line.                                                 *)
LEMMA ImportNone == ImportLoop(<<>>) = Fresh
<1>1. <<>> \in Seq(Line) /\ Len(<<>>) = 0
  OBVIOUS
<1>2. PICK f \in [0..Len(<<>>) -> Reading] : Follow(f, <<>>) /\ ImportLoop(<<>>) = f[Len(<<>>)]
  BY <1>1, ImportRec, Zenon
<1> QED BY <1>1, <1>2 DEF Follow

(* One line more is one turn more.                                         *)
LEMMA ImportAppend ==
  ASSUME NEW s \in Seq(Line), NEW l \in Line
  PROVE  /\ ImportLoop(Append(s, l)) = ImportLine(ImportLoop(s), l)
         /\ ImportLoop(s) \in Reading
<1> DEFINE n == Len(s)
           t == Append(s, l)
<1>0. n \in Nat /\ t \in Seq(Line) /\ Len(t) = n + 1 /\ t[n + 1] = l /\ \A i \in 1..n : t[i] = s[i]
  OBVIOUS
<1>1. PICK f \in [0..n -> Reading] : Follow(f, s) /\ ImportLoop(s) = f[n]
  BY ImportRec
<1>2. PICK g \in [0..Len(t) -> Reading] : Follow(g, t) /\ ImportLoop(t) = g[Len(t)]
  <2> HIDE DEF t
  <2> QED BY <1>0, ImportRec
<1> HIDE DEF t
<1> DEFINE T == {i \in 0..n : f[i] = g[i]}
<1>3. 0 \in T
  BY <1>0, <1>1, <1>2 DEF Follow
<1>4. \A i \in 1..n : i - 1 \in T => i \in T
  BY <1>0, <1>1, <1>2 DEF Follow
<1>5. n \in T
  <2>1. 0..n \subseteq T
    <3> HIDE DEF T, n
    <3> QED BY <1>0, <1>3, <1>4, UpTo, Zenon
  <2> QED BY <1>0, <2>1
<1>6. ImportLoop(t) = ImportLine(ImportLoop(s), l) /\ ImportLoop(s) \in Reading
  BY <1>0, <1>1, <1>2, <1>5 DEF Follow
<1> QED BY <1>6 DEF t

(* Streams that name nodes, and a line more.                               *)
LEMMA NamedAppend ==
  ASSUME NEW s \in Seq(Line), NEW l \in Line, Named(Append(s, l))
  PROVE  Named(s) /\ (l.key = "Name" => Trim(l.value) \in Node)
<1> DEFINE r == Append(s, l)
<1>1. /\ DOMAIN r = 1..(Len(s) + 1) /\ DOMAIN s = 1..Len(s) /\ Len(s) \in Nat
      /\ r[Len(s) + 1] = l /\ \A i \in 1..Len(s) : r[i] = s[i]
  BY Appended
<1> HIDE DEF r
<1>2. Len(s) + 1 \in DOMAIN r /\ \A i \in DOMAIN s : i \in DOMAIN r /\ r[i] = s[i]
  BY <1>1
<1>3. Named(r)
  BY DEF r
<1> QED BY <1>1, <1>2, <1>3, Zenon DEF Named

(* A stream that names nodes makes files of hosts/.                        *)
LEMMA ImportHosts ==
  ASSUME NEW s \in Seq(Line), Named(s)
  PROVE  /\ ImportWrites(s) \in Seq(HostFile)
         /\ ImportLoop(s) \in Reading /\ ImportLoop(s).name \in Node \cup {""}
<1> DEFINE Fine(r) == r \in Reading /\ r.name \in Node \cup {""} /\ r.out \in Seq(HostFile)
           G == {t \in Seq(Line) : Named(t) => Fine(ImportLoop(t))}
<1>1. <<>> \in G
  <2>1. Fresh.name = "" /\ Fresh.out = <<>>
    BY DEF Fresh
  <2>2. Fresh.out \in Seq(HostFile) /\ <<>> \in Seq(Line)
    BY <2>1, Empty, Zenon
  <2> QED BY <2>1, <2>2, ImportNone, FreshType, Zenon
<1>2. ASSUME NEW t \in Seq(Line), t \in G, NEW l \in Line PROVE Append(t, l) \in G
  <2> SUFFICES ASSUME Named(Append(t, l)) PROVE Fine(ImportLoop(Append(t, l)))
    <3>1. Append(t, l) \in Seq(Line)
      BY Appends, Zenon
    <3> QED BY <3>1, Zenon
  <2> DEFINE r == ImportLoop(t)
  <2>1. Named(t) /\ (l.key = "Name" => Trim(l.value) \in Node)
    BY NamedAppend
  <2>2. Fine(r)
    BY <1>2, <2>1, Zenon
  <2>3. ImportLoop(Append(t, l)) = ImportLine(r, l)
    BY ImportAppend, Zenon
  <2> HIDE DEF r
  <2>4. ImportLine(r, l) \in Reading
    BY <2>2, ImportTypes, Zenon
  <2>5. r.name # "" => Append(r.out, Write(r.name, r.lines)) \in Seq(HostFile)
    <3> SUFFICES ASSUME r.name # "" PROVE Append(r.out, Write(r.name, r.lines)) \in Seq(HostFile)
      BY Zenon
    <3>1. r.name \in Node
      BY <2>2, Zenon
    <3>2. r.lines \in Seq(Line)
      BY <2>2, Zenon DEF Reading
    <3> DEFINE w == Write(r.name, r.lines)
    <3>3. w \in HostFile
      BY <3>1, <3>2, Zenon DEF HostFile, Write
    <3> HIDE DEF w
    <3>4. Append(r.out, w) \in Seq(HostFile)
      BY <2>2, <3>3, Appends, Zenon
    <3> QED BY <3>4, Zenon DEF w
  <2>6. ImportLine(r, l).name \in Node \cup {""} /\ ImportLine(r, l).out \in Seq(HostFile)
    BY <2>1, <2>2, <2>5, ImportTurn, Zenon
  <2> QED BY <2>3, <2>4, <2>6, Zenon
<1>3. Seq(Line) \subseteq G
  <2> HIDE DEF G
  <2> QED BY <1>1, <1>2, SeqInduct
<1>4. Fine(ImportLoop(s))
  BY <1>3, Zenon
<1> DEFINE r == ImportLoop(s)
           w == Write(r.name, r.lines)
<1>5. r.lines \in Seq(Line)
  BY <1>4, Zenon DEF Reading
<1>6. r.name # "" => w \in HostFile
  <2> HIDE DEF r
  <2>1. r.name # "" => r.name \in Node
    BY <1>4, Zenon DEF r
  <2> QED BY <1>5, <2>1, Zenon DEF HostFile, Write
<1>7. r.name # "" => Append(r.out, w) \in Seq(HostFile)
  <2> HIDE DEF r, w
  <2> QED BY <1>4, <1>6, Appends, Zenon DEF r
<1>8. ImportWrites(s) = IF r.name = "" THEN r.out ELSE Append(r.out, w)
  BY Zenon DEF ImportWrites
<1> QED BY <1>4, <1>7, <1>8, Zenon

-----------------------------------------------------------------------------
(***************************************************************************)
(* The files and what is read of them.                                     *)
(***************************************************************************)
(* Every variable is a function on its domain.                             *)
Total ==
  /\ disk = [f \in Path |-> disk[f]]
  /\ pc = [p \in Proc |-> pc[p]] /\ todo = [p \in Proc |-> todo[p]]
  /\ cmd = [p \in Proc |-> cmd[p]]

(* Writing a file changes that file alone.                                 *)
LEMMA Put ==
  ASSUME Total, NEW g, NEW text, disk' = [disk EXCEPT ![g] = text]
  PROVE  /\ disk' = [f \in Path |-> disk'[f]]
         /\ \A f \in Path : disk'[f] = IF f = g THEN text ELSE disk[f]
BY DEF Total

(* Every step keeps the functions total.                                   *)
LEMMA TotalStep ==
  ASSUME Total, [Next]_vars
  PROVE  Total'
<1>1. CASE UNCHANGED vars
  BY <1>1, ZenonT(20) DEF Total, vars
<1>2. ASSUME NEW p \in Proc, NEW where, Goto(p, where)
      PROVE  pc' = [q \in Proc |-> pc'[q]]
  BY <1>2 DEF Goto, Total
<1>3. ASSUME NEW p \in Proc, NEW writes, Proceed(p, writes)
      PROVE  pc' = [q \in Proc |-> pc'[q]] /\ todo' = [q \in Proc |-> todo'[q]]
  <2>1. todo' = [q \in Proc |-> todo'[q]]
    BY <1>3, ZenonT(20) DEF Proceed, Total
  <2>. QED  BY <1>2, <1>3, <2>1, ZenonT(20) DEF Proceed
<1>4. ASSUME NEW p \in Proc, Fail(p)
      PROVE  pc' = [q \in Proc |-> pc'[q]] /\ todo' = [q \in Proc |-> todo'[q]]
  BY <1>2, <1>4 DEF Fail, Total
<1>5. ASSUME NEW p \in Proc, NEW c \in Command, Start(p, c)
      PROVE  Total'
  <2>1. cmd' = [q \in Proc |-> cmd'[q]]
    BY <1>5 DEF Start, Total
  <2>. QED  BY <1>2, <1>3, <1>4, <1>5, <2>1 DEF Start, Total
<1>6. ASSUME NEW p \in Proc, ReadConf(p)
      PROVE  Total'
  BY <1>3, <1>4, <1>6, ZenonT(20) DEF ReadConf, Total
<1>7. ASSUME NEW p \in Proc, OpenFile(p)
      PROVE  Total'
  BY <1>2, <1>4, <1>7, Put, ZenonT(20) DEF OpenFile, Total
<1>8. ASSUME NEW p \in Proc, WriteFile(p)
      PROVE  Total'
  BY <1>3, <1>8, Put, ZenonT(20) DEF WriteFile, Total
<1>9. ASSUME NEW p \in Proc, Fault(p)
      PROVE  Total'
  BY <1>2, <1>4, <1>9, ZenonT(20) DEF Fault, Total
<1>10. CASE LoadConf \/ LoadEd \/ LoadWG
  BY <1>10, ZenonT(20) DEF LoadConf, LoadEd, LoadWG, Total
<1>. QED  BY <1>1, <1>5, <1>6, <1>7, <1>8, <1>9, <1>10, ZenonT(20) DEF Next

(* A process that goes elsewhere.                                          *)
LEMMA Moves ==
  ASSUME Total, NEW p \in Proc, NEW where, Goto(p, where)
  PROVE  pc'[p] = where /\ \A q \in Proc \ {p} : pc'[q] = pc[q]
BY ZenonT(20) DEF Total, Goto

(* A process that goes on with the files it has to write.                  *)
LEMMA Proceeds ==
  ASSUME Total, NEW p \in Proc, NEW writes, Proceed(p, writes)
  PROVE  /\ pc'[p] = IF writes = <<>> THEN "ok" ELSE "open"
         /\ todo'[p] = writes
         /\ \A q \in Proc \ {p} : pc'[q] = pc[q] /\ todo'[q] = todo[q]
<1>1. Goto(p, IF writes = <<>> THEN "ok" ELSE "open")
  BY DEF Proceed
<1>2. todo'[p] = writes /\ \A q \in Proc \ {p} : todo'[q] = todo[q]
  BY ZenonT(20) DEF Proceed, Total
<1>. QED  BY <1>1, <1>2, Moves, ZenonT(20)

(* What is there to write, in files and of them: keys apart from lines.    *)
Chore == [path : Keys, text : Seq(Proc)] \cup [path : Path \ Keys, text : Seq(Line)]
Filed(f, text) == text = NoFile \/ text \in IF f \in Keys THEN Seq(Proc) ELSE Seq(Line)
Busy(p) ==
  /\ cmd[p] \in Command \cup {None}
  /\ pc[p] \in {"new", "read", "open", "write"} \cup Ended
  /\ todo[p] \in Seq(Chore)
  /\ pc[p] \in {"open", "write"} => todo[p] # <<>>
  /\ pc[p] = "read" => cmd[p].op \in Edit
TypeInv ==
  /\ \A f \in Path : Filed(f, disk[f])
  /\ dir \in BOOLEAN
  /\ \A p \in Proc : Busy(p)
  /\ lpc \in {"idle", "ed", "wg"}
  /\ Parsed(got) /\ (loaded # NoFile => Parsed(loaded))
  /\ loads \in 0..Loads /\ faults \in 0..Faults

(* What "gsnet init" writes.                                               *)
LEMMA InitChores ==
  ASSUME NEW p \in Proc, NEW n \in Node, HostsOnly
  PROVE  InitWrites(p, n) \in Seq(Chore)
<1>1. {"Name", "Ed25519PublicKey", "WGPublicKey"} \subseteq STRING
  BY Literals, Zenon
<1>2. n \in STRING /\ n \notin Keys /\ "gsnet.conf" \notin Keys /\ n \in Path
  <2>1. n \in STRING
    BY ConfigAssumption, Zenon
  <2>2. n \notin {"gsnet.conf", "ed25519_key.priv", "wg.priv"}
    BY Zenon DEF HostsOnly
  <2>. QED  BY <2>1, <2>2 DEF Keys, Path
<1>3. /\ Entry("Name", n) \in Line /\ Entry("Ed25519PublicKey", p) \in Line
      /\ Entry("WGPublicKey", p) \in Line
  BY <1>1, <1>2 DEF Entry, Line
<1>4. <<Entry("Name", n)>> \in Seq(Line) /\ PublicKeys(p) \in Seq(Line)
  BY <1>3 DEF PublicKeys
<1>5. Render(<<Entry("Name", n)>>) \in Seq(Line) /\ Render(PublicKeys(p)) \in Seq(Line)
  BY <1>4, RenderSame, Zenon
<1>6. Write("ed25519_key.priv", <<p>>) \in Chore /\ Write("wg.priv", <<p>>) \in Chore
  BY DEF Write, Chore, Keys
<1>7. ASSUME NEW f \in Path \ Keys, NEW t \in Seq(Line) PROVE Write(f, t) \in Chore
  BY DEF Write, Chore
<1>8. "gsnet.conf" \in Path
  BY DEF Path
<1>9. /\ Write("gsnet.conf", Render(<<Entry("Name", n)>>)) \in Chore
      /\ Write(n, Render(PublicKeys(p))) \in Chore
  BY <1>2, <1>5, <1>7, <1>8
<1>10. \A a, b, c, d \in Chore : <<a, b, c, d>> \in Seq(Chore)
  OBVIOUS
<1>. QED  BY <1>6, <1>9, <1>10, Zenon DEF InitWrites

(* Lists of chores, and the files they are for.                            *)
LEMMA ChoreFacts ==
  /\ \A w \in Chore : w.path \in Path /\ Filed(w.path, w.text)
  /\ \A s \in Seq(Chore) : s # <<>> => Head(s) \in Chore /\ Tail(s) \in Seq(Chore)
  /\ <<>> \in Seq(Chore) /\ \A f : Filed(f, <<>>) /\ Filed(f, NoFile)
<1>1. \A w \in Chore : w.path \in Path /\ Filed(w.path, w.text)
  BY DEF Chore, Filed, Keys, Path
<1>2. \A f : Filed(f, <<>>) /\ Filed(f, NoFile)
  BY DEF Filed
<1>. HIDE DEF Chore
<1>3. \A s \in Seq(Chore) : s # <<>> => Head(s) \in Chore /\ Tail(s) \in Seq(Chore)
  OBVIOUS
<1>. QED  BY <1>1, <1>2, <1>3

(* What a command has to write when it starts or has read gsnet.conf.      *)
LEMMA ImportChores ==
  ASSUME HostsOnly, NEW c \in Command, c.op = "import"
  PROVE  ImportWrites(c.stream) \in Seq(Chore)
<1>1. ImportWrites(c.stream) \in Seq(HostFile)
  <2>1. c.stream \in Seq(Line)
    BY ConfigAssumption, ZenonT(20) DEF Edit
  <2>2. Named(c.stream)
    BY ZenonT(20) DEF HostsOnly, Named
  <2>. QED  BY <2>1, <2>2, ImportHosts, Zenon
<1>2. HostFile \subseteq Chore
  <2>1. Node \subseteq Path \ Keys
    BY DEF HostsOnly, Path, Keys
  <2>. QED  BY <2>1 DEF HostFile, Chore
<1>. HIDE DEF HostFile, Chore
<1>. QED  BY <1>1, <1>2

(* What an edit writes.                                                    *)
LEMMA EditChores ==
  ASSUME NEW c \in Command, c.op \in Edit, NEW es \in Seq(Line)
  PROVE  <<Write("gsnet.conf", Render(Edited(es, c)))>> \in Seq(Chore)
<1>1. Entry(c.key, c.value) \in Line
  BY ConfigAssumption, ZenonT(20) DEF Edit
<1>2. Render(Edited(es, c)) \in Seq(Line)
  BY <1>1, EditedLines, Zenon
<1>3. ASSUME NEW t \in Seq(Line) PROVE Write("gsnet.conf", t) \in Chore
  BY DEF Write, Chore, Path, Keys
<1>4. \A w \in Chore : <<w>> \in Seq(Chore)
  OBVIOUS
<1>. QED  BY <1>2, <1>3, <1>4, Zenon

(* A process that goes on with chores.                                     *)
LEMMA BusyProceeds ==
  ASSUME Total, NEW p \in Proc, NEW writes \in Seq(Chore), Proceed(p, writes),
         cmd'[p] \in Command \cup {None}
  PROVE  Busy(p)' /\ \A q \in Proc \ {p} : pc'[q] = pc[q] /\ todo'[q] = todo[q]
<1>1. /\ pc'[p] = IF writes = <<>> THEN "ok" ELSE "open"
      /\ todo'[p] = writes
      /\ \A q \in Proc \ {p} : pc'[q] = pc[q] /\ todo'[q] = todo[q]
  BY Proceeds
<1>. QED  BY <1>1, ZenonT(20) DEF Busy, Ended

(* A process that only goes elsewhere.                                     *)
LEMMA BusyMoves ==
  ASSUME Total, NEW p \in Proc, Busy(p), UNCHANGED todo, cmd'[p] \in Command \cup {None},
         NEW where \in {"read", "failed", "killed"}, Goto(p, where),
         where = "read" => cmd'[p].op \in Edit
  PROVE  Busy(p)' /\ \A q \in Proc \ {p} : pc'[q] = pc[q] /\ todo'[q] = todo[q]
<1>1. pc'[p] = where /\ \A q \in Proc \ {p} : pc'[q] = pc[q]
  BY Moves
<1>. QED  BY <1>1, ZenonT(20) DEF Busy, Ended

(* A step that leaves the files to the others.                             *)
LEMMA TypeMove ==
  ASSUME TypeInv, NEW p \in Proc, Busy(p)',
         \A q \in Proc \ {p} : cmd'[q] = cmd[q] /\ pc'[q] = pc[q] /\ todo'[q] = todo[q],
         \A f \in Path : Filed(f, disk'[f]), dir' \in BOOLEAN, UNCHANGED daemon,
         faults' \in 0..Faults
  PROVE  TypeInv'
<1>1. \A q \in Proc : Busy(q)'
  BY ZenonT(20) DEF TypeInv, Busy
<1>. QED  BY <1>1, ZenonT(20) DEF TypeInv, daemon

(* A command starts.                                                       *)
LEMMA TypeStart ==
  ASSUME HostsOnly, Total, TypeInv, NEW p \in Proc, NEW c \in Command, Start(p, c)
  PROVE  TypeInv'
<1>1. /\ pc[p] = "new" /\ cmd'[p] = c /\ \A q \in Proc \ {p} : cmd'[q] = cmd[q]
      /\ UNCHANGED <<disk, daemon, faults>>
  BY ZenonT(20) DEF Start, Total
<1>2. dir' \in BOOLEAN
  BY ZenonT(20) DEF Start, TypeInv
<1>3. SUFFICES Busy(p)' /\ \A q \in Proc \ {p} : pc'[q] = pc[q] /\ todo'[q] = todo[q]
  BY <1>1, <1>2, TypeMove, ZenonT(20) DEF TypeInv
<1>4. ASSUME NEW writes \in Seq(Chore), Proceed(p, writes) PROVE <1>3!1
  BY <1>1, <1>4, BusyProceeds, ZenonT(20)
<1>5. ASSUME NEW where \in {"read", "failed"}, Goto(p, where), UNCHANGED todo,
             where = "read" => c.op \in Edit
      PROVE  <1>3!1
  <2>1. where \in {"read", "failed", "killed"}
    OBVIOUS
  <2>. QED  BY <1>1, <1>5, <2>1, BusyMoves, ZenonT(20) DEF TypeInv
<1>6. CASE c.op = "init" /\ Valid(c.name) /\ Proceed(p, InitWrites(p, c.name))
  <2>1. c.name \in Node
    BY <1>6, ConfigAssumption, ZenonT(20) DEF Edit, Valid
  <2>. QED  BY <1>4, <1>6, <2>1, InitChores, ZenonT(20)
<1>7. CASE c.op = "import" /\ Proceed(p, ImportWrites(c.stream))
  BY <1>4, <1>7, ImportChores, ZenonT(20)
<1>8. CASE Fail(p)
  BY <1>5, <1>8, ZenonT(20) DEF Fail
<1>9. CASE c.op \in Edit /\ Goto(p, "read") /\ UNCHANGED todo
  BY <1>5, <1>9, ZenonT(20)
<1>. QED  BY <1>6, <1>7, <1>8, <1>9, ZenonT(20) DEF Start

(* An edit reads gsnet.conf.                                               *)
LEMMA TypeRead ==
  ASSUME Total, TypeInv, NEW p \in Proc, ReadConf(p)
  PROVE  TypeInv'
<1>. DEFINE text == disk["gsnet.conf"]
            es == IF text = NoFile THEN <<>> ELSE Parse(text)
<1>1. /\ pc[p] = "read" /\ cmd[p].op \in Edit /\ cmd[p] \in Command
      /\ UNCHANGED <<disk, dir, cmd, daemon, faults>>
  <2>1. None.op \notin Edit
    BY DEF None, Edit
  <2>. QED  BY <2>1, ZenonT(20) DEF TypeInv, Busy, ReadConf
<1>2. text = NoFile \/ text \in Seq(Line)
  BY ZenonT(20) DEF TypeInv, Filed, Path, Keys
<1>3. es = Bad \/ es \in Seq(Line)
  BY <1>2, ParseIsParsed, Empty, ZenonT(20) DEF Parsed
<1>4. SUFFICES Busy(p)' /\ \A q \in Proc \ {p} : pc'[q] = pc[q] /\ todo'[q] = todo[q]
  BY <1>1, TypeMove, ZenonT(20) DEF TypeInv
<1>5. CASE Fail(p)
  BY <1>1, <1>5, BusyMoves, ZenonT(20) DEF Fail, TypeInv
<1>6. CASE es # Bad /\ Proceed(p, <<Write("gsnet.conf", Render(Edited(es, cmd[p])))>>)
  <2>. HIDE DEF es
  <2>1. <<Write("gsnet.conf", Render(Edited(es, cmd[p])))>> \in Seq(Chore)
    BY <1>1, <1>3, <1>6, EditChores, ZenonT(20)
  <2>. QED  BY <1>1, <1>6, <2>1, BusyProceeds, ZenonT(20)
<1>. QED  BY <1>5, <1>6, ZenonT(20) DEF ReadConf

(* A file is opened, and written.                                          *)
LEMMA TypeOpen ==
  ASSUME Total, TypeInv, NEW p \in Proc, OpenFile(p)
  PROVE  TypeInv'
<1>1. /\ pc[p] = "open" /\ Busy(p) /\ cmd[p] \in Command \cup {None}
      /\ UNCHANGED <<dir, cmd, daemon, faults>>
  BY ZenonT(20) DEF TypeInv, Busy, OpenFile
<1>2. SUFFICES /\ Busy(p)' /\ \A q \in Proc \ {p} : pc'[q] = pc[q] /\ todo'[q] = todo[q]
               /\ \A f \in Path : Filed(f, disk'[f])
  BY <1>1, TypeMove, ZenonT(20) DEF TypeInv
<1>3. CASE Fail(p) /\ UNCHANGED disk
  BY <1>1, <1>3, BusyMoves, ZenonT(20) DEF Fail, TypeInv
<1>4. CASE /\ disk' = [disk EXCEPT ![Head(todo[p]).path] = <<>>]
           /\ Goto(p, "write") /\ UNCHANGED todo
  <2>1. pc'[p] = "write" /\ \A q \in Proc \ {p} : pc'[q] = pc[q]
    BY <1>4, Moves, ZenonT(20)
  <2>2. Busy(p)'
    BY <1>1, <1>4, <2>1, ZenonT(20) DEF Busy
  <2>3. \A f \in Path : disk'[f] = <<>> \/ disk'[f] = disk[f]
    BY <1>4, Put, ZenonT(20)
  <2>4. \A f \in Path : Filed(f, disk'[f])
    BY <2>3, ChoreFacts, ZenonT(20) DEF TypeInv
  <2>. QED  BY <1>4, <2>1, <2>2, <2>4, ZenonT(20)
<1>. QED  BY <1>3, <1>4, ZenonT(20) DEF OpenFile

(* A write keeps the types.                                                *)
LEMMA TypeWrite ==
  ASSUME Total, TypeInv, NEW p \in Proc, WriteFile(p)
  PROVE  TypeInv'
<1>. DEFINE w == Head(todo[p])
<1>1. /\ pc[p] = "write" /\ Busy(p) /\ cmd[p] \in Command \cup {None}
      /\ UNCHANGED <<dir, cmd, daemon, faults>>
  BY ZenonT(20) DEF TypeInv, Busy, WriteFile
<1>2. todo[p] \in Seq(Chore) /\ todo[p] # <<>>
  BY <1>1, ZenonT(20) DEF Busy
<1>3. w \in Chore /\ Tail(todo[p]) \in Seq(Chore)
  BY <1>2, ChoreFacts, ZenonT(20)
<1>4. Busy(p)' /\ \A q \in Proc \ {p} : pc'[q] = pc[q] /\ todo'[q] = todo[q]
  BY <1>1, <1>3, BusyProceeds, ZenonT(20) DEF WriteFile
<1>5. \A f \in Path : IF f = w.path THEN disk'[f] = w.text ELSE disk'[f] = disk[f]
  <2>1. disk' = [disk EXCEPT ![w.path] = w.text]
    BY ZenonT(20) DEF WriteFile
  <2>. HIDE DEF w
  <2>. QED  BY <2>1, Put, ZenonT(20)
<1>6. \A f \in Path : Filed(f, disk'[f])
  BY <1>3, <1>5, ChoreFacts, ZenonT(20) DEF TypeInv
<1>. QED  BY <1>1, <1>4, <1>6, TypeMove, ZenonT(20) DEF TypeInv

(* Every step keeps the types.                                             *)
LEMMA TypeStep ==
  ASSUME HostsOnly, Total, TypeInv, [Next]_vars
  PROVE  TypeInv'
<1>9. Loads \in Nat /\ Faults \in Nat
  BY ConfigAssumption, Zenon
<1>2. ASSUME NEW p \in Proc, Fault(p) PROVE TypeInv'
  <2>1. Busy(p) /\ cmd[p] \in Command \cup {None} /\ faults \in 0..Faults
    BY ZenonT(20) DEF TypeInv, Busy
  <2>2. faults > 0 /\ faults' = faults - 1
    BY <1>2 DEF Fault
  <2>3. faults' \in 0..Faults
    BY <1>9, <2>1, <2>2
  <2>4. UNCHANGED <<disk, dir, cmd, daemon, todo>>
    BY <1>2, ZenonT(20) DEF Fault, Fail
  <2>5. \E where \in {"read", "failed", "killed"} : where # "read" /\ Goto(p, where)
    BY <1>2, ZenonT(20) DEF Fault, Fail
  <2>6. Busy(p)' /\ \A q \in Proc \ {p} : pc'[q] = pc[q] /\ todo'[q] = todo[q]
    BY <2>1, <2>4, <2>5, BusyMoves, ZenonT(20)
  <2>. QED  BY <2>3, <2>4, <2>6, TypeMove, ZenonT(20) DEF TypeInv
<1>3. CASE UNCHANGED vars
  BY <1>3, ZenonT(20) DEF TypeInv, Busy, vars
<1>4. ASSUME UNCHANGED <<disk, dir, cmd, pc, todo, faults>>, lpc' \in {"idle", "ed", "wg"},
             Parsed(got'), loaded' # NoFile => Parsed(loaded'), loads' \in 0..Loads
      PROVE  TypeInv'
  BY <1>4, ZenonT(20) DEF TypeInv, Busy
<1>5. Parsed(<<>>)
  <2>1. <<>> \in Seq(Line) /\ DOMAIN <<>> = {}
    BY Empty
  <2>. QED  BY <2>1, Zenon DEF Parsed
<1>6. CASE LoadConf
  <2>1. loads \in 0..Loads /\ loads > 0 /\ loads' = loads - 1
    BY <1>6, ZenonT(20) DEF LoadConf, TypeInv
  <2>2. loads' \in 0..Loads
    BY <1>9, <2>1
  <2>3. disk["gsnet.conf"] = NoFile \/ disk["gsnet.conf"] \in Seq(Line)
    BY ZenonT(20) DEF TypeInv, Filed, Path, Keys
  <2>4. Parsed(got')
    BY <1>6, <2>3, LoadParsed, ZenonT(20) DEF LoadConf, HasName, TypeInv
  <2>5. lpc' \in {"idle", "ed", "wg"}
    BY <1>6, ZenonT(20) DEF LoadConf, TypeInv
  <2>6. UNCHANGED <<disk, dir, cmd, pc, todo, loaded, faults>>
    BY <1>6, ZenonT(20) DEF LoadConf
  <2>. QED  BY <1>4, <2>2, <2>4, <2>5, <2>6, ZenonT(20) DEF TypeInv
<1>7. CASE LoadEd
  <2>1. lpc' \in {"idle", "ed", "wg"} /\ Parsed(got')
    BY <1>5, <1>7, ZenonT(20) DEF LoadEd, TypeInv
  <2>. QED  BY <1>4, <1>7, <2>1, ZenonT(20) DEF LoadEd, TypeInv
<1>8. CASE LoadWG
  <2>1. lpc' \in {"idle", "ed", "wg"} /\ Parsed(got')
    BY <1>5, <1>8, ZenonT(20) DEF LoadWG
  <2>2. loaded' # NoFile => Parsed(loaded')
    BY <1>8, ZenonT(20) DEF LoadWG, TypeInv
  <2>. QED  BY <1>4, <1>8, <2>1, <2>2, ZenonT(20) DEF LoadWG, TypeInv
<1>. QED
  BY <1>2, <1>3, <1>6, <1>7, <1>8, TypeStart, TypeRead, TypeOpen, TypeWrite,
     ZenonT(20) DEF Next

(* The types hold at the beginning.                                        *)
LEMMA TypeInit == Init => TypeInv
<1>. SUFFICES ASSUME Init PROVE TypeInv
  OBVIOUS
<1>1. \A f \in Path : disk[f] = NoFile
  BY ZenonT(20) DEF Init
<1>2. \A p \in Proc : cmd[p] = None /\ pc[p] = "new" /\ todo[p] = <<>>
  BY ZenonT(20) DEF Init
<1>3. \A p \in Proc : Busy(p)
  BY <1>2, ChoreFacts, ZenonT(20) DEF Busy
<1>4. <<>> \in Seq(Line) /\ DOMAIN <<>> = {}
  BY Empty
<1>5. Parsed(<<>>)
  BY <1>4, Zenon DEF Parsed
<1>6. lpc = "idle" /\ got = <<>> /\ loaded = NoFile /\ dir \in BOOLEAN
  BY ZenonT(20) DEF Init
<1>7. Loads \in Nat /\ Faults \in Nat
  BY ConfigAssumption, Zenon
<1>8. loads \in 0..Loads /\ faults \in 0..Faults
  BY <1>7 DEF Init
<1>. QED  BY <1>1, <1>3, <1>5, <1>6, <1>8, ChoreFacts, ZenonT(20) DEF TypeInv

(* Files hold lines, or keys where a key belongs, whatever crashes and     *)
(* commands came before, and the daemon has entries that the parser has    *)
(* accepted, if what is imported names nodes (config.Parse, Render, init,  *)
(* mutateConf, cmdDel, cmdImport, load).                                   *)
THEOREM TypeHolds ==
  ASSUME HostsOnly
  PROVE  Spec => []TypeOK
<1>1. Total /\ [Next]_vars => Total'
  BY TotalStep
<1>2. Total /\ TypeInv /\ [Next]_vars => TypeInv'
  BY TypeStep
<1>3. TypeInv => TypeOK
  <2>. SUFFICES ASSUME TypeInv PROVE TypeOK
    OBVIOUS
  <2>1. \A f \in Path : disk[f] # NoFile =>
          disk[f] \in IF f \in {"ed25519_key.priv", "wg.priv"} THEN Seq(Proc) ELSE Seq(Line)
    BY ZenonT(20) DEF TypeInv, Filed, Keys
  <2>2. ASSUME NEW p \in Proc
        PROVE  /\ cmd[p] \in Command \cup {None}
               /\ pc[p] \in {"new", "read", "open", "write"} \cup Ended
               /\ \A i \in DOMAIN todo[p] : todo[p][i].path \in Path
    <3>1. Busy(p)
      BY DEF TypeInv
    <3>2. todo[p] \in Seq(Chore)
      BY <3>1, Zenon DEF Busy
    <3>3. \A i \in DOMAIN todo[p] : todo[p][i] \in Chore
      BY <3>2
    <3>. QED  BY <3>1, <3>3, ChoreFacts, Zenon DEF Busy
  <2>3. \A es \in {got, loaded} \ {NoFile} : Parsed(es)
    BY ZenonT(20) DEF TypeInv
  <2>. QED  BY <2>1, <2>2, <2>3, ZenonT(20) DEF TypeOK, TypeInv, Parsed
<1>4. Init => Total
  BY DEF Init, Total
<1>. QED  BY <1>1, <1>2, <1>3, <1>4, TypeInit, PTL DEF Spec

=============================================================================
