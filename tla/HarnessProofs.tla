--------------------------- MODULE HarnessProofs ---------------------------
(***************************************************************************)
(* Proofs about Harness, for every suite of cases and entries, every seed  *)
(* and schema, and any number of failed calls and killed runs.             *)
(*                                                                         *)
(* What a case starts from is not inductive: a database may well refuse    *)
(* connections and a pool be broken, and the proof is about where.  While  *)
(* no call to a database has failed, a database refuses connections only   *)
(* between an outage and the Restore the same runCase has deferred, or     *)
(* after a kill, and then before OpenDB has got to it.                     *)
(*                                                                         *)
(* Nor is where the rows of a verdict come from: a snapshot is the case's  *)
(* own because its database was, from Reset on, and two snapshots are      *)
(* compared exactly because both are sorted by the same keys.              *)
(*                                                                         *)
(* The first part is about the comparisons of Parity alone.  Two lists are *)
(* compared place by place after a sort, and selections of two lists place *)
(* by place.  So the argument is about places: what a selection has at a   *)
(* place comes from one place of its list, and a sort by keys that differ  *)
(* leaves each row no choice of place.                                     *)
(***************************************************************************)
EXTENDS Harness, WellFoundedInduction, TLAPS

-----------------------------------------------------------------------------
(***************************************************************************)
(* Selections.  Induction over a list is by the least place where a claim  *)
(* about its beginnings would fail.                                        *)
(***************************************************************************)

\* A set of natural numbers that is not empty has a least element: what stands
\* for induction here.
LEMMA LeastNumber ==
    ASSUME NEW T, T \subseteq Nat, T # {}
    PROVE  \E x \in T : \A y \in T : x <= y
<1> DEFINE R == {ss \in Nat \X Nat : ss[1] < ss[2]}
<1>1. IsWellFoundedOn(OpToRel(<, Nat), Nat)
  BY Zenon, NatLessThanWellFounded
<1>2. IsWellFoundedOn(R, Nat)
  BY <1>1 DEF OpToRel
<1> HIDE DEF R
<1>3. PICK x \in T : \A y \in T : ~ (<<y, x>> \in R)
  BY Zenon, <1>2, WFMin
<1> USE DEF R
<1>4. \A y \in T : ~(y < x)
  BY Zenon, <1>3
<1> QED
  BY <1>4

\* g is Selected's table of prefixes, up to m.
Prefixes(g, m, s, I) ==
    \A k \in 0 .. m : g[k] = IF k = 0 THEN <<>>
                             ELSE IF k \in I THEN Append(g[k - 1], s[k]) ELSE g[k - 1]

\* There is such a table.
LEMMA PrefixTable ==
    ASSUME NEW S, NEW s \in Seq(S), NEW I, NEW n \in 0 .. Len(s)
    PROVE  \E g \in [0 .. n -> Seq(S)] : Prefixes(g, n, s, I)
<1> DEFINE Has(m) == \E g \in [0 .. m -> Seq(S)] : Prefixes(g, m, s, I)
           T == {m \in 0 .. Len(s) : ~ Has(m)}
<1> SUFFICES ASSUME T # {} PROVE FALSE
  OBVIOUS
<1>1. T \subseteq Nat
  OBVIOUS
<1>2. PICK m \in T : \A y \in T : m <= y
  BY Zenon, <1>1, LeastNumber
<1>3. m \in 0 .. Len(s) /\ ~ Has(m)
  OBVIOUS
<1>4. Has(0)
  <2> DEFINE g == [k \in 0 .. 0 |-> <<>>]
  <2>1. g \in [0 .. 0 -> Seq(S)] /\ Prefixes(g, 0, s, I)
    BY DEF Prefixes
  <2> QED BY Zenon, <2>1
<1>5. m # 0
  BY Zenon, <1>3, <1>4
<1>6. m - 1 \in 0 .. Len(s) /\ ~ (m <= m - 1)
  BY <1>3, <1>5
<1>7. Has(m - 1)
  BY Zenon, <1>2, <1>6
<1>8. PICK g \in [0 .. m - 1 -> Seq(S)] : Prefixes(g, m - 1, s, I)
  BY <1>7
<1> DEFINE h == [k \in 0 .. m |-> IF k < m THEN g[k]
                                  ELSE IF m \in I THEN Append(g[m - 1], s[m]) ELSE g[m - 1]]
<1> HIDE DEF T, Has
<1>9. h \in [0 .. m -> Seq(S)]
  <2>1. m - 1 \in 0 .. m - 1 /\ m \in 1 .. Len(s)
    BY <1>3, <1>5
  <2>2. g[m - 1] \in Seq(S) /\ s[m] \in S
    BY <1>8, <2>1
  <2>3. Append(g[m - 1], s[m]) \in Seq(S)
    BY <2>2
  <2> QED BY <1>3, <2>2, <2>3
<1>10. Prefixes(h, m, s, I)
  <2> SUFFICES ASSUME NEW k \in 0 .. m
               PROVE  h[k] = IF k = 0 THEN <<>>
                             ELSE IF k \in I THEN Append(h[k - 1], s[k]) ELSE h[k - 1]
    BY DEF Prefixes
  <2>1. CASE k = 0
    BY <1>3, <1>5, <1>8, <2>1 DEF Prefixes
  <2>2. CASE k # 0 /\ k < m
    <3>1. k \in 0 .. m - 1 /\ k - 1 \in 0 .. m /\ k - 1 < m
      BY <1>3, <2>2
    <3>2. h[k] = g[k] /\ h[k - 1] = g[k - 1]
      BY <2>2, <3>1
    <3> HIDE DEF h
    <3> QED BY Zenon, <1>8, <2>2, <3>1, <3>2 DEF Prefixes
  <2>3. CASE k = m
    <3>1. m \in 0 .. m /\ m - 1 \in 0 .. m /\ m - 1 < m /\ ~ (m < m)
      BY <1>3, <1>5
    <3>2. /\ h[m] = IF m \in I THEN Append(g[m - 1], s[m]) ELSE g[m - 1]
          /\ h[m - 1] = g[m - 1]
      BY <3>1
    <3> HIDE DEF h
    <3> QED BY <1>5, <2>3, <3>2
  <2> QED BY <2>1, <2>2, <2>3, <1>3
<1>11. Has(m)
  BY Zenon, <1>9, <1>10 DEF Has
<1> QED BY <1>3, <1>11

\* And Selected reads it.
LEMMA SelectedByPrefixes ==
    ASSUME NEW S, NEW s \in Seq(S), NEW I
    PROVE  \E g \in [0 .. Len(s) -> Seq(S)] :
               Prefixes(g, Len(s), s, I) /\ Selected(s, I) = g[Len(s)]
<1> DEFINE n == Len(s)
<1>1. n \in Nat /\ n \in 0 .. n
  OBVIOUS
<1> HIDE DEF n
<1>2. PICK g \in [0 .. n -> Seq(S)] : Prefixes(g, n, s, I)
  BY Zenon, <1>1, PrefixTable DEF n
<1> DEFINE IsTable(f) == f = [k \in 0 .. n |-> IF k = 0 THEN <<>>
                                   ELSE IF k \in I THEN Append(f[k - 1], s[k]) ELSE f[k - 1]]
<1>3. IsTable(g)
  BY Zenon, <1>2 DEF Prefixes
<1> DEFINE f == CHOOSE x : IsTable(x)
<1>4. IsTable(f)
  BY Zenon, <1>3
<1>5. Selected(s, I) = f[n]
  BY Zenon DEF Selected, n
<1> HIDE DEF f
<1>6. \A k \in 0 .. n : f[k] = IF k = 0 THEN <<>>
                               ELSE IF k \in I THEN Append(f[k - 1], s[k]) ELSE f[k - 1]
  BY Zenon, <1>4
<1> DEFINE T == {k \in 0 .. n : f[k] # g[k]}
<1>7. T = {}
  <2> SUFFICES ASSUME T # {} PROVE FALSE
    OBVIOUS
  <2>1. T \subseteq Nat
    BY <1>1
  <2>2. PICK m \in T : \A y \in T : m <= y
    BY Zenon, <2>1, LeastNumber
  <2>3. m \in 0 .. n /\ f[m] # g[m] /\ m # 0
    BY <1>2, <1>6, <1>1 DEF Prefixes
  <2>4. m - 1 \in 0 .. n /\ ~ (m <= m - 1)
    BY <1>1, <2>3
  <2>5. f[m - 1] = g[m - 1]
    BY <2>2, <2>4
  <2> QED BY Zenon, <1>2, <1>6, <2>3, <2>5 DEF Prefixes
<1>8. f[n] = g[n]
  BY Zenon, <1>1, <1>7
<1> QED BY Zenon, <1>2, <1>5, <1>8 DEF n

\* What the same places select of two lists: as much, and from the same places.
Together(S, s, R, r, I) ==
    /\ Selected(s, I) \in Seq(S) /\ Selected(r, I) \in Seq(R)
    /\ Len(Selected(s, I)) = Len(Selected(r, I))
    /\ \A i \in 1 .. Len(Selected(s, I)) :
           \E j \in 1 .. Len(s) : j \in I /\ Selected(s, I)[i] = s[j] /\ Selected(r, I)[i] = r[j]

\* So it is for lists of one length.
LEMMA SelectedTogether ==
    ASSUME NEW S, NEW s \in Seq(S), NEW R, NEW r \in Seq(R), Len(s) = Len(r), NEW I
    PROVE  Together(S, s, R, r, I)
<1> DEFINE n == Len(s)
<1>1. n \in Nat /\ n = Len(r)
  OBVIOUS
<1> HIDE DEF n
<1>2. PICK g \in [0 .. n -> Seq(S)] : Prefixes(g, n, s, I) /\ Selected(s, I) = g[n]
  BY SelectedByPrefixes DEF n
<1>3. PICK h \in [0 .. n -> Seq(R)] : Prefixes(h, n, r, I) /\ Selected(r, I) = h[n]
  <2>1. \E h \in [0 .. Len(r) -> Seq(R)] : Prefixes(h, Len(r), r, I) /\ Selected(r, I) = h[Len(r)]
    BY SelectedByPrefixes
  <2> QED BY <1>1, <2>1
<1> DEFINE Alike(k) == /\ Len(g[k]) = Len(h[k])
                       /\ \A i \in 1 .. Len(g[k]) :
                              \E j \in 1 .. n : j \in I /\ g[k][i] = s[j] /\ h[k][i] = r[j]
           T == {k \in 0 .. n : ~ Alike(k)}
<1>4. T = {}
  <2> SUFFICES ASSUME T # {} PROVE FALSE
    OBVIOUS
  <2>1. T \subseteq Nat
    BY <1>1
  <2>2. PICK m \in T : \A y \in T : m <= y
    BY Zenon, <2>1, LeastNumber
  <2>3. m \in 0 .. n /\ ~ Alike(m)
    OBVIOUS
  <2>4. CASE m = 0
    <3>1. g[0] = <<>> /\ h[0] = <<>>
      BY <1>1, <1>2, <1>3 DEF Prefixes
    <3> QED BY <2>3, <2>4, <3>1
  <2>5. CASE m # 0
    <3>1. m - 1 \in 0 .. n /\ ~ (m <= m - 1) /\ m \in 1 .. n
      BY <1>1, <2>3, <2>5
    <3>2. Alike(m - 1)
      BY Zenon, <2>2, <3>1
    <3>3. /\ g[m] = IF m \in I THEN Append(g[m - 1], s[m]) ELSE g[m - 1]
          /\ h[m] = IF m \in I THEN Append(h[m - 1], r[m]) ELSE h[m - 1]
      BY Zenon, <1>2, <1>3, <2>3, <2>5 DEF Prefixes
    <3>4. g[m - 1] \in Seq(S) /\ h[m - 1] \in Seq(R) /\ s[m] \in S /\ r[m] \in R
      BY <1>1, <3>1 DEF n
    <3>5. CASE m \notin I
      BY <2>3, <3>2, <3>3, <3>5
    <3>6. CASE m \in I
      <4> DEFINE x == g[m - 1]  y == h[m - 1]
      <4>1. x \in Seq(S) /\ y \in Seq(R) /\ Len(x) = Len(y) /\ Len(x) \in Nat
        BY <3>2, <3>4
      <4>2. g[m] = Append(x, s[m]) /\ h[m] = Append(y, r[m])
        BY Zenon, <3>3, <3>6
      <4>3. \A i \in 1 .. Len(x) : \E j \in 1 .. n : j \in I /\ x[i] = s[j] /\ y[i] = r[j]
        BY <3>2
      <4> HIDE DEF x, y
      <4>4. /\ Len(g[m]) = Len(x) + 1 /\ Len(h[m]) = Len(x) + 1
            /\ \A i \in 1 .. Len(x) : g[m][i] = x[i] /\ h[m][i] = y[i]
            /\ g[m][Len(x) + 1] = s[m] /\ h[m][Len(x) + 1] = r[m]
        BY SMTT(30), <3>4, <4>1, <4>2
      <4>5. \A i \in 1 .. Len(x) + 1 : \E j \in 1 .. n : j \in I /\ g[m][i] = s[j] /\ h[m][i] = r[j]
        <5> SUFFICES ASSUME NEW i \in 1 .. Len(x) + 1
                     PROVE  \E j \in 1 .. n : j \in I /\ g[m][i] = s[j] /\ h[m][i] = r[j]
          BY Zenon
        <5>1. CASE i \in 1 .. Len(x)
          BY ZenonT(40), <4>3, <4>4, <5>1
        <5>2. CASE i = Len(x) + 1
          BY Zenon, <3>1, <3>6, <4>4, <5>2
        <5> QED BY <4>1, <5>1, <5>2
      <4> QED BY Zenon, <2>3, <4>4, <4>5
    <3> QED BY <3>5, <3>6
  <2> QED BY <2>4, <2>5
<1>5. n \in 0 .. n
  BY <1>1
<1>6. Alike(n)
  BY Zenon, <1>4, <1>5
<1>7. g[n] \in Seq(S) /\ h[n] \in Seq(R)
  BY <1>5
<1> HIDE DEF Alike
<1> QED BY Zenon, <1>2, <1>3, <1>6, <1>7 DEF Alike, Together, n

-----------------------------------------------------------------------------
(***************************************************************************)
(* Keys.                                                                   *)
(***************************************************************************)

Cell == Int \cup {None}

\* Of two cells that differ one is before the other.
LEMMA CellTotal ==
    ASSUME NEW x \in Cell, NEW y \in Cell, x # y
    PROVE  CellBefore(x, y) \/ CellBefore(y, x)
<1>1. CASE x = None \/ y = None
  BY Zenon, <1>1 DEF CellBefore
<1>2. CASE x \in Int /\ y \in Int /\ x # None /\ y # None
  <2>1. x < y \/ y < x
    BY <1>2
  <2> QED BY Zenon, <1>2, <2>1 DEF CellBefore
<1> QED BY <1>1, <1>2 DEF Cell

\* So of two keys.
LEMMA KeyTotal ==
    ASSUME NEW k \in Seq(Cell), NEW l \in Seq(Cell), k # l
    PROVE  KeyBefore(k, l) \/ KeyBefore(l, k)
<1> DEFINE T == {i \in Nat \ {0} : i = Len(k) + 1 \/ i = Len(l) + 1 \/ k[i] # l[i]}
<1>1. T \subseteq Nat /\ Len(k) + 1 \in T /\ Len(l) + 1 \in T
  OBVIOUS
<1>2. PICK d \in T : \A y \in T : d <= y
  BY Zenon, <1>1, LeastNumber
<1>3. d \in Nat \ {0} /\ d <= Len(k) + 1 /\ d <= Len(l) + 1
  BY <1>1, <1>2
<1>4. ASSUME NEW j \in 1 .. d - 1 PROVE k[j] = l[j]
  <2>1. j \in Nat \ {0} /\ ~ (d <= j)
    BY <1>3
  <2> QED BY <1>2, <2>1
<1>5. d = Len(k) + 1 \/ d = Len(l) + 1 \/ k[d] # l[d]
  BY <1>2
<1> HIDE DEF T
<1>6. SubSeq(k, 1, d - 1) = SubSeq(l, 1, d - 1)
  <2>1. /\ SubSeq(k, 1, d - 1) = [j \in 1 .. d - 1 |-> k[j]]
        /\ SubSeq(l, 1, d - 1) = [j \in 1 .. d - 1 |-> l[j]]
    BY <1>3
  <2> QED BY Zenon, <1>4, <2>1
<1>7. CASE d = Len(k) + 1 /\ d = Len(l) + 1
  <2>1. Len(k) = Len(l) /\ \A j \in 1 .. Len(k) : k[j] = l[j]
    BY <1>3, <1>4, <1>7
  <2>2. k = l
    BY <2>1
  <2> QED BY <2>2
<1>8. CASE d = Len(k) + 1 /\ d # Len(l) + 1
  <2>1. d \in 1 .. Len(l)
    BY <1>3, <1>8
  <2> QED BY Zenon, <1>3, <1>6, <1>8, <2>1 DEF KeyBefore
<1>9. CASE d # Len(k) + 1 /\ d = Len(l) + 1
  <2>1. d \in 1 .. Len(k)
    BY <1>3, <1>9
  <2> QED BY Zenon, <1>3, <1>6, <1>9, <2>1 DEF KeyBefore
<1>10. CASE d # Len(k) + 1 /\ d # Len(l) + 1
  <2>1. d \in 1 .. Len(k) /\ d \in 1 .. Len(l)
    BY <1>3, <1>10
  <2>2. k[d] \in Cell /\ l[d] \in Cell /\ k[d] # l[d]
    BY <1>5, <1>10, <2>1
  <2>3. CellBefore(k[d], l[d]) \/ CellBefore(l[d], k[d])
    BY <2>2, CellTotal
  <2> QED BY Zenon, <1>3, <1>6, <2>1, <2>3 DEF KeyBefore
<1> QED BY <1>7, <1>8, <1>9, <1>10

\* The cells a row is sorted by, of two rows that differ only in others.
LEMMA SameKey ==
    ASSUME NEW C, NEW kept \in Seq(C), NEW r, NEW o,
           \A i \in 1 .. Len(kept) :
               /\ r[kept[i].name] \in Cell /\ o[kept[i].name] \in Cell
               /\ kept[i].timestamp => (r[kept[i].name] = None <=> o[kept[i].name] = None)
               /\ ~ (kept[i].timestamp /\ r[kept[i].name] # None)
                     => r[kept[i].name] = o[kept[i].name]
    PROVE  SortCells(kept, r) = SortCells(kept, o) /\ SortCells(kept, r) \in Seq(Cell)
<1> DEFINE n == Len(kept)
           R == [i \in DOMAIN kept |-> r[kept[i].name]]
           O == [i \in DOMAIN kept |-> o[kept[i].name]]
           I == {i \in DOMAIN kept : ~ (kept[i].timestamp /\ r[kept[i].name] # None)}
           J == {i \in DOMAIN kept : ~ (kept[i].timestamp /\ o[kept[i].name] # None)}
<1>1. n \in Nat /\ DOMAIN kept = 1 .. n
  OBVIOUS
<1>2. I = J
  BY Zenon, <1>1
<1>3. R \in Seq(Cell) /\ O \in Seq(Cell) /\ Len(R) = n /\ Len(O) = n
  <2>1. R \in [1 .. n -> Cell] /\ O \in [1 .. n -> Cell]
    BY Zenon, <1>1
  <2> HIDE DEF R, O, n
  <2> QED BY SMTT(30), <1>1, <2>1
<1>4. \A i \in I : i \in 1 .. n => R[i] = O[i]
  BY Zenon, <1>1
<1>5. SortCells(kept, r) = Selected(R, I) /\ SortCells(kept, o) = Selected(O, J)
  BY Zenon DEF SortCells
<1> HIDE DEF R, O, I, J, n
<1>6. /\ Selected(R, I) \in Seq(Cell) /\ Selected(O, I) \in Seq(Cell)
      /\ Len(Selected(R, I)) = Len(Selected(O, I))
      /\ \A i \in 1 .. Len(Selected(R, I)) :
            \E j \in 1 .. Len(R) : j \in I /\ Selected(R, I)[i] = R[j] /\ Selected(O, I)[i] = O[j]
  <2>1. Len(R) = Len(O)
    BY <1>3
  <2>2. Together(Cell, R, Cell, O, I)
    BY Zenon, <1>3, <2>1, SelectedTogether
  <2> QED BY Zenon, <2>2 DEF Together
<1>7. \A i \in 1 .. Len(Selected(R, I)) : Selected(R, I)[i] = Selected(O, I)[i]
  BY Zenon, <1>3, <1>4, <1>6
<1>8. ASSUME NEW x \in Seq(Cell), NEW y \in Seq(Cell), Len(x) = Len(y),
             \A i \in 1 .. Len(x) : x[i] = y[i]
      PROVE  x = y
  BY <1>8
<1>9. Selected(R, I) = Selected(O, I)
  BY Zenon, <1>6, <1>7, <1>8
<1> QED BY Zenon, <1>2, <1>5, <1>6, <1>9

\* A function that grows through the whole of a list of places.
Growing(f, n, m) ==
    /\ f \in [1 .. n -> 1 .. m]
    /\ \A i, j \in 1 .. n : i < j => f[i] < f[j]
    /\ \A j \in 1 .. m : \E i \in 1 .. n : f[i] = j

\* It is the identity.
LEMMA GrowingIsIdentity ==
    ASSUME NEW n \in Nat, NEW m \in Nat, NEW f, Growing(f, n, m)
    PROVE  n = m /\ \A i \in 1 .. n : f[i] = i
<1> USE DEF Growing
<1> DEFINE T == {i \in 1 .. n : f[i] # i}
<1>1. T = {}
  <2> SUFFICES ASSUME T # {} PROVE FALSE
    OBVIOUS
  <2>1. T \subseteq Nat
    OBVIOUS
  <2>2. PICK x \in T : \A y \in T : x <= y
    BY Zenon, <2>1, LeastNumber
  <2>3. x \in 1 .. n /\ f[x] # x /\ f[x] \in 1 .. m
    OBVIOUS
  <2>4. ASSUME NEW i \in 1 .. n, i < x PROVE f[i] = i
    BY <2>2, <2>3, <2>4
  <2>5. ~ (f[x] < x)
    <3> SUFFICES ASSUME f[x] < x PROVE FALSE
      OBVIOUS
    <3>1. f[x] \in 1 .. n
      BY <2>3
    <3>2. f[f[x]] = f[x]
      BY <2>4, <3>1
    <3>3. f[f[x]] < f[x]
      BY <2>3, <3>1
    <3> QED BY <2>3, <3>2, <3>3
  <2>6. x \in 1 .. m /\ x < f[x]
    BY <2>3, <2>5
  <2>7. PICK i \in 1 .. n : f[i] = x
    BY <2>6
  <2>8. CASE i < x
    BY <2>4, <2>7, <2>8
  <2>9. CASE x < i
    <3>1. f[x] < f[i]
      BY <2>3, <2>9
    <3> QED BY <2>3, <2>6, <2>7, <3>1
  <2> QED BY <2>3, <2>6, <2>7, <2>8, <2>9
<1>2. \A i \in 1 .. n : f[i] = i
  BY <1>1
<1> HIDE DEF T
<1>3. n <= m
  BY <1>2
<1>4. m <= n
  <2>1. CASE m = 0
    BY <2>1
  <2>2. CASE m # 0
    <3>1. PICK i \in 1 .. n : f[i] = m
      BY <2>2
    <3> QED BY <1>2, <3>1
  <2> QED BY <2>1, <2>2
<1> QED BY <1>2, <1>3, <1>4

-----------------------------------------------------------------------------
(***************************************************************************)
(* Snapshots.                                                              *)
(***************************************************************************)

\* The columns of a table, as a set.
ColumnsOf(t) == {Columns[t][i] : i \in DOMAIN Columns[t]}

\* What a snapshot reads is columns of the table.
LEMMA KeptColumns ==
    ASSUME NEW allowed, NEW t \in Tables
    PROVE  Kept(allowed, t) \in Seq(ColumnsOf(t))
<1> DEFINE I == {i \in DOMAIN Columns[t] : ~ MasksColumn(allowed, t, Columns[t][i].name)}
<1>1. Columns[t] \in Seq(ColumnsOf(t))
  BY Zenon, SchemaAssumption DEF IsList, ColumnsOf
<1>2. Kept(allowed, t) = Selected(Columns[t], I)
  BY Zenon DEF Kept
<1> HIDE DEF I
<1>3. Together(ColumnsOf(t), Columns[t], ColumnsOf(t), Columns[t], I)
  BY Zenon, <1>1, SelectedTogether
<1> QED BY Zenon, <1>2, <1>3 DEF Together

\* A kept column's name, and whether a cell under that name is an instant.
LEMMA KeptColumn ==
    ASSUME NEW allowed, NEW t \in Tables, NEW i \in 1 .. Len(Kept(allowed, t))
    PROVE  LET c == Kept(allowed, t)[i]
           IN  /\ c.name \in Names(t)
               /\ c.timestamp \in BOOLEAN
               /\ c.name = "user_agent" => ~ c.timestamp
               /\ \A d \in ColumnsOf(t) : d.name = c.name => d.timestamp = c.timestamp
               /\ IsTimestamp(t, c.name) <=> c.timestamp
<1> DEFINE c == Kept(allowed, t)[i]
<1>1. c \in ColumnsOf(t)
  BY KeptColumns
<1> HIDE DEF c
<1>2. PICK j \in DOMAIN Columns[t] : c = Columns[t][j]
  BY Zenon, <1>1 DEF ColumnsOf
<1>3. c.name \in Names(t) /\ c.timestamp \in BOOLEAN /\ (c.name = "user_agent" => ~ c.timestamp)
  BY Zenon, <1>2, SchemaAssumption DEF Names
<1>4. ASSUME NEW k \in DOMAIN Columns[t], Columns[t][k].name = c.name PROVE Columns[t][k] = c
  BY Zenon, <1>2, <1>4, SchemaAssumption
<1>5. \A d \in ColumnsOf(t) : d.name = c.name => d.timestamp = c.timestamp
  BY Zenon, <1>4 DEF ColumnsOf
<1>6. IsTimestamp(t, c.name) <=> c.timestamp
  BY Zenon, <1>2, <1>4 DEF IsTimestamp
<1> QED BY <1>3, <1>5, <1>6 DEF c

\* What a snapshot makes of the cell of a row in its i-th column: an instant is
\* measured from now, the rest are as they are.
Measured(kept, row, now, i) ==
    LET n == kept[i].name
        c == Cells(kept, row, now)
    IN  /\ DOMAIN c = {kept[j].name : j \in DOMAIN kept}
        /\ row[n] # None /\ kept[i].timestamp => c[n] = row[n] - now
        /\ ~ (row[n] # None /\ kept[i].timestamp) => c[n] = row[n]
        /\ c[n] \in Cell /\ row[n] \in Cell
        /\ c[n] = None <=> row[n] = None

\* That is what Cells does with every cell.
LEMMA CellsOfRow ==
    ASSUME NEW allowed, NEW t \in Tables, NEW row, IsRow(t, row), NEW now \in Int,
           NEW kept, kept = Kept(allowed, t), NEW i \in 1 .. Len(kept)
    PROVE  Measured(kept, row, now, i)
<1> DEFINE n == kept[i].name
           c == Cells(kept, row, now)
<1>1. kept \in Seq(ColumnsOf(t)) /\ i \in DOMAIN kept
  BY KeptColumns
<1>2. n \in Names(t) /\ kept[i].timestamp \in BOOLEAN
      /\ \A d \in ColumnsOf(t) : d.name = n => d.timestamp = kept[i].timestamp
  BY Zenon, KeptColumn
<1>3. (\E j \in DOMAIN kept : kept[j].name = n /\ kept[j].timestamp) <=> kept[i].timestamp
  <2>1. \A j \in DOMAIN kept : kept[j] \in ColumnsOf(t)
    BY <1>1
  <2> QED BY Zenon, <1>1, <1>2, <2>1
<1>4. row[n] \in Cell
  BY Zenon, <1>2 DEF IsRow, Cell
<1>5. DOMAIN c = {kept[j].name : j \in DOMAIN kept}
  BY Zenon DEF Cells
<1>6. c[n] = IF row[n] # None /\ kept[i].timestamp THEN row[n] - now ELSE row[n]
  BY Zenon, <1>1, <1>3 DEF Cells
<1> HIDE DEF n, c
<1>7. CASE row[n] # None /\ kept[i].timestamp
  <2>1. c[n] = row[n] - now /\ row[n] \in Int
    BY <1>4, <1>6, <1>7 DEF Cell
  <2>2. c[n] \in Int
    BY <2>1
  <2> QED BY Zenon, <1>4, <1>5, <1>6, <1>7, <2>1, <2>2, SchemaAssumption DEF n, c, Cell, Measured
<1>8. CASE ~ (row[n] # None /\ kept[i].timestamp)
  <2>1. c[n] = row[n]
    BY <1>6, <1>8
  <2> QED BY Zenon, <1>4, <1>5, <1>6, <1>8, <2>1 DEF n, c, Measured
<1> QED BY <1>7, <1>8

\* A row of a snapshot has the key its row in the database has.
LEMMA CellsKeepKey ==
    ASSUME NEW allowed, NEW t \in Tables, NEW row, IsRow(t, row), NEW now \in Int,
           NEW kept, kept = Kept(allowed, t)
    PROVE  /\ SortCells(kept, row) = SortCells(kept, Cells(kept, row, now))
           /\ SortCells(kept, row) \in Seq(Cell)
<1> DEFINE c == Cells(kept, row, now)
<1>1. kept \in Seq(ColumnsOf(t))
  BY KeptColumns
<1>2. ASSUME NEW i \in 1 .. Len(kept)
      PROVE  /\ row[kept[i].name] \in Cell /\ c[kept[i].name] \in Cell
             /\ kept[i].timestamp => (row[kept[i].name] = None <=> c[kept[i].name] = None)
             /\ ~ (kept[i].timestamp /\ row[kept[i].name] # None)
                   => row[kept[i].name] = c[kept[i].name]
  <2>1. Measured(kept, row, now, i)
    BY Zenon, CellsOfRow
  <2> QED BY Zenon, <2>1 DEF Measured
<1> HIDE DEF c
<1>3. SortCells(kept, row) = SortCells(kept, c) /\ SortCells(kept, row) \in Seq(Cell)
  BY Zenon, <1>1, <1>2, SameKey
<1> QED BY <1>3 DEF c

\* A database has lists of rows.
IsDatabase(db) == \A t \in Tables : db[t] \in Seq([Names(t) -> Cell])

\* Its tables are lists, and what they hold are rows.
LEMMA DatabaseRow ==
    ASSUME NEW db, IsDatabase(db), NEW t \in Tables
    PROVE  /\ Len(db[t]) \in Nat /\ DOMAIN db[t] = 1 .. Len(db[t])
           /\ \A i \in DOMAIN db[t] : IsRow(t, db[t][i])
<1> DEFINE R == [Names(t) -> Cell]
<1>1. db[t] \in Seq(R)
  BY Zenon DEF IsDatabase
<1> HIDE DEF R
<1>2. Len(db[t]) \in Nat /\ DOMAIN db[t] = 1 .. Len(db[t]) /\ \A i \in DOMAIN db[t] : db[t][i] \in R
  BY <1>1
<1> QED BY Zenon, <1>2 DEF R, IsRow, Cell

\* A snapshot of a table: its rows' cells, in the order of their keys.
ViewOf(kept, list, now, x, n) ==
    /\ DOMAIN x = 1 .. n /\ Len(x) = n
    /\ \A i \in 1 .. n : \E j \in DOMAIN list : x[i] = Cells(kept, list[j], now)
    /\ \A i, j \in 1 .. n : i < j => ~ KeyBefore(SortCells(kept, x[j]), SortCells(kept, x[i]))

\* Every snapshot is one of each table.
LEMMA SnapshotOfTable ==
    ASSUME NEW allowed, NEW db, IsDatabase(db), NEW now \in Int,
           NEW s \in Snapshots(allowed, db, now), NEW t \in Tables,
           NEW kept, kept = Kept(allowed, t)
    PROVE  \E n \in Nat : ViewOf(kept, db[t], now, s[t], n)
<1> DEFINE view(k) == IF k = <<>> THEN {<<>>}
                      ELSE {[i \in 1 .. Len(db[t]) |-> Cells(k, db[t][p[i]], now)] :
                                p \in Sorted(k, db[t])}
<1>1. s[t] \in view(kept)
  <2>1. s[t] \in UNION {view(k) : k \in {Kept(allowed, t)}}
    BY Zenon DEF Snapshots
  <2> HIDE DEF view
  <2> QED BY <2>1
<1>2. CASE s[t] = <<>>
  <2>1. DOMAIN s[t] = 1 .. 0 /\ Len(s[t]) = 0
    BY <1>2
  <2>2. \A i \in 1 .. 0 : FALSE
    OBVIOUS
  <2>3. 0 \in Nat
    OBVIOUS
  <2> QED BY Zenon, <2>1, <2>2, <2>3 DEF ViewOf
<1>3. CASE \E p \in Sorted(kept, db[t]) : s[t] = [i \in 1 .. Len(db[t]) |-> Cells(kept, db[t][p[i]], now)]
  <2> DEFINE n == Len(db[t])
  <2>1. n \in Nat /\ DOMAIN db[t] = 1 .. n
    BY Zenon, DatabaseRow
  <2> HIDE DEF n
  <2>2. PICK p \in Sorted(kept, db[t]) : s[t] = [i \in 1 .. n |-> Cells(kept, db[t][p[i]], now)]
    BY <1>3 DEF n
  <2>3. /\ p \in [1 .. n -> 1 .. n]
        /\ \A i, j \in 1 .. n : i < j => ~ KeyBefore(SortCells(kept, db[t][p[j]]), SortCells(kept, db[t][p[i]]))
    BY Zenon DEF Sorted, n
  <2>4. ASSUME NEW i \in 1 .. n
        PROVE  /\ p[i] \in DOMAIN db[t] /\ s[t][i] = Cells(kept, db[t][p[i]], now)
               /\ SortCells(kept, s[t][i]) = SortCells(kept, db[t][p[i]])
    <3>1. p[i] \in DOMAIN db[t] /\ s[t][i] = Cells(kept, db[t][p[i]], now)
      BY Zenon, <2>1, <2>2, <2>3
    <3>2. IsRow(t, db[t][p[i]])
      BY Zenon, <3>1, DatabaseRow
    <3>3. SortCells(kept, db[t][p[i]]) = SortCells(kept, Cells(kept, db[t][p[i]], now))
      BY SMT, <3>2, CellsKeepKey
    <3> QED BY Zenon, <3>1, <3>3
  <2>5. \A i, j \in 1 .. n : i < j => ~ KeyBefore(SortCells(kept, s[t][j]), SortCells(kept, s[t][i]))
    BY Zenon, <2>3, <2>4
  <2>6. DOMAIN s[t] = 1 .. n
    BY Zenon, <2>2
  <2>7. Len(s[t]) = n
    BY <2>1, <2>2
  <2>8. ASSUME NEW i \in 1 .. n PROVE \E j \in DOMAIN db[t] : s[t][i] = Cells(kept, db[t][j], now)
    BY Zenon, <2>4
  <2> QED BY Zenon, <2>1, <2>5, <2>6, <2>7, <2>8 DEF ViewOf
<1>4. s[t] = <<>> \/ \E p \in Sorted(kept, db[t]) :
                        s[t] = [i \in 1 .. Len(db[t]) |-> Cells(kept, db[t][p[i]], now)]
  BY Zenon, <1>1
<1> QED BY Zenon, <1>2, <1>3, <1>4

\* A row of a snapshot.
Shown(kept, r) ==
    /\ DOMAIN r = {kept[j].name : j \in DOMAIN kept}
    /\ \A i \in 1 .. Len(kept) : r[kept[i].name] \in Cell

\* What Cells makes of a row is one.
LEMMA CellsAreShown ==
    ASSUME NEW allowed, NEW t \in Tables, NEW row, IsRow(t, row), NEW now \in Int,
           NEW kept, kept = Kept(allowed, t)
    PROVE  Shown(kept, Cells(kept, row, now))
<1>1. ASSUME NEW i \in 1 .. Len(kept) PROVE Cells(kept, row, now)[kept[i].name] \in Cell
  <2>1. Measured(kept, row, now, i)
    BY Zenon, CellsOfRow
  <2> QED BY Zenon, <2>1 DEF Measured
<1> QED BY Zenon, <1>1 DEF Shown, Cells

\* A table of a snapshot: n rows, in the order of their keys.
Ordered(kept, x, n) ==
    /\ n \in Nat /\ DOMAIN x = 1 .. n /\ Len(x) = n
    /\ \A i \in 1 .. n : Shown(kept, x[i])
    /\ \A i, j \in 1 .. n : i < j => ~ KeyBefore(SortCells(kept, x[j]), SortCells(kept, x[i]))

\* So is every table of a snapshot.
LEMMA SnapshotOrdered ==
    ASSUME NEW allowed, NEW db, IsDatabase(db), NEW now \in Int,
           NEW s \in Snapshots(allowed, db, now), NEW t \in Tables,
           NEW kept, kept = Kept(allowed, t)
    PROVE  \E n \in Nat : Ordered(kept, s[t], n)
<1>1. PICK n \in Nat : ViewOf(kept, db[t], now, s[t], n)
  BY Zenon, SnapshotOfTable
<1>2. ASSUME NEW i \in 1 .. n PROVE Shown(kept, s[t][i])
  <2>1. PICK j \in DOMAIN db[t] : s[t][i] = Cells(kept, db[t][j], now)
    BY Zenon, <1>1 DEF ViewOf
  <2>2. IsRow(t, db[t][j])
    BY Zenon, DatabaseRow
  <2>3. Shown(kept, Cells(kept, db[t][j], now))
    BY Zenon, <2>2, CellsAreShown
  <2> QED BY Zenon, <2>1, <2>3
<1> QED BY Zenon, <1>1, <1>2 DEF Ordered, ViewOf

\* Rows that are equal have the same key.
LEMMA SameRowSameKey ==
    ASSUME NEW allowed, NEW t \in Tables, NEW kept, kept = Kept(allowed, t),
           NEW r, NEW o, Shown(kept, r), Shown(kept, o), SameRow(t, r, o)
    PROVE  SortCells(kept, r) = SortCells(kept, o)
<1>1. kept \in Seq(ColumnsOf(t))
  BY KeptColumns
<1>2. ASSUME NEW i \in 1 .. Len(kept)
      PROVE  /\ r[kept[i].name] \in Cell /\ o[kept[i].name] \in Cell
             /\ kept[i].timestamp => (r[kept[i].name] = None <=> o[kept[i].name] = None)
             /\ ~ (kept[i].timestamp /\ r[kept[i].name] # None)
                   => r[kept[i].name] = o[kept[i].name]
  <2> DEFINE c == kept[i].name
  <2>1. i \in DOMAIN kept
    BY <1>1
  <2>2. c \in DOMAIN r
    BY Zenon, <2>1 DEF Shown
  <2>3. SameCell(IsTimestamp(t, c), r[c], o[c])
    BY Zenon, <2>2 DEF SameRow
  <2>4. IsTimestamp(t, c) <=> kept[i].timestamp
    BY Zenon, KeptColumn
  <2>5. r[c] \in Cell /\ o[c] \in Cell
    BY Zenon DEF Shown
  <2> HIDE DEF c
  <2>6. r[c] = o[c] \/ (kept[i].timestamp /\ r[c] # None /\ o[c] # None)
    BY Zenon, <2>3, <2>4 DEF SameCell
  <2> QED BY Zenon, <2>5, <2>6 DEF c
<1> QED BY Zenon, <1>1, <1>2, SameKey

\* The comparison of one table.
TableParity(t, s, o) == Len(s) = Len(o) /\ \A i \in 1 .. Len(s) : SameRow(t, s[i], o[i])

\* Row by row in key order, two tables are found equal only if their rows
\* correspond; and whenever they do, if no two keys are equal.
LEMMA TableIsExact ==
    ASSUME NEW t \in Tables, NEW s, NEW o, NEW n \in Nat, NEW m \in Nat,
           Ordered(Kept(permitted, t), s, n), Ordered(Kept(permitted, t), o, m)
    PROVE  /\ TableParity(t, s, o) => Correspond(t, s, o)
           /\ KeysDistinct(t, s) /\ Correspond(t, s, o) => TableParity(t, s, o)
<1> DEFINE kept == Kept(permitted, t)
<1>1. /\ DOMAIN s = 1 .. n /\ Len(s) = n /\ DOMAIN o = 1 .. m /\ Len(o) = m
      /\ \A i \in 1 .. n : Shown(kept, s[i])
      /\ \A i \in 1 .. m : Shown(kept, o[i])
      /\ \A i, j \in 1 .. n : i < j => ~ KeyBefore(SortCells(kept, s[j]), SortCells(kept, s[i]))
      /\ \A i, j \in 1 .. m : i < j => ~ KeyBefore(SortCells(kept, o[j]), SortCells(kept, o[i]))
  BY Zenon DEF Ordered
<1>2. ASSUME NEW i \in 1 .. n PROVE SortCells(kept, s[i]) \in Seq(Cell)
  <2>1. kept \in Seq(ColumnsOf(t))
    BY KeptColumns
  <2>2. \A j \in 1 .. Len(kept) : s[i][kept[j].name] \in Cell
    BY Zenon, <1>1 DEF Shown
  <2> HIDE DEF kept
  <2> QED BY Zenon, <2>1, <2>2, SameKey
<1>3. ASSUME TableParity(t, s, o) PROVE Correspond(t, s, o)
  <2> DEFINE f == [i \in 1 .. n |-> i]
  <2>1. n = m
    BY <1>1, <1>3 DEF TableParity
  <2>2. f \in [DOMAIN s -> DOMAIN o] /\ \A i \in 1 .. n : f[i] = i
    BY Zenon, <1>1, <2>1
  <2> HIDE DEF f
  <2>3. \A i \in DOMAIN s : SameRow(t, s[i], o[f[i]])
    BY Zenon, <1>1, <1>3, <2>2 DEF TableParity
  <2>4. /\ \A j \in DOMAIN o : \E i \in DOMAIN s : f[i] = j
        /\ \A i, j \in DOMAIN s : f[i] = f[j] => i = j
    BY Zenon, <1>1, <2>1, <2>2
  <2> QED BY Zenon, <2>2, <2>3, <2>4 DEF Correspond
<1>4. ASSUME KeysDistinct(t, s), Correspond(t, s, o) PROVE TableParity(t, s, o)
  <2>1. PICK f \in [1 .. n -> 1 .. m] :
            /\ \A j \in 1 .. m : \E i \in 1 .. n : f[i] = j
            /\ \A i, j \in 1 .. n : f[i] = f[j] => i = j
            /\ \A i \in 1 .. n : SameRow(t, s[i], o[f[i]])
    BY Zenon, <1>1, <1>4 DEF Correspond
  <2>2. ASSUME NEW i \in 1 .. n
        PROVE  f[i] \in 1 .. m /\ SortCells(kept, o[f[i]]) = SortCells(kept, s[i])
    <3>1. f[i] \in 1 .. m
      BY Zenon
    <3>2. Shown(kept, s[i]) /\ Shown(kept, o[f[i]]) /\ SameRow(t, s[i], o[f[i]])
      BY Zenon, <1>1, <2>1, <3>1
    <3>3. kept = Kept(permitted, t)
      OBVIOUS
    <3> HIDE DEF kept
    <3>4. SortCells(kept, s[i]) = SortCells(kept, o[f[i]])
      BY <3>2, <3>3, SameRowSameKey
    <3> QED BY Zenon, <3>1, <3>4
  <2>3. ASSUME NEW i \in 1 .. n, NEW j \in 1 .. n, i < j PROVE f[i] < f[j]
    <3>1. SortCells(kept, s[i]) # SortCells(kept, s[j])
      <4>1. i # j
        BY <2>3
      <4> QED BY Zenon, <1>1, <1>4, <4>1 DEF KeysDistinct
    <3>2. ~ KeyBefore(SortCells(kept, s[j]), SortCells(kept, s[i]))
      BY Zenon, <1>1, <2>3
    <3>3. KeyBefore(SortCells(kept, s[i]), SortCells(kept, s[j]))
      <4>1. SortCells(kept, s[i]) \in Seq(Cell) /\ SortCells(kept, s[j]) \in Seq(Cell)
        BY Zenon, <1>2
      <4> HIDE DEF kept
      <4> QED BY Zenon, <3>1, <3>2, <4>1, KeyTotal
    <3>4. KeyBefore(SortCells(kept, o[f[i]]), SortCells(kept, o[f[j]]))
      BY Zenon, <2>2, <3>3
    <3>5. ~ (f[j] < f[i])
      BY Zenon, <1>1, <2>2, <3>4
    <3>6. f[i] # f[j]
      BY <2>1, <2>3
    <3>7. f[i] \in Nat /\ f[j] \in Nat
      BY <2>2
    <3> QED BY <3>5, <3>6, <3>7
  <2>4. n = m /\ \A i \in 1 .. n : f[i] = i
    <3>1. Growing(f, n, m)
      BY Zenon, <2>1, <2>3 DEF Growing
    <3> QED BY Zenon, <3>1, GrowingIsIdentity
  <2> QED BY Zenon, <1>1, <2>1, <2>4 DEF TableParity
<1> QED BY Zenon, <1>3, <1>4

\* Snapshots of two databases, whenever they were taken.
LEMMA SnapshotsAreExact ==
    ASSUME NEW s, NEW o,
           \A t \in Tables : \E n \in Nat : Ordered(Kept(permitted, t), s[t], n),
           \A t \in Tables : \E n \in Nat : Ordered(Kept(permitted, t), o[t], n)
    PROVE  /\ SnapshotParity(s, o) => \A t \in Tables : Correspond(t, s[t], o[t])
           /\ (\A t \in Tables : KeysDistinct(t, s[t]) /\ Correspond(t, s[t], o[t]))
              => SnapshotParity(s, o)
<1>1. SnapshotParity(s, o) <=> \A t \in Tables : TableParity(t, s[t], o[t])
  BY Zenon DEF SnapshotParity, TableParity
<1>2. ASSUME NEW t \in Tables
      PROVE  /\ TableParity(t, s[t], o[t]) => Correspond(t, s[t], o[t])
             /\ KeysDistinct(t, s[t]) /\ Correspond(t, s[t], o[t]) => TableParity(t, s[t], o[t])
  <2>1. PICK n \in Nat : Ordered(Kept(permitted, t), s[t], n)
    BY Zenon
  <2>2. PICK m \in Nat : Ordered(Kept(permitted, t), o[t], m)
    BY Zenon
  <2> QED BY Zenon, <2>1, <2>2, TableIsExact
<1> QED BY Zenon, <1>1, <1>2

-----------------------------------------------------------------------------
(***************************************************************************)
(* Twins: an answer, and the same answer given later.                      *)
(***************************************************************************)

\* A moved instant is one, and as much of one.
LEMMA MovedInstant ==
    ASSUME NEW at, IsInstant(at), NEW d \in Int
    PROVE  /\ at \in Int => Moved(at, d) = at + d /\ Moved(at, d) \in Int
           /\ at \notin Int => Moved(at, d) = at
           /\ Moved(at, d) = None <=> at = None
           /\ Moved(at, d) = Garbled <=> at = Garbled
<1>1. CASE at \in Int
  <2>1. at # None /\ at # Garbled
    BY Zenon, <1>1, SchemaAssumption
  <2>2. Moved(at, d) = at + d
    BY Zenon, <2>1 DEF Moved
  <2>3. Moved(at, d) \in Int
    BY <1>1, <2>2
  <2> QED BY Zenon, <1>1, <2>1, <2>2, <2>3, SchemaAssumption
<1>2. CASE at \in {None, Garbled}
  BY Zenon, <1>2, SchemaAssumption DEF Moved
<1> QED BY Zenon, <1>1, <1>2 DEF IsInstant

\* Where an expiry stands does not depend on when it is told.
LEMMA ExpiryMoves ==
    ASSUME NEW c, NEW k, NEW date, NEW late, NEW d \in Int,
           IsInstant(c.expires), k.expires = Moved(c.expires, d),
           date \in Int \cup {None}, late = Moved(date, d)
    PROVE  expiresRelation(k, late) = expiresRelation(c, date)
<1> DEFINE x == c.expires
           y == k.expires
<1>0. IsInstant(x) /\ IsInstant(date) /\ y = Moved(x, d)
  BY Zenon DEF IsInstant
<1> HIDE DEF x, y
<1>1. /\ x \in Int => y = x + d /\ y \in Int
      /\ x \notin Int => y = x
      /\ y = None <=> x = None
      /\ y = Garbled <=> x = Garbled
  BY Zenon, <1>0, MovedInstant
<1>2. /\ date \in Int => late = date + d /\ late \in Int
      /\ date \notin Int => late = date
      /\ late = None <=> date = None
  BY Zenon, <1>0, MovedInstant
<1>3. CASE x = None
  BY Zenon, <1>1, <1>3, SchemaAssumption DEF expiresRelation, x, y
<1>4. CASE x = Garbled
  <2>1. x # None
    BY Zenon, <1>4, SchemaAssumption
  <2> QED BY Zenon, <1>1, <1>4, <2>1 DEF expiresRelation, x, y
<1>5. CASE x \in Int
  <2>1. x \notin {None, Garbled} /\ y \notin {None, Garbled}
    BY Zenon, <1>1, <1>5, SchemaAssumption
  <2>2. /\ expiresRelation(c, date) =
              IF date = None THEN [class |-> "error", ahead |-> 0]
              ELSE IF x <= date THEN [class |-> "past", ahead |-> 0]
              ELSE [class |-> "future", ahead |-> x - date]
        /\ expiresRelation(k, late) =
              IF late = None THEN [class |-> "error", ahead |-> 0]
              ELSE IF y <= late THEN [class |-> "past", ahead |-> 0]
              ELSE [class |-> "future", ahead |-> y - late]
    BY Zenon, <2>1 DEF expiresRelation, x, y
  <2>3. CASE date = None
    BY Zenon, <1>2, <2>2, <2>3
  <2>4. CASE date \in Int /\ date # None
    <3>1. (y <= late <=> x <= date) /\ y - late = x - date
      BY <1>1, <1>2, <1>5, <2>4
    <3> QED BY Zenon, <1>2, <2>2, <2>4, <3>1
  <2> QED BY Zenon, <2>3, <2>4
<1> QED BY Zenon, <1>0, <1>3, <1>4, <1>5 DEF IsInstant

\* An answer and the same answer later.
Twins(a, k, d) ==
    /\ k.status = a.status /\ k.body = a.body
    /\ DOMAIN k.headers = DOMAIN a.headers
    /\ \A n \in DOMAIN a.headers : n # "date" => k.headers[n] = a.headers[n]
    /\ DateOf(a) \in Int \cup {None} /\ DateOf(k) = Moved(DateOf(a), d)
    /\ IsList(k.cookies) /\ DOMAIN k.cookies = DOMAIN a.cookies
    /\ \A i \in DOMAIN a.cookies :
           /\ k.cookies[i].name = a.cookies[i].name
           /\ k.cookies[i].value = a.cookies[i].value
           /\ k.cookies[i].attrs = a.cookies[i].attrs
           /\ k.cookies[i].expires = Moved(a.cookies[i].expires, d)

\* Later gives a twin.
LEMMA LaterIsTwin ==
    ASSUME NEW a, IsAnswer(a), NEW d \in Int
    PROVE  Twins(a, Later(a, d), d)
<1> DEFINE H == [n \in DOMAIN a.headers |->
                    IF n = "date" THEN <<Moved(a.headers[n][1], d)>> ELSE a.headers[n]]
           K == [i \in DOMAIN a.cookies |-> [a.cookies[i] EXCEPT !.expires = Moved(@, d)]]
           k == Later(a, d)
<1>1. k = [a EXCEPT !.headers = H, !.cookies = K]
  BY Zenon DEF Later
<1>2. DOMAIN a = {"status", "headers", "cookies", "body"}
  BY Zenon DEF IsAnswer
<1> HIDE DEF k, H, K
<1>3. k.status = a.status /\ k.body = a.body /\ k.headers = H /\ k.cookies = K
  BY <1>1, <1>2
<1>4. DOMAIN H = DOMAIN a.headers /\ \A n \in DOMAIN a.headers : n # "date" => H[n] = a.headers[n]
  BY Zenon DEF H
<1>5. DOMAIN K = DOMAIN a.cookies /\ IsList(K)
  <2> DEFINE n == Len(a.cookies)
             C == {K[i] : i \in DOMAIN K}
  <2>1. n \in Nat /\ DOMAIN a.cookies = 1 .. n
    BY DEF IsAnswer, IsList
  <2>2. DOMAIN K = DOMAIN a.cookies /\ K = [i \in DOMAIN K |-> K[i]]
    BY Zenon DEF K
  <2>3. K \in [1 .. n -> C]
    BY Zenon, <2>1, <2>2
  <2> HIDE DEF n, C
  <2>4. K \in Seq(C)
    BY <2>1, <2>3
  <2> QED BY Zenon, <2>2, <2>4 DEF IsList, C
<1>6. ASSUME NEW i \in DOMAIN a.cookies
      PROVE  /\ K[i].name = a.cookies[i].name /\ K[i].value = a.cookies[i].value
             /\ K[i].attrs = a.cookies[i].attrs
             /\ K[i].expires = Moved(a.cookies[i].expires, d)
  <2> DEFINE c == a.cookies[i]
  <2>1. DOMAIN c = {"name", "value", "attrs", "expires"}
    BY Zenon DEF IsAnswer
  <2>2. K[i] = [c EXCEPT !.expires = Moved(c.expires, d)]
    BY Zenon DEF K
  <2> HIDE DEF c
  <2>3. K[i].name = c.name /\ K[i].value = c.value /\ K[i].attrs = c.attrs
        /\ K[i].expires = Moved(c.expires, d)
    BY <2>1, <2>2
  <2> QED BY Zenon, <2>3 DEF c
<1>7. DateOf(a) \in Int \cup {None} /\ DateOf(k) = Moved(DateOf(a), d)
  <2>1. CASE "date" \notin DOMAIN a.headers
    BY Zenon, <1>3, <1>4, <2>1 DEF DateOf, Moved
  <2>2. CASE "date" \in DOMAIN a.headers
    <3> DEFINE at == a.headers["date"][1]
               later == H["date"][1]
    <3>1. at \in Int \cup {Garbled}
      BY Zenon, <2>2 DEF IsAnswer
    <3>2. H["date"] = <<Moved(at, d)>>
      BY Zenon, <2>2 DEF H
    <3> HIDE DEF at
    <3>3. later = Moved(at, d)
      BY <3>2
    <3>4. DateOf(a) = IF at = Garbled THEN None ELSE at
      BY Zenon, <2>2 DEF DateOf, at
    <3>5. DateOf(k) = IF later = Garbled THEN None ELSE later
      BY Zenon, <1>3, <1>4, <2>2 DEF DateOf
    <3> HIDE DEF later
    <3>6. later = Garbled <=> at = Garbled
      BY Zenon, <3>1, <3>3, MovedInstant DEF IsInstant
    <3>7. Moved(None, d) = None
      BY Zenon DEF Moved
    <3>8. DateOf(a) \in Int \cup {None}
      BY Zenon, <3>1, <3>4
    <3> QED BY Zenon, <3>3, <3>4, <3>5, <3>6, <3>7, <3>8
  <2> QED BY Zenon, <2>1, <2>2
<1> QED BY Zenon, <1>3, <1>4, <1>5, <1>6, <1>7 DEF Twins, k

\* Cookies of a name: as many, and from the same places.
Paired(cookies, others, n) ==
    /\ Len(Named(cookies, n)) = Len(Named(others, n))
    /\ \A i \in 1 .. Len(Named(cookies, n)) :
           \E j \in DOMAIN cookies :
               Named(cookies, n)[i] = cookies[j] /\ Named(others, n)[i] = others[j]

\* So are the cookies of twins.
LEMMA TwinCookies ==
    ASSUME NEW a, IsAnswer(a), NEW k, NEW d \in Int, Twins(a, k, d), NEW n
    PROVE  Paired(a.cookies, k.cookies, n)
<1> DEFINE s == a.cookies
           r == k.cookies
           S == {s[i] : i \in DOMAIN s}
           R == {r[i] : i \in DOMAIN r}
           I == {i \in DOMAIN s : s[i].name = n}
           J == {i \in DOMAIN r : r[i].name = n}
<1>1. s \in Seq(S)
  BY Zenon DEF IsAnswer, IsList
<1>2. I = J
  BY Zenon DEF Twins
<1>3. Named(s, n) = Selected(s, I) /\ Named(r, n) = Selected(r, I)
  BY Zenon, <1>2 DEF Named
<1>4. r \in Seq(R) /\ DOMAIN r = DOMAIN s
  BY Zenon DEF Twins, IsList
<1> HIDE DEF s, r, S, R, I, J
<1>5. Len(s) = Len(r) /\ DOMAIN s = 1 .. Len(s)
  BY <1>1, <1>4
<1>6. /\ Len(Selected(s, I)) = Len(Selected(r, I))
      /\ \A i \in 1 .. Len(Selected(s, I)) :
            \E j \in 1 .. Len(s) : j \in I /\ Selected(s, I)[i] = s[j] /\ Selected(r, I)[i] = r[j]
  <2>1. Together(S, s, R, r, I)
    BY Zenon, <1>1, <1>4, <1>5, SelectedTogether
  <2> QED BY Zenon, <2>1 DEF Together
<1>7. Paired(s, r, n)
  BY Zenon, <1>3, <1>5, <1>6 DEF Paired
<1> QED BY Zenon, <1>7 DEF s, r

\* A cookie and its twin have the same expiry to show.
LEMMA TwinExpiry ==
    ASSUME NEW a, IsAnswer(a), NEW k, NEW d \in Int, Twins(a, k, d), NEW i \in DOMAIN a.cookies
    PROVE  expiresRelation(k.cookies[i], DateOf(k)) = expiresRelation(a.cookies[i], DateOf(a))
<1>1. IsInstant(a.cookies[i].expires)
  BY Zenon DEF IsAnswer
<1>2. /\ k.cookies[i].expires = Moved(a.cookies[i].expires, d)
      /\ DateOf(a) \in Int \cup {None} /\ DateOf(k) = Moved(DateOf(a), d)
  BY Zenon DEF Twins
<1> QED BY <1>1, <1>2, ExpiryMoves

\* So the two are the same cookie, as far as parity goes.
LEMMA TwinCookie ==
    ASSUME NEW a, IsAnswer(a), NEW k, NEW d \in Int, Twins(a, k, d), Measurable(a),
           NEW i \in DOMAIN a.cookies
    PROVE  SameCookie(a.cookies[i], k.cookies[i], DateOf(a), DateOf(k))
<1> DEFINE c == a.cookies[i]
           t == k.cookies[i]
           r == expiresRelation(c, DateOf(a))
<1>1. expiresRelation(t, DateOf(k)) = r
  BY Zenon, TwinExpiry
<1>2. t.value = c.value /\ t.attrs = c.attrs /\ t.expires = Moved(c.expires, d)
  BY Zenon DEF Twins
<1>3. IsInstant(c.expires) /\ DateOf(a) \in Int \cup {None}
  BY Zenon DEF IsAnswer, Twins
<1>4. c.expires = None \/ (c.expires # Garbled /\ DateOf(a) # None)
  BY Zenon DEF Measurable
<1>5. t.expires = None <=> c.expires = None
  BY ZenonT(40), <1>2, <1>3, MovedInstant
<1> HIDE DEF c, t
<1>6. r.class # "error" /\ r.ahead \in Int
  <2>1. CASE c.expires = None
    <3>1. r = [class |-> "absent", ahead |-> 0]
      BY Zenon, <2>1, SchemaAssumption DEF expiresRelation
    <3> HIDE DEF r
    <3> QED BY <3>1
  <2>2. CASE c.expires # None
    <3> DEFINE x == c.expires
               date == DateOf(a)
    <3>1. x \in Int /\ date \in Int /\ x \notin {None, Garbled} /\ date # None
      BY Zenon, <1>3, <1>4, <2>2 DEF IsInstant
    <3>2. r = IF x <= date THEN [class |-> "past", ahead |-> 0]
              ELSE [class |-> "future", ahead |-> x - date]
      BY Zenon, <3>1 DEF expiresRelation
    <3> HIDE DEF r, x, date
    <3> QED BY <3>1, <3>2
  <2> QED BY <2>1, <2>2
<1> HIDE DEF r
<1>7. Within(r.ahead - r.ahead, ExpiresTolerance)
  BY <1>6 DEF Within, ExpiresTolerance
<1>8. /\ Len(c.value) = Len(t.value) /\ c.attrs = t.attrs
      /\ (c.expires = None) = (t.expires = None)
  BY Zenon, <1>2, <1>5
<1>9. "error" \notin {r.class, r.class} /\ r.class = r.class
  BY Zenon, <1>6
<1>10. r = expiresRelation(c, DateOf(a))
  BY Zenon DEF r
<1>11. SameCookie(c, t, DateOf(a), DateOf(k))
  BY Zenon, <1>1, <1>7, <1>8, <1>9, <1>10 DEF SameCookie
<1> QED BY Zenon, <1>11 DEF c, t

\* Twins are not told apart.
LEMMA TwinParity ==
    ASSUME NEW a, IsAnswer(a), NEW k, NEW d \in Int, Twins(a, k, d), Measurable(a),
           NEW c, NEW allowed, Allows(allowed, "date")
    PROVE  assertParity(c, allowed, a, k)
<1>1. k.status = a.status /\ k.body = a.body /\ DOMAIN k.headers = DOMAIN a.headers
      /\ DOMAIN k.cookies = DOMAIN a.cookies
  BY Zenon DEF Twins
<1>2. ASSUME NEW n \in DOMAIN a.headers \cup DOMAIN k.headers
      PROVE  AllowsHeader(allowed, c, n) \/ SameHeader(a, k, n)
  <2>1. CASE n = "date"
    BY Zenon, <2>1 DEF AllowsHeader
  <2>2. CASE n # "date"
    BY Zenon, <1>1, <2>2 DEF SameHeader, Lookup, Twins
  <2> QED BY Zenon, <2>1, <2>2
<1>3. CookiesParse(a) /\ CookiesParse(k)
  BY Zenon, <1>1 DEF Measurable, CookiesParse, Twins
<1>4. CookieParity(a.cookies, k.cookies, DateOf(a), DateOf(k))
  <2>1. ASSUME NEW n
        PROVE  /\ Len(Named(a.cookies, n)) = Len(Named(k.cookies, n))
               /\ \A i \in 1 .. Len(Named(a.cookies, n)) :
                     SameCookie(Named(a.cookies, n)[i], Named(k.cookies, n)[i], DateOf(a), DateOf(k))
    <3>1. Paired(a.cookies, k.cookies, n)
      BY Zenon, TwinCookies
    <3>2. \A j \in DOMAIN a.cookies : SameCookie(a.cookies[j], k.cookies[j], DateOf(a), DateOf(k))
      BY Zenon, TwinCookie
    <3> QED BY Zenon, <3>1, <3>2 DEF Paired
  <2> QED BY Zenon, <2>1 DEF CookieParity
<1>5. equalBodies(a.body, k.body)
  BY Zenon, <1>1 DEF equalBodies
<1> QED BY Zenon, <1>1, <1>2, <1>3, <1>4, <1>5 DEF assertParity

\* And meet a case together.
LEMMA TwinExpected ==
    ASSUME NEW a, IsAnswer(a), NEW k, NEW d \in Int, Twins(a, k, d),
           NEW c, c.expect.statusByBackend = None, "date" \notin DOMAIN c.expect.headers
    PROVE  assertExpected(c, a, "go") <=> assertExpected(c, k, "kotlin")
<1>1. k.status = a.status /\ k.body = a.body /\ DOMAIN k.headers = DOMAIN a.headers
      /\ DOMAIN k.cookies = DOMAIN a.cookies
  BY Zenon DEF Twins
<1>2. StatusFor(c.expect, "go") = StatusFor(c.expect, "kotlin")
  BY Zenon DEF StatusFor
<1>3. ASSUME NEW n \in DOMAIN c.expect.headers PROVE Get(k.headers, n) = Get(a.headers, n)
  <2>1. n # "date"
    BY Zenon
  <2> QED BY Zenon, <1>1, <2>1 DEF Get, Twins
<1>4. assertCookies(c, a) <=> assertCookies(c, k)
  <2>1. CookiesParse(a) <=> CookiesParse(k)
    BY Zenon, <1>1 DEF CookiesParse, Twins
  <2>2. ASSUME NEW i \in DOMAIN a.cookies, NEW want
        PROVE  /\ k.cookies[i].name = a.cookies[i].name
               /\ CheckCookie(a.cookies[i], want, DateOf(a)) <=> CheckCookie(k.cookies[i], want, DateOf(k))
    <3>1. /\ k.cookies[i].name = a.cookies[i].name
          /\ k.cookies[i].value = a.cookies[i].value
          /\ k.cookies[i].attrs = a.cookies[i].attrs
      BY Zenon DEF Twins
    <3>2. expiresRelation(k.cookies[i], DateOf(k)) = expiresRelation(a.cookies[i], DateOf(a))
      BY Zenon, TwinExpiry
    <3> QED BY Zenon, <3>1, <3>2 DEF CheckCookie
  <2>3. \A n : Len(Named(a.cookies, n)) = Len(Named(k.cookies, n))
    <3>1. \A n : Paired(a.cookies, k.cookies, n)
      BY Zenon, TwinCookies
    <3> QED BY Zenon, <3>1 DEF Paired
  <2> QED BY Zenon, <1>1, <2>1, <2>2, <2>3 DEF assertCookies
<1>5. (\A n \in DOMAIN c.expect.headers : Get(a.headers, n) = c.expect.headers[n])
      <=> (\A n \in DOMAIN c.expect.headers : Get(k.headers, n) = c.expect.headers[n])
  BY Zenon, <1>3
<1> QED BY Zenon, <1>1, <1>2, <1>4, <1>5 DEF assertExpected

-----------------------------------------------------------------------------
(***************************************************************************)
(* The run.                                                                *)
(***************************************************************************)

Types ==
    /\ suite \in Suites /\ caseNo \in 1 .. Len(cases)
    /\ b \in Backends /\ step \in Nat \ {0}
    /\ judged \in Nat
    /\ opened \subseteq Backends /\ accepting \subseteq Backends
    /\ kills \in Nat /\ requestFaults \in Nat /\ databaseFaults \in Nat
    /\ pc = "given" => step \in DOMAIN theCase.given
    /\ deferred => step > 1 /\ HasOutage(theCase)

\* Where a database may refuse connections.
Refusing ==
    databaseFaults = 0 =>
        \A n \in Backends \ accepting :
            \/ deferred /\ n = b /\ pc \in {"given", "request", "restore"}
            \/ n \notin opened /\ pc \in {"load", "open", "done", "dead"}

\* Where a pool may be broken, while nothing has failed.
Broken ==
    requestFaults + databaseFaults + kills = 0 /\ OneProfile =>
        \A p \in recovering :
            p = Pool /\ deferred /\ pc \in {"given", "request", "restore", "health"}

\* What a run has to show for the cases behind it.
Counted ==
    /\ pc # "done" /\ ~ failed => judged = caseNo - 1
    /\ outcome = "pass" => judged = Len(cases)
    /\ pc # "done" => outcome # "pass"
    /\ outcome = "skip" => ~ suite.required
    /\ pc \notin {"load", "done", "dead"} => Accepted(cases, suite.entries)

\* Go's answer to its same_as request is there once Kotlin's turn has come.
Answered ==
    /\ DOMAIN runs = Backends
    /\ \A n \in Backends : "ref" \in DOMAIN runs[n]
    /\ pc = "judge" => b = "kotlin"
    /\ b = "kotlin" /\ SameAsRequest(theCase.expect, "go") # None => runs["go"].ref # None

\* The inductive invariant.
IndInv == Types /\ Refusing /\ Broken /\ Counted /\ Answered

-----------------------------------------------------------------------------

\* The initial states satisfy the invariant.
LEMMA InitIndInv == Init => IndInv
<1> SUFFICES ASSUME Init PROVE IndInv
    OBVIOUS
<1>1. Types
    BY SuitesAssumption DEF IsList, Init, Types, Backends, cases
<1>2. Refusing /\ Broken
    BY DEF Init, Refusing, Broken
<1>3. Counted
    BY SuitesAssumption DEF Init, Counted
<1>4. Answered
    BY DEF Init, Answered, NoRuns, NoRun, Backends
<1> QED
    BY <1>1, <1>2, <1>3, <1>4 DEF IndInv

\* A case has a list of steps.
LEMMA GivenSteps ==
    ASSUME Types
    PROVE  Len(theCase.given) \in Nat /\ DOMAIN theCase.given = 1 .. Len(theCase.given)
  BY SuitesAssumption DEF Types, IsList, theCase, cases

\* What the next case, or the end of the run, finds.
MovesOn ==
    /\ caseNo' \in 1 .. Len(cases') /\ b' = "go" /\ step' = 1
    /\ deferred' = FALSE /\ judged' \in Nat /\ opened' = opened
    /\ pc' \in {"reset", "done"} /\ runs' = NoRuns

\* A case that is given up moves on.
LEMMA AbortMoves ==
    ASSUME Types, Abort, suite' = suite
    PROVE  MovesOn /\ accepting' \subseteq Backends
  BY SuitesAssumption DEF IsList, Types, Abort, NextCase, LastCase, cases, MovesOn

\* So does one that is judged.
LEMMA JudgeMoves ==
    ASSUME Types, Judge
    PROVE  MovesOn
  BY SuitesAssumption DEF IsList, Types, Judge, NextCase, LastCase, cases, MovesOn

\* So does one whose outage could not be made.
LEMMA FailedOutageMoves ==
    ASSUME Types, NextCase(FALSE), suite' = suite
    PROVE  MovesOn
  BY SuitesAssumption DEF IsList, Types, NextCase, LastCase, cases, MovesOn

\* Every step leaves the state well typed.
LEMMA TypesStep ==
    ASSUME IndInv, [Next]_vars
    PROVE  Types'
<1> USE DEF IndInv
<1>1. suite' = suite
    BY Zenon DEF Next, Run, vars, LoadSuite, OpenDB, WaitReady, Reset, RunStep, DoRequest, EndOutage,
           AwaitHealth, Inspect, AskSameAs, Judge, Recover, Kill, Restart, Stay
<1>2. CASE LoadSuite
    BY <1>1, <1>2 DEF LoadSuite, End, Idle, Types, databases, counters, theCase, cases
<1>3. ASSUME NEW n \in Backends, OpenDB(n)
      PROVE  Types'
    BY SMTT(30), <1>1, <1>3 DEF OpenDB, End, Unreachable, DatabaseFails, Types, databases, counters, theCase, cases
<1>4. CASE WaitReady
    BY SMTT(30), <1>1, <1>4 DEF WaitReady, End, Unreachable, Idle, RequestFails, Types, databases, counters,
                      theCase, cases
<1>5. CASE Reset
  <2>1. CASE Abort /\ DatabaseFails
    <3>1. MovesOn /\ accepting' \subseteq Backends
      BY <1>1, <2>1, AbortMoves
    <3> QED
      BY <1>1, <2>1, <3>1 DEF MovesOn, Types, Backends, DatabaseFails
  <2>2. CASE Goto(Given) /\ step' = 1 /\ deferred' = FALSE /\ UNCHANGED <<accepting, counters>>
    BY <1>1, <2>2, GivenSteps DEF Given, Goto, Types, counters, theCase, cases
  <2> QED
    BY Zenon, <1>5, <2>1, <2>2 DEF Reset
<1>6. CASE RunStep
  <2>1. CASE Abort /\ (DatabaseFails \/ RequestFails)
    <3>1. MovesOn /\ accepting' \subseteq Backends
      BY <1>1, <2>1, AbortMoves
    <3> QED
      BY SMTT(30), <1>1, <2>1, <3>1 DEF MovesOn, Types, Backends, DatabaseFails, RequestFails
  <2>2. CASE theCase.given[step].outage /\ Outage
    <3>1. CASE deferred' = TRUE
      <4>1. AfterStep /\ UNCHANGED counters /\ accepting' \subseteq accepting
        BY <2>2, <3>1 DEF Outage, NextCase
      <4>2. step \in DOMAIN theCase.given /\ HasOutage(theCase)
        BY <1>6, <2>2 DEF RunStep, Types, HasOutage
      <4> QED
        BY SMTT(30), <1>1, <4>1, <4>2, GivenSteps DEF AfterStep, Goto, Types, counters, theCase, cases
    <3>2. CASE MovesOn /\ DatabaseFails /\ accepting' \subseteq accepting
      BY <1>1, <3>2 DEF MovesOn, DatabaseFails, Types, Backends
    <3> QED
      BY Zenon, <1>1, <2>2, <3>1, <3>2, FailedOutageMoves DEF Outage
  <2>3. CASE AfterStep /\ UNCHANGED <<deferred, accepting, counters>>
    BY <1>1, <2>3, GivenSteps DEF AfterStep, Goto, Types, counters, theCase, cases
  <2> QED
    BY <1>6, <2>1, <2>2, <2>3 DEF RunStep
<1>7. CASE DoRequest
  <2>1. CASE Abort /\ RequestFails
    <3>1. MovesOn /\ accepting' \subseteq Backends
      BY <1>1, <2>1, AbortMoves
    <3> QED
      BY <1>1, <2>1, <3>1 DEF MovesOn, Types, Backends, RequestFails
  <2>2. CASE Goto("restore") /\ UNCHANGED <<step, deferred, accepting, counters>>
    BY <1>1, <2>2 DEF Goto, Types, counters, theCase, cases
  <2> QED
    BY <1>7, <2>1, <2>2 DEF DoRequest
<1>8. CASE EndOutage
  <2>1. CASE Abort /\ DatabaseFails
    <3>1. MovesOn /\ accepting' \subseteq Backends
      BY <1>1, <2>1, AbortMoves
    <3> QED
      BY <1>1, <2>1, <3>1 DEF MovesOn, Types, Backends, DatabaseFails
  <2>2. CASE /\ accepting' = accepting \cup {b} /\ UNCHANGED <<step, deferred, counters>>
            /\ Goto(IF HasOutage(theCase) THEN "health" ELSE "inspect")
    BY <1>1, <2>2 DEF Goto, Types, counters, theCase, cases
  <2> QED
    BY <1>8, <2>1, <2>2 DEF EndOutage
<1>9. CASE AwaitHealth
  <2>1. CASE Abort /\ RequestFails
    <3>1. MovesOn /\ accepting' \subseteq Backends
      BY <1>1, <2>1, AbortMoves
    <3> QED
      BY <1>1, <2>1, <3>1 DEF MovesOn, Types, Backends, RequestFails
  <2>2. CASE Goto("inspect") /\ UNCHANGED <<step, deferred, accepting, counters>>
    BY <1>1, <2>2 DEF Goto, Types, counters, theCase, cases
  <2> QED
    BY <1>9, <2>1, <2>2 DEF AwaitHealth
<1>10. CASE Inspect
  <2>1. CASE Abort /\ (DatabaseFails \/ UNCHANGED counters)
    <3>1. MovesOn /\ accepting' \subseteq Backends
      BY <1>1, <2>1, AbortMoves
    <3> QED
      BY <1>1, <2>1, <3>1 DEF MovesOn, Types, Backends, DatabaseFails, counters
  <2>2. CASE Goto("sameAs") /\ UNCHANGED <<step, deferred, accepting, counters>>
    BY <1>1, <2>2 DEF Goto, Types, counters, theCase, cases
  <2> QED
    BY <1>10, <2>1, <2>2 DEF Inspect
<1>11. CASE AskSameAs
  <2>1. CASE Abort /\ RequestFails
    <3>1. MovesOn /\ accepting' \subseteq Backends
      BY <1>1, <2>1, AbortMoves
    <3> QED
      BY <1>1, <2>1, <3>1 DEF MovesOn, Types, Backends, RequestFails
  <2>2. CASE EndRun /\ UNCHANGED counters
    BY <1>1, <2>2 DEF EndRun, Types, counters, theCase, cases, Backends
  <2> QED
    BY <1>11, <2>1, <2>2 DEF AskSameAs
<1>12. CASE Judge
  <2>1. MovesOn
    BY <1>12, JudgeMoves
  <2> QED
    BY <1>1, <1>12, <2>1 DEF MovesOn, Judge, Types, databases, counters, Backends
<1>13. ASSUME NEW p \in Profiles \X Backends, Recover(p)
       PROVE  Types'
    BY <1>1, <1>13 DEF Recover, Types, runner, counters, theCase, cases
<1>14. CASE Kill
    BY <1>1, <1>14, SuitesAssumption DEF IsList, Kill, Types, databases, cases, Backends
<1>15. CASE Restart \/ Stay \/ UNCHANGED vars
    BY SMTT(30), <1>1, <1>15 DEF Restart, Stay, vars, runner, databases, counters, Types, theCase, cases
<1> QED
    BY <1>2, <1>3, <1>4, <1>5, <1>6, <1>7, <1>8, <1>9, <1>10, <1>11, <1>12, <1>13, <1>14, <1>15
       DEF Next, Run

-----------------------------------------------------------------------------

\* Nothing changes the suite.
LEMMA SuiteKept ==
    ASSUME [Next]_vars
    PROVE  suite' = suite
  BY Zenon DEF Next, Run, vars, LoadSuite, OpenDB, WaitReady, Reset, RunStep, DoRequest, EndOutage,
         AwaitHealth, Inspect, AskSameAs, Judge, Recover, Kill, Restart, Stay

\* The stages a case goes through.
InCase == pc \in {"reset", "given", "request", "restore", "health", "inspect", "sameAs", "judge"}

\* A case given up, for any reason but its database's, leaves all of them open.
LEMMA AbortRestores ==
    ASSUME Types, Refusing, Abort, InCase, databaseFaults' = databaseFaults
    PROVE  Refusing'
<1>1. SUFFICES ASSUME databaseFaults = 0
               PROVE  accepting' = Backends
    BY DEF Refusing
<1>2. accepting' = IF deferred THEN accepting \cup {b} ELSE accepting
    BY <1>1 DEF Abort
<1>3. CASE deferred
    BY <1>1, <1>2, <1>3 DEF Types, Refusing, InCase
<1>4. CASE ~ deferred
    BY Zenon, <1>1, <1>2, <1>4 DEF Types, Refusing, InCase
<1> QED
    BY <1>3, <1>4

\* A call to a database that fails ends what is claimed of them.
LEMMA FaultEnds ==
    ASSUME Types, DatabaseFails
    PROVE  Refusing' /\ Broken'
  BY DEF Types, DatabaseFails, Refusing, Broken

\* Databases refuse connections only where Refusing says.
LEMMA RefusingStep ==
    ASSUME IndInv, [Next]_vars
    PROVE  Refusing'
<1> USE DEF IndInv
<1>2. CASE LoadSuite
    BY Zenon, <1>2 DEF LoadSuite, End, Idle, Refusing, databases, counters
<1>3. ASSUME NEW n \in Backends, OpenDB(n)
      PROVE  Refusing'
  <2>1. CASE DatabaseFails
    BY <2>1, FaultEnds
  <2>2. CASE Unreachable /\ UNCHANGED <<databases, counters>>
    BY <1>3, <2>2 DEF OpenDB, Unreachable, End, Refusing, databases, counters
  <2>3. CASE /\ n \in accepting /\ opened' = opened \cup {n} /\ accepting' = accepting \cup {n}
             /\ pc' = (IF opened' = Backends THEN "ready" ELSE "open") /\ UNCHANGED counters
    BY <1>3, <2>3 DEF OpenDB, Refusing, counters, Types
  <2> QED
    BY <1>3, <2>1, <2>2, <2>3 DEF OpenDB
<1>4. CASE WaitReady
    BY <1>4 DEF WaitReady, Unreachable, End, RequestFails, Refusing, databases, counters
<1>5. CASE Reset
  <2>1. CASE DatabaseFails
    BY <2>1, FaultEnds
  <2>2. CASE UNCHANGED <<accepting, counters>>
    BY <1>5, <2>2 DEF Reset, Refusing, counters
  <2> QED
    BY <1>5, <2>1, <2>2 DEF Reset
<1>6. CASE RunStep
  <2>1. CASE Abort /\ RequestFails
    BY <1>6, <2>1, AbortRestores DEF RunStep, InCase, RequestFails
  <2>2. CASE DatabaseFails
    BY <2>2, FaultEnds
  <2>3. CASE /\ accepting' = accepting \ {b} /\ deferred' = TRUE /\ AfterStep /\ UNCHANGED counters
    BY <1>6, <2>3 DEF RunStep, AfterStep, Goto, Refusing, counters
  <2>4. CASE AfterStep /\ UNCHANGED <<deferred, accepting, counters>>
    BY <1>6, <2>4 DEF RunStep, AfterStep, Goto, Refusing, counters
  <2> QED
    BY Zenon, <1>6, <2>1, <2>2, <2>3, <2>4 DEF RunStep, Outage
<1>7. CASE DoRequest
  <2>1. CASE Abort /\ RequestFails
    BY <1>7, <2>1, AbortRestores DEF DoRequest, InCase, RequestFails
  <2>2. CASE Goto("restore") /\ UNCHANGED <<deferred, accepting, counters>>
    BY <1>7, <2>2 DEF DoRequest, Goto, Refusing, counters
  <2> QED
    BY <1>7, <2>1, <2>2 DEF DoRequest
<1>8. CASE EndOutage
  <2>1. CASE DatabaseFails
    BY <2>1, FaultEnds
  <2>2. CASE accepting' = accepting \cup {b} /\ UNCHANGED counters
    BY <1>8, <2>2 DEF EndOutage, Refusing, counters
  <2> QED
    BY <1>8, <2>1, <2>2 DEF EndOutage
<1>9. CASE AwaitHealth
  <2>1. CASE Abort /\ RequestFails
    BY <1>9, <2>1, AbortRestores DEF AwaitHealth, InCase, RequestFails
  <2>2. CASE UNCHANGED <<accepting, counters>>
    BY <1>9, <2>2 DEF AwaitHealth, Refusing, counters
  <2> QED
    BY <1>9, <2>1, <2>2 DEF AwaitHealth
<1>10. CASE Inspect
  <2>1. CASE Abort /\ UNCHANGED counters
    BY <1>10, <2>1, AbortRestores DEF Inspect, InCase, counters
  <2>2. CASE DatabaseFails
    BY <2>2, FaultEnds
  <2>3. CASE UNCHANGED <<accepting, counters>>
    BY <1>10, <2>3 DEF Inspect, Refusing, counters
  <2> QED
    BY <1>10, <2>1, <2>2, <2>3 DEF Inspect
<1>11. CASE AskSameAs
  <2>1. CASE Abort /\ RequestFails
    BY <1>11, <2>1, AbortRestores DEF AskSameAs, InCase, RequestFails
  <2>2. CASE EndRun /\ UNCHANGED counters
    BY <1>11, <2>2 DEF AskSameAs, EndRun, Refusing, Types, counters
  <2> QED
    BY <1>11, <2>1, <2>2 DEF AskSameAs
<1>12. CASE Judge
    BY <1>12 DEF Judge, Refusing, databases, counters
<1>13. ASSUME NEW p \in Profiles \X Backends, Recover(p)
       PROVE  Refusing'
    BY <1>13 DEF Recover, Refusing, runner, counters
<1>14. CASE Kill
    BY <1>14 DEF Kill, Refusing, databases
<1>15. CASE Restart \/ Stay \/ UNCHANGED vars
    BY <1>15 DEF Restart, Stay, vars, runner, databases, counters, Refusing
<1> QED
    BY <1>2, <1>3, <1>4, <1>5, <1>6, <1>7, <1>8, <1>9, <1>10, <1>11, <1>12, <1>13, <1>14, <1>15
       DEF Next, Run

\* A request that fails, or a kill, ends what is claimed of the pools.
LEMMA TroubleEnds ==
    ASSUME Types, RequestFails \/ DatabaseFails \/ Kill
    PROVE  Broken'
<1>1. (requestFaults + databaseFaults + kills)' > 0
    BY DEF Types, RequestFails, DatabaseFails, Kill
<1> QED
    BY <1>1 DEF Broken

\* Pools are broken only where Broken says.
LEMMA BrokenStep ==
    ASSUME IndInv, [Next]_vars
    PROVE  Broken'
<1> USE DEF IndInv
<1>1. suite' = suite
    BY Zenon, SuiteKept
<1>2. CASE LoadSuite
    BY <1>1, <1>2 DEF LoadSuite, Broken, OneProfile, cases, databases, counters
<1>3. ASSUME NEW n \in Backends, OpenDB(n)
      PROVE  Broken'
  <2>1. CASE DatabaseFails
    BY <2>1, TroubleEnds
  <2>2. CASE UNCHANGED <<recovering, counters>>
    BY <1>1, <1>3, <2>2 DEF OpenDB, Broken, OneProfile, cases, counters
  <2> QED
    BY <1>3, <2>1, <2>2 DEF OpenDB, databases
<1>4. CASE WaitReady
  <2>1. CASE RequestFails
    BY <2>1, TroubleEnds
  <2>2. CASE UNCHANGED <<recovering, counters>>
    BY <1>1, <1>4, <2>2 DEF WaitReady, Broken, OneProfile, cases, counters
  <2> QED
    BY <1>4, <2>1, <2>2 DEF WaitReady, databases
<1>5. CASE Reset
  <2>1. CASE DatabaseFails
    BY <2>1, TroubleEnds
  <2>2. CASE UNCHANGED <<recovering, counters>>
    BY <1>1, <1>5, <2>2 DEF Reset, Broken, OneProfile, cases, counters
  <2> QED
    BY <1>5, <2>1, <2>2 DEF Reset
<1>6. CASE RunStep
  <2>1. CASE RequestFails \/ DatabaseFails
    BY <2>1, TroubleEnds
  <2>2. CASE /\ recovering' = recovering \cup PoolsOf(b)
             /\ deferred' = TRUE /\ AfterStep /\ UNCHANGED counters
    <3> SUFFICES ASSUME requestFaults + databaseFaults + kills = 0, OneProfile, NEW p \in recovering'
                 PROVE  p = Pool
        BY <1>1, <2>2 DEF Broken, OneProfile, Pool, theCase, cases, AfterStep, Goto, counters
    <3>1. CASE p \in recovering
        BY <3>1 DEF Broken
    <3>2. CASE p \in PoolsOf(b)
        BY SMTT(30), <3>2, SuitesAssumption DEF PoolsOf, Pool, OneProfile, theCase, cases, Types, IsList
    <3> QED
        BY <2>2, <3>1, <3>2
  <2>3. CASE AfterStep /\ UNCHANGED <<deferred, recovering, counters>>
    BY <1>1, <2>3 DEF AfterStep, Goto, Broken, OneProfile, Pool, theCase, cases, counters
  <2> QED
    BY Zenon, <1>6, <2>1, <2>2, <2>3 DEF RunStep, Outage
<1>7. CASE DoRequest
  <2>1. CASE RequestFails
    BY <2>1, TroubleEnds
  <2>2. CASE Goto("restore") /\ UNCHANGED <<deferred, recovering, counters>>
    BY <1>1, <2>2 DEF Goto, Broken, OneProfile, Pool, theCase, cases, counters
  <2> QED
    BY <1>7, <2>1, <2>2 DEF DoRequest
<1>8. CASE EndOutage
  <2>1. CASE DatabaseFails
    BY <2>1, TroubleEnds
  <2>2. CASE /\ Goto(IF HasOutage(theCase) THEN "health" ELSE "inspect")
             /\ UNCHANGED <<deferred, recovering, counters>>
    BY Zenon, <1>1, <2>2 DEF Goto, Broken, OneProfile, Pool, theCase, cases, counters, Types
  <2> QED
    BY <1>8, <2>1, <2>2 DEF EndOutage
<1>9. CASE AwaitHealth
  <2>1. CASE RequestFails
    BY <2>1, TroubleEnds
  <2>2. CASE Pool \notin recovering /\ UNCHANGED <<recovering, counters>>
    BY <1>1, <2>2 DEF Broken, OneProfile, cases, counters
  <2> QED
    BY <1>9, <2>1, <2>2 DEF AwaitHealth
<1>10. CASE Inspect
  <2>1. CASE DatabaseFails
    BY <2>1, TroubleEnds
  <2>2. CASE UNCHANGED <<recovering, counters>>
    BY <1>1, <1>10, <2>2 DEF Inspect, Broken, OneProfile, cases, counters
  <2> QED
    BY Zenon, <1>10, <2>1, <2>2 DEF Inspect, Abort
<1>11. CASE AskSameAs
  <2>1. CASE RequestFails
    BY <2>1, TroubleEnds
  <2>2. CASE UNCHANGED <<recovering, counters>>
    BY <1>1, <1>11, <2>2 DEF AskSameAs, Broken, OneProfile, cases, counters
  <2> QED
    BY <1>11, <2>1, <2>2 DEF AskSameAs
<1>12. CASE Judge
    BY <1>1, <1>12 DEF Judge, Broken, OneProfile, cases, databases, counters
<1>13. ASSUME NEW p \in Profiles \X Backends, Recover(p)
       PROVE  Broken'
    BY <1>1, <1>13 DEF Recover, Broken, OneProfile, Pool, theCase, cases, runner, counters
<1>14. CASE Kill
    BY <1>14, TroubleEnds
<1>15. CASE Restart \/ Stay \/ UNCHANGED vars
    BY <1>1, <1>15 DEF Restart, Stay, vars, runner, databases, counters, Broken, OneProfile, Pool,
                       theCase, cases
<1> QED
    BY <1>2, <1>3, <1>4, <1>5, <1>6, <1>7, <1>8, <1>9, <1>10, <1>11, <1>12, <1>13, <1>14, <1>15
       DEF Next, Run

\* The next case, or the end of the run with this verdict.
Turns ==
    IF LastCase
    THEN pc' = "done" /\ outcome' = (IF failed' THEN "fail" ELSE "pass") /\ UNCHANGED caseNo
    ELSE caseNo' = caseNo + 1 /\ pc' = "reset" /\ UNCHANGED outcome

\* A run passes with its last case, when it has counted all.
LEMMA GreenCounts ==
    ASSUME Types, Counted, InCase, suite' = suite, Turns,
           failed' <=> failed, judged' = judged + 1
    PROVE  Counted'
<1>1. CASE LastCase
    BY <1>1, SuitesAssumption DEF Turns, Types, Counted, InCase, LastCase, cases, IsList
<1>2. CASE ~ LastCase
    BY <1>2, SuitesAssumption DEF Turns, Types, Counted, InCase, LastCase, cases, IsList
<1> QED
    BY <1>1, <1>2

\* A red case is not counted, and the run can no longer pass.
LEMMA RedFails ==
    ASSUME Types, Counted, InCase, NextCase(FALSE), suite' = suite
    PROVE  Counted'
<1>1. failed'
    BY Zenon DEF NextCase
<1>2. Turns
    BY DEF NextCase, Turns
<1>3. CASE LastCase
    BY Zenon, <1>1, <1>2, <1>3, SuitesAssumption DEF Turns, Types, Counted, InCase, LastCase, cases, IsList
<1>4. CASE ~ LastCase
    BY Zenon, <1>1, <1>2, <1>4, SuitesAssumption DEF Turns, Types, Counted, InCase, LastCase, cases, IsList
<1> QED
    BY <1>3, <1>4

\* Within a case nothing is counted.
LEMMA CountKept ==
    ASSUME Counted, suite' = suite, pc \notin {"load", "done", "dead"},
           pc' \notin {"done", "dead"},
           UNCHANGED <<caseNo, judged, outcome>>, failed' = failed
    PROVE  Counted'
  BY DEF Counted, cases

\* A run has something to show for what it reports.
LEMMA CountedStep ==
    ASSUME IndInv, [Next]_vars
    PROVE  Counted'
<1> USE DEF IndInv
<1>1. suite' = suite
    BY Zenon, SuiteKept
<1>2. CASE LoadSuite
    BY <1>1, <1>2 DEF LoadSuite, Skips, End, Idle, Counted, cases
<1>3. ASSUME NEW n \in Backends, OpenDB(n)
      PROVE  Counted'
  <2>1. CASE Unreachable
    BY Zenon, <1>1, <1>3, <2>1 DEF OpenDB, Unreachable, End, Counted, cases
  <2>2. CASE pc' \in {"ready", "open"} /\ UNCHANGED <<caseNo, judged, outcome, failed>>
    BY <1>1, <1>3, <2>2, CountKept DEF OpenDB
  <2> QED
    BY <1>3, <2>1, <2>2 DEF OpenDB
<1>4. CASE WaitReady
    BY <1>1, <1>4 DEF WaitReady, Unreachable, End, Idle, Counted, cases
<1>5. CASE Reset
    BY Zenon, <1>1, <1>5, CountKept, RedFails DEF Reset, Goto, Given, Abort, InCase
<1>6. CASE RunStep
    BY Zenon, <1>1, <1>6, CountKept, RedFails DEF RunStep, Outage, AfterStep, Goto, Abort, InCase
<1>7. CASE DoRequest
    BY Zenon, <1>1, <1>7, CountKept, RedFails DEF DoRequest, Goto, Abort, InCase
<1>8. CASE EndOutage
    BY Zenon, <1>1, <1>8, CountKept, RedFails DEF EndOutage, Goto, Abort, InCase
<1>9. CASE AwaitHealth
    BY Zenon, <1>1, <1>9, CountKept, RedFails DEF AwaitHealth, Goto, Abort, InCase
<1>10. CASE Inspect
    BY Zenon, <1>1, <1>10, CountKept, RedFails DEF Inspect, Goto, Abort, InCase
<1>11. CASE AskSameAs
    BY Zenon, <1>1, <1>11, CountKept, RedFails DEF AskSameAs, EndRun, Abort, InCase
<1>12. CASE Judge
  <2>1. CASE Green(theCase, permitted, runs)
    <3>1. Turns /\ (failed' <=> failed) /\ judged' = judged + 1
      BY Zenon, <1>12, <2>1 DEF Judge, NextCase, Turns
    <3> QED
      BY <1>1, <1>12, <3>1, GreenCounts DEF Judge, InCase
  <2>2. CASE ~ Green(theCase, permitted, runs)
    <3>1. NextCase(FALSE)
      BY <1>12, <2>2 DEF Judge, NextCase
    <3> QED
      BY <1>1, <1>12, <3>1, RedFails DEF Judge, InCase
  <2> QED
    BY <2>1, <2>2
<1>13. ASSUME NEW p \in Profiles \X Backends, Recover(p)
       PROVE  Counted'
    BY <1>1, <1>13 DEF Recover, Counted, cases, runner
<1>14. CASE Kill
    BY <1>1, <1>14 DEF Kill, Counted, cases
<1>15. CASE Restart
    BY Zenon, <1>1, <1>15, SuitesAssumption DEF Restart, Counted, cases, Types
<1>16. CASE Stay \/ UNCHANGED vars
    BY <1>1, <1>16 DEF Stay, vars, runner, Counted, cases
<1> QED
    BY <1>2, <1>3, <1>4, <1>5, <1>6, <1>7, <1>8, <1>9, <1>10, <1>11, <1>12, <1>13, <1>14, <1>15,
       <1>16
       DEF Next, Run

\* Kotlin's turn comes after Go's same_as request.
LEMMA AnsweredStep ==
    ASSUME IndInv, [Next]_vars
    PROVE  Answered'
<1> USE DEF IndInv
<1>1. suite' = suite
    BY Zenon, SuiteKept
<1>a. ASSUME runs' = NoRuns, b' = "go", pc' # "judge"
      PROVE  Answered'
    BY <1>a DEF Answered, NoRuns, NoRun, Backends
<1>b. ASSUME UNCHANGED <<caseNo, b, runs>>, pc' # "judge"
      PROVE  Answered'
    BY <1>1, <1>b DEF Answered, theCase, cases
<1>c. ASSUME Abort \/ NextCase(FALSE)
      PROVE  Answered'
  <2>1. NextCase(FALSE)
    BY Zenon, <1>c DEF Abort
  <2> QED
    BY <1>a, <2>1 DEF NextCase
<1>2. CASE LoadSuite
    BY <1>b, <1>2 DEF LoadSuite, End, Idle
<1>3. ASSUME NEW n \in Backends, OpenDB(n)
      PROVE  Answered'
    BY <1>b, <1>3 DEF OpenDB, Unreachable, End
<1>4. CASE WaitReady
    BY <1>b, <1>4 DEF WaitReady, Unreachable, End, Idle
<1>5. CASE Reset
    BY Zenon, <1>b, <1>c, <1>5 DEF Reset, Goto, Given
<1>6. CASE RunStep
    BY Zenon, <1>b, <1>c, <1>6 DEF RunStep, Outage, AfterStep, Goto
<1>7. CASE DoRequest
  <2>1. ASSUME NEW a, runs' = [runs EXCEPT ![b].resp = a], Goto("restore")
        PROVE  Answered'
    BY <1>1, <2>1 DEF Goto, Answered, theCase, cases, Types
  <2> QED
    BY Zenon, <1>c, <1>7, <2>1 DEF DoRequest
<1>8. CASE EndOutage
    BY Zenon, <1>b, <1>c, <1>8 DEF EndOutage, Goto
<1>9. CASE AwaitHealth
    BY Zenon, <1>b, <1>c, <1>9 DEF AwaitHealth, Goto
<1>10. CASE Inspect
  <2>1. ASSUME NEW s, NEW q, runs' = [runs EXCEPT ![b].state = s, ![b].rows = q], Goto("sameAs")
        PROVE  Answered'
    <3> DEFINE mid == [runs EXCEPT ![b].state = s]
    <3>1. /\ DOMAIN mid = Backends
          /\ \A n \in Backends : "ref" \in DOMAIN mid[n] /\ mid[n].ref = runs[n].ref
      BY DEF Answered, Types
    <3>2. runs' = [mid EXCEPT ![b].rows = q]
      BY <2>1
    <3> HIDE DEF mid
    <3>3. /\ DOMAIN runs' = Backends
          /\ \A n \in Backends : "ref" \in DOMAIN runs'[n] /\ runs'[n].ref = mid[n].ref
      BY <3>1, <3>2 DEF Types
    <3> QED
      BY <1>1, <2>1, <3>1, <3>3 DEF Goto, Answered, theCase, cases, Backends
  <2> QED
    BY Zenon, <1>c, <1>10, <2>1 DEF Inspect
<1>11. CASE AskSameAs
  <2>1. CASE Abort
    BY <1>c, <2>1
  <2>2. CASE SameAsRequest(theCase.expect, b) = None /\ EndRun /\ UNCHANGED runs
    BY Zenon, <1>1, <2>2 DEF EndRun, Answered, theCase, cases, Types, Backends
  <2>3. ASSUME NEW a \in suite.answers[b], runs' = [runs EXCEPT ![b].ref = a], EndRun
        PROVE  Answered'
    <3>1. a # None
      BY <2>3, SuitesAssumption DEF Types
    <3> QED
      BY <1>1, <2>3, <3>1 DEF EndRun, Answered, theCase, cases, Types, Backends
  <2> QED
    BY <1>11, <2>1, <2>2, <2>3 DEF AskSameAs
<1>12. CASE Judge
    BY <1>a, <1>12 DEF Judge, NextCase
<1>13. ASSUME NEW p \in Profiles \X Backends, Recover(p)
       PROVE  Answered'
    BY Zenon, <1>1, <1>13 DEF Recover, Answered, theCase, cases, runner
<1>14. CASE Kill
    BY <1>a, <1>14 DEF Kill
<1>15. CASE Restart
    BY <1>b, <1>15 DEF Restart
<1>16. CASE Stay \/ UNCHANGED vars
    BY Zenon, <1>1, <1>16 DEF Stay, vars, runner, Answered, theCase, cases
<1> QED
    BY <1>2, <1>3, <1>4, <1>5, <1>6, <1>7, <1>8, <1>9, <1>10, <1>11, <1>12, <1>13, <1>14, <1>15,
       <1>16
       DEF Next, Run

\* IndInv is an invariant.
THEOREM Invariance == Spec => []IndInv
<1>1. IndInv /\ [Next]_vars => IndInv'
    BY TypesStep, RefusingStep, BrokenStep, CountedStep, AnsweredStep DEF IndInv
<1> QED
    BY InitIndInv, <1>1, PTL DEF Spec

-----------------------------------------------------------------------------

\* A case starts with its databases reachable, after any cases and any killed
\* runs; and, on one profile with nothing failed, with its backend recovered.
THEOREM StartsFresh == Spec => []CaseStartsFresh
<1>1. IndInv => CaseStartsFresh
  <2> SUFFICES ASSUME IndInv, AtStart PROVE CaseStartsFresh
    BY DEF CaseStartsFresh
  <2>1. ~ deferred /\ pc \in {"given", "request"}
    BY DEF IndInv, Types, AtStart, Given
  <2>2. databaseFaults = 0 => accepting = Backends
    BY Zenon, <2>1 DEF IndInv, Types, Refusing
  <2>3. requestFaults + databaseFaults + kills = 0 /\ OneProfile => Pool \notin recovering
    BY <2>1 DEF IndInv, Broken
  <2> QED
    BY <2>2, <2>3 DEF CaseStartsFresh
<1> QED
    BY Invariance, <1>1, PTL

\* A run that passes has judged every case green, and a required run never
\* skips.
THEOREM RunsAreReal == Spec => []RunIsReal
<1>1. IndInv => RunIsReal
    BY DEF IndInv, Counted, RunIsReal
<1> QED
    BY Invariance, <1>1, PTL

\* The case at hand is one of the suite's.
LEMMA CaseOfSuite ==
    ASSUME Types
    PROVE  caseNo \in DOMAIN cases
<1>1. IsList(cases) /\ caseNo \in 1 .. Len(cases)
    BY Zenon, SuitesAssumption DEF Types, cases
<1>2. ASSUME NEW list, IsList(list)
      PROVE  DOMAIN list = 1 .. Len(list)
    BY <1>2 DEF IsList
<1> QED
    BY Zenon, <1>1, <1>2

\* An entry a case cites names the issue that ruled it, and is one the case
\* answers for: a permitted status with two statuses, a permitted body with a
\* pin on Go's.
LEMMA CitedIsRuled ==
    ASSUME Types, Accepted(cases, suite.entries), NEW e \in Cited(permitted, theCase)
    PROVE  /\ e.issue
           /\ e.status => theCase.expect.statusByBackend # None
           /\ e.body => HasBodyPin(theCase.expect)
<1>1. e \in permitted /\ e.name # ""
    BY Zenon DEF Cited
<1>2. PICK i \in DOMAIN suite.entries : e = suite.entries[i]
    BY Zenon, <1>1 DEF permitted, PermittedSet
<1>3. ValidEntry(e)
    BY <1>2 DEF Accepted, LoadPermitted
<1>4. e.issue
    BY Zenon, <1>1, <1>3 DEF ValidEntry
<1>5. caseNo \in DOMAIN cases
    BY Zenon, CaseOfSuite
<1>6. CheckPermits(cases, permitted)
    BY DEF Accepted, permitted
<1> QED
    BY Zenon, <1>4, <1>5, <1>6 DEF CheckPermits, theCase

\* A case a run accepts is a valid one.
LEMMA AcceptedIsValid ==
    ASSUME Types, Accepted(cases, suite.entries)
    PROVE  ValidCase(theCase)
  BY Zenon, CaseOfSuite DEF theCase, Accepted, Load

\* A pin on Go's body holds it on a green case.
LEMMA PinHolds ==
    ASSUME Types, Answered, IsGreen, Accepted(cases, suite.entries), HasBodyPin(theCase.expect)
    PROVE  GoBodyPinned
<1> DEFINE x == theCase.expect
<1>1. ValidSameAs(theCase)
    BY Zenon, AcceptedIsValid DEF ValidCase
<1>2. assertExpected(theCase, Go, "go")
    BY DEF IsGreen, Green, Backends, Go
<1>3. CASE x.bodyEmpty
    BY Zenon, <1>2, <1>3 DEF assertExpected, GoBodyPinned
<1>4. CASE ~ x.bodyEmpty /\ x.bodyRaw # None
    BY Zenon, <1>2, <1>4 DEF assertExpected, GoBodyPinned
<1>5. CASE ~ x.bodyEmpty /\ x.bodyRaw = None /\ x.bodyJSON # None
    BY Zenon, <1>2, <1>5 DEF assertExpected, GoBodyPinned
<1>6. CASE x.sameAs # None \/ "go" \in DOMAIN x.sameAsFor
  <2>1. SameAsRequest(x, "go") \notin {None, theCase.request}
    BY Zenon, <1>1, <1>6 DEF ValidSameAs, SameAsRequest, Lookup
  <2>2. runs["go"].ref # None
    BY Zenon, <2>1 DEF Answered, IsGreen
  <2>3. assertSameAs(Go, runs["go"].ref)
    BY <2>2 DEF IsGreen, Green, Backends, Go
  <2> QED
    BY Zenon, <2>1, <2>3 DEF assertSameAs, GoBodyPinned
<1> QED
    BY Zenon, <1>3, <1>4, <1>5, <1>6 DEF HasBodyPin

\* On a green case every difference has a ruling behind it, and a body that may
\* differ is still held to something.
THEOREM RuledDifferences == Spec => []DifferencesAreRuled
<1>1. IndInv => DifferencesAreRuled
  <2> SUFFICES ASSUME IndInv, IsGreen PROVE DifferencesAreRuled
    BY Zenon DEF DifferencesAreRuled
  <2> DEFINE ruled == {e \in Cited(permitted, theCase) : e.issue}
  <2>1. Types /\ Answered /\ Accepted(cases, suite.entries)
    BY DEF IndInv, Counted, IsGreen
  <2>2. \A n \in Backends : runs[n].resp.status = StatusFor(theCase.expect, n)
    BY Zenon DEF IsGreen, Green, assertExpected
  <2>3. assertParity(theCase, permitted, Go, Kotlin)
    BY DEF IsGreen, Green, Go, Kotlin
  <2>4. Go.status # Kotlin.status =>
            theCase.expect.statusByBackend # None /\ \E e \in ruled : e.status
    BY Zenon, <2>1, <2>3, CitedIsRuled DEF assertParity, AllowsStatus
  <2>5. ASSUME NEW h \in DOMAIN Go.headers \cup DOMAIN Kotlin.headers, ~ SameHeader(Go, Kotlin, h)
        PROVE  \/ \E e \in permitted : e.header = h /\ e.why
               \/ \E e \in ruled : h \in e.headers
    <3>1. AllowsHeader(permitted, theCase, h)
      BY Zenon, <2>3, <2>5 DEF assertParity
    <3>2. ASSUME NEW e \in permitted PROVE e.why
      BY Zenon, <2>1, <3>2 DEF permitted, PermittedSet, Accepted, LoadPermitted, ValidEntry
    <3> QED
      BY Zenon, <2>1, <3>1, <3>2, CitedIsRuled DEF AllowsHeader, Allows
  <2>6. ~ equalBodies(Go.body, Kotlin.body) => GoBodyPinned /\ \E e \in ruled : e.body
    BY Zenon, <2>1, <2>3, CitedIsRuled, PinHolds DEF assertParity, AllowsBody
  <2> QED
    BY Zenon, <2>2, <2>4, <2>5, <2>6 DEF DifferencesAreRuled
<1> QED
    BY Invariance, <1>1, PTL

-----------------------------------------------------------------------------
(***************************************************************************)
(* Where rows come from.  A database is traced from its Reset to its       *)
(* snapshot, and a snapshot from there to the verdict.                     *)
(***************************************************************************)

\* Whose rows a case may be judged by.
Agents(t, c) == {c} \cup {Seed[t][j].user_agent : j \in DOMAIN Seed[t]}

OwnRows(t, c) == {row \in [Names(t) -> Cell] : "user_agent" \in Names(t) => row.user_agent \in Agents(t, c)}

\* A database with the seed's rows and those that writer c wrote.
OwnDatabase(db, c) == DOMAIN db = Tables /\ \A t \in Tables : db[t] \in Seq(OwnRows(t, c))

\* A snapshot of one.
OwnView(allowed, s, c) ==
    \A t \in Tables :
        /\ \E n \in Nat : Ordered(Kept(allowed, t), s[t], n)
        /\ \A i \in DOMAIN s[t] :
               "user_agent" \in DOMAIN s[t][i] => s[t][i].user_agent \in Agents(t, c)

\* Reset leaves one.
LEMMA SeedIsOwn ==
    ASSUME NEW c
    PROVE  OwnDatabase(Seeded, c)
<1>1. ASSUME NEW t \in Tables PROVE Seed[t] \in Seq(OwnRows(t, c))
  <2> DEFINE l == Seed[t]
             R == OwnRows(t, c)
             S == {l[i] : i \in DOMAIN l}
  <2>1. l \in Seq(S)
    BY Zenon, SchemaAssumption DEF IsList
  <2>2. ASSUME NEW i \in DOMAIN l PROVE l[i] \in R
    <3>1. l[i] \in [Names(t) -> Cell]
      BY Zenon, SchemaAssumption DEF IsRow, Cell
    <3> QED BY Zenon, <3>1 DEF OwnRows, Agents
  <2> HIDE DEF l, R
  <2>3. S \subseteq R
    BY Zenon, <2>2
  <2> HIDE DEF S
  <2>4. l \in Seq(R)
    BY <2>1, <2>3
  <2> QED BY Zenon, <2>4 DEF l, R
<1> QED BY Zenon, <1>1 DEF OwnDatabase, Seeded

\* What a request or a statement of the case writes is its own.
LEMMA WriteIsOwn ==
    ASSUME suite \in Suites, b \in Backends, DOMAIN rows = Backends, NEW c \in Int,
           OwnDatabase(rows[b], c), Writes(c) \/ UNCHANGED rows
    PROVE  DOMAIN rows' = Backends /\ OwnDatabase(rows'[b], c)
<1>1. CASE UNCHANGED rows
  BY Zenon, <1>1
<1>2. CASE Writes(c)
  <2>1. PICK t \in Tables : \E w \in suite.writes[t] :
            rows' = [rows EXCEPT ![b][t] = Append(@, [w EXCEPT !.user_agent = c])]
    BY Zenon, <1>2 DEF Writes
  <2>2. PICK w \in suite.writes[t] :
            rows' = [rows EXCEPT ![b][t] = Append(@, [w EXCEPT !.user_agent = c])]
    BY Zenon, <2>1
  <2> DEFINE new == [w EXCEPT !.user_agent = c]
             db == rows[b]
             list == Append(db[t], new)
             R == OwnRows(t, c)
  <2>3. w \in [Names(t) -> Cell]
    BY Zenon, SuitesAssumption DEF IsRow, Cell
  <2>4. new \in R
    <3>1. c \in Cell
      BY Zenon DEF Cell
    <3>2. new \in [Names(t) -> Cell]
      BY <2>3, <3>1
    <3>3. "user_agent" \in Names(t) => new.user_agent = c
      BY <2>3
    <3> HIDE DEF new
    <3> QED BY Zenon, <3>2, <3>3 DEF OwnRows, Agents
  <2>5. DOMAIN db = Tables /\ \A x \in Tables : db[x] \in Seq(OwnRows(x, c))
    BY Zenon DEF OwnDatabase
  <2>6. rows' = [rows EXCEPT ![b] = [db EXCEPT ![t] = list]]
    BY <2>2
  <2> HIDE DEF new, db
  <2>7. list \in Seq(R)
    <3>1. db[t] \in Seq(R)
      BY Zenon, <2>5
    <3> HIDE DEF R
    <3> QED BY <2>4, <3>1
  <2> HIDE DEF list, R
  <2>8. DOMAIN rows' = Backends /\ rows'[b] = [db EXCEPT ![t] = list]
    BY <2>6
  <2>9. DOMAIN rows'[b] = Tables /\ rows'[b][t] = list /\ \A x \in Tables \ {t} : rows'[b][x] = db[x]
    BY Zenon, <2>5, <2>8
  <2>10. \A x \in Tables : rows'[b][x] \in Seq(OwnRows(x, c))
    BY Zenon, <2>5, <2>7, <2>9 DEF R
  <2> QED BY Zenon, <2>8, <2>9, <2>10 DEF OwnDatabase
<1> QED BY Zenon, <1>1, <1>2

\* A snapshot of the case's own rows shows no other.
LEMMA ViewIsOwn ==
    ASSUME NEW allowed, NEW db, NEW c, OwnDatabase(db, c), NEW now \in Instants,
           NEW s \in Snapshots(allowed, db, now)
    PROVE  OwnView(allowed, s, c)
<1>1. now \in Int
  BY Zenon, SchemaAssumption
<1>2. ASSUME NEW t \in Tables
      PROVE  /\ db[t] \in Seq([Names(t) -> Cell])
             /\ \A j \in DOMAIN db[t] : db[t][j] \in OwnRows(t, c)
  <2> DEFINE R == OwnRows(t, c)
             S == [Names(t) -> Cell]
  <2>1. db[t] \in Seq(R) /\ R \subseteq S
    BY Zenon DEF OwnDatabase, OwnRows
  <2> HIDE DEF R, S
  <2>2. db[t] \in Seq(S) /\ \A j \in DOMAIN db[t] : db[t][j] \in R
    BY <2>1
  <2> QED BY Zenon, <2>2 DEF R, S
<1>3. IsDatabase(db)
  BY Zenon, <1>2 DEF IsDatabase
<1>4. ASSUME NEW t \in Tables
      PROVE  /\ \E n \in Nat : Ordered(Kept(allowed, t), s[t], n)
             /\ \A i \in DOMAIN s[t] :
                    "user_agent" \in DOMAIN s[t][i] => s[t][i].user_agent \in Agents(t, c)
  <2> DEFINE kept == Kept(allowed, t)
  <2>0. kept = Kept(allowed, t)
    OBVIOUS
  <2> HIDE DEF kept
  <2>1. \E n \in Nat : Ordered(kept, s[t], n)
    BY Zenon, <1>1, <1>3, <2>0, SnapshotOrdered
  <2>2. PICK n \in Nat : ViewOf(kept, db[t], now, s[t], n)
    BY Zenon, <1>1, <1>3, <2>0, SnapshotOfTable
  <2>3. ASSUME NEW i \in DOMAIN s[t], "user_agent" \in DOMAIN s[t][i]
        PROVE  s[t][i].user_agent \in Agents(t, c)
    <3>1. PICK j \in DOMAIN db[t] : s[t][i] = Cells(kept, db[t][j], now)
      BY Zenon, <2>2 DEF ViewOf
    <3> DEFINE row == db[t][j]
    <3>2. row \in OwnRows(t, c)
      BY Zenon, <1>2
    <3>3. IsRow(t, row)
      BY Zenon, <3>2 DEF OwnRows, IsRow, Cell
    <3> HIDE DEF row
    <3>4. DOMAIN s[t][i] = {kept[m].name : m \in DOMAIN kept}
      BY Zenon, <3>1 DEF Cells
    <3>5. PICK m \in DOMAIN kept : kept[m].name = "user_agent"
      BY Zenon, <2>3, <3>4
    <3>6. m \in 1 .. Len(kept)
      BY <2>0, KeptColumns
    <3>7. Measured(kept, row, now, m)
      BY Zenon, <1>1, <2>0, <3>3, <3>6, CellsOfRow
    <3>8. ~ kept[m].timestamp /\ "user_agent" \in Names(t)
      BY ZenonT(40), <2>0, <3>5, <3>6, KeptColumn
    <3>9. Cells(kept, row, now)["user_agent"] = row["user_agent"]
      BY Zenon, <3>5, <3>7, <3>8 DEF Measured
    <3>10. s[t][i] = Cells(kept, row, now)
      BY Zenon, <3>1 DEF row
    <3>11. row["user_agent"] \in Agents(t, c)
      BY Zenon, <3>2, <3>8 DEF OwnRows
    <3> QED BY Zenon, <3>9, <3>10, <3>11
  <2> QED BY Zenon, <2>0, <2>1, <2>3
<1> QED BY Zenon, <1>4 DEF OwnView

\* Where the rows of the database at hand come from, from its Reset to its
\* snapshot; and what a backend has to show once it has answered, and once its
\* snapshot is taken, until the verdict.
Sourced ==
    /\ DOMAIN rows = Backends
    /\ \A n \in Backends : {"resp", "state"} \subseteq DOMAIN runs[n]
    /\ pc \in {"given", "request", "restore", "health", "inspect"} => OwnDatabase(rows[b], Writer)
    /\ pc \in {"restore", "health", "inspect", "sameAs", "judge"} => runs[b].resp \in suite.answers[b]
    /\ pc \in {"sameAs", "judge"} => OwnView(permitted, runs[b].state, Writer)
    /\ b = "kotlin" => /\ runs["go"].resp \in suite.answers["go"]
                       /\ OwnView(permitted, runs["go"].state, Writer)

\* The initial states have nothing to trace.
LEMMA InitSourced == Init => Sourced
  BY SMTT(30) DEF Init, Sourced, NoRuns, NoRun, Backends

\* A writer is a tag that fits a cell.
LEMMA WriterIsInt ==
    ASSUME Types
    PROVE  Writer \in Int
<1>1. kills \in Int /\ caseNo \in Int
  BY DEF Types
<1>2. Len(cases) \in Int
  BY SuitesAssumption DEF Types, cases, IsList
<1> QED BY <1>1, <1>2 DEF Writer

\* Only a kill counts as one.
LEMMA KillsKept ==
    ASSUME [Next]_vars
    PROVE  Kill \/ kills' = kills
  BY Zenon DEF Next, Run, vars, LoadSuite, OpenDB, WaitReady, Reset, RunStep, Outage, DoRequest, EndOutage,
         AwaitHealth, Inspect, AskSameAs, Judge, Recover, Restart, Stay, counters, DatabaseFails, RequestFails

\* A case's own request or statement leaves its own rows.
LEMMA ServesOwn ==
    ASSUME Types, Sourced, pc \in {"given", "request"}, Serves(Writer) \/ Writes(Writer)
    PROVE  DOMAIN rows' = Backends /\ OwnDatabase(rows'[b], Writer)
<1>1. Writer \in Int /\ suite \in Suites /\ b \in Backends
  BY WriterIsInt DEF Types
<1>2. DOMAIN rows = Backends /\ OwnDatabase(rows[b], Writer)
  BY Zenon DEF Sourced
<1>3. Writes(Writer) \/ UNCHANGED rows
  BY Zenon DEF Serves
<1> QED BY Zenon, <1>1, <1>2, <1>3, WriteIsOwn

\* Any request or statement leaves two databases.
LEMMA ServesSomewhere ==
    ASSUME DOMAIN rows = Backends, NEW c, Serves(c) \/ Writes(c)
    PROVE  DOMAIN rows' = Backends
  BY Zenon DEF Serves, Writes

\* Every step keeps rows and runs with the case they belong to.
LEMMA SourcedStep ==
    ASSUME IndInv, Sourced, [Next]_vars
    PROVE  Sourced'
<1>0. Types /\ Answered
  BY Zenon DEF IndInv
<1>1. suite' = suite /\ permitted' = permitted
  <2>1. suite' = suite
    BY Zenon, SuiteKept
  <2> QED BY Zenon, <2>1 DEF permitted
<1>w. UNCHANGED <<caseNo, kills>> => Writer' = Writer
  BY Zenon, <1>1 DEF Writer, cases
<1>k. UNCHANGED caseNo /\ pc' # "dead" => Writer' = Writer
  BY Zenon, <1>w, KillsKept DEF Kill
<1>a. ASSUME runs' = NoRuns, b' = "go", DOMAIN rows' = Backends,
             pc' \in {"reset", "done", "dead"}
      PROVE  Sourced'
  <2>1. \A n \in Backends : {"resp", "state"} \subseteq DOMAIN runs'[n]
    BY Zenon, <1>a DEF NoRuns, NoRun
  <2> QED BY Zenon, <1>a, <2>1 DEF Sourced
<1>b. ASSUME UNCHANGED <<caseNo, b, runs>>, DOMAIN rows' = Backends,
             pc' \in {"given", "request", "restore", "health", "inspect"}
                => OwnDatabase(rows'[b], Writer),
             pc' \in {"restore", "health", "inspect"} => runs[b].resp \in suite.answers[b],
             pc' \notin {"sameAs", "judge", "dead"}
      PROVE  Sourced'
  BY Zenon, <1>1, <1>k, <1>b DEF Sourced
<1>c. ASSUME Abort \/ NextCase(FALSE), DOMAIN rows' = Backends
      PROVE  Sourced'
  <2>1. NextCase(FALSE)
    BY Zenon, <1>c DEF Abort
  <2>2. runs' = NoRuns /\ b' = "go" /\ pc' \in {"reset", "done"}
    BY Zenon, <2>1 DEF NextCase
  <2> QED BY <1>a, <1>c, <2>2
<1>d. DOMAIN rows = Backends
  BY Zenon DEF Sourced
<1>2. CASE LoadSuite
  <2>1. UNCHANGED <<caseNo, b, runs, rows>> /\ pc' \in {"done", "open"}
    BY Zenon, <1>2 DEF LoadSuite, End, Idle, databases
  <2> QED BY <1>b, <1>d, <2>1
<1>3. ASSUME NEW n \in Backends, OpenDB(n)
      PROVE  Sourced'
  <2>1. UNCHANGED <<caseNo, b, runs, rows>> /\ pc' \in {"done", "open", "ready"}
    BY Zenon, <1>3 DEF OpenDB, Unreachable, End, databases
  <2> QED BY Zenon, <1>b, <1>d, <2>1
<1>4. CASE WaitReady
  <2>1. UNCHANGED <<caseNo, b, runs, rows>> /\ pc' \in {"done", "reset"}
    BY Zenon, <1>4 DEF WaitReady, Unreachable, End, Idle, databases
  <2> QED BY <1>b, <1>d, <2>1
<1>5. CASE Reset
  <2>1. CASE rows' = [rows EXCEPT ![b] = Seeded] /\ Goto(Given) /\ UNCHANGED runs
    <3>1. UNCHANGED <<caseNo, b, runs>> /\ pc' \in {"request", "given"}
      BY Zenon, <2>1 DEF Goto, Given
    <3>2. DOMAIN rows' = Backends /\ rows'[b] = Seeded
      BY <1>0, <1>d, <2>1 DEF Types
    <3>3. OwnDatabase(rows'[b], Writer)
      BY Zenon, <3>2, SeedIsOwn
    <3> QED BY Zenon, <1>b, <3>1, <3>2, <3>3
  <2>2. CASE Abort /\ rows' \in {rows, [rows EXCEPT ![b] = [t \in Tables |-> <<>>]]}
    <3>1. DOMAIN rows' = Backends
      BY <1>d, <2>2
    <3> QED BY Zenon, <1>c, <2>2, <3>1
  <2> QED BY Zenon, <1>5, <2>1, <2>2 DEF Reset
<1>6. CASE RunStep
  <2>1. CASE Abort \/ NextCase(FALSE)
    <3>1. UNCHANGED rows \/ Serves(Writer) \/ Writes(Writer)
      BY Zenon, <1>6 DEF RunStep, Outage
    <3>2. DOMAIN rows' = Backends
      BY Zenon, <1>d, <3>1, ServesSomewhere
    <3> QED BY Zenon, <1>c, <2>1, <3>2
  <2>2. CASE ~ (Abort \/ NextCase(FALSE))
    <3>1. /\ UNCHANGED rows \/ Serves(Writer) \/ Writes(Writer)
          /\ AfterStep /\ UNCHANGED runs /\ pc = "given"
      BY Zenon, <1>6, <2>2 DEF RunStep, Outage
    <3>2. DOMAIN rows' = Backends /\ OwnDatabase(rows'[b], Writer)
      BY Zenon, <1>0, <3>1, ServesOwn DEF Serves
    <3>3. UNCHANGED <<caseNo, b, runs>> /\ pc' \in {"given", "request"}
      BY Zenon, <3>1 DEF AfterStep, Goto
    <3> QED BY Zenon, <1>b, <3>2, <3>3
  <2> QED BY Zenon, <2>1, <2>2
<1>7. CASE DoRequest
  <2>1. DOMAIN rows' = Backends /\ OwnDatabase(rows'[b], Writer)
    BY Zenon, <1>0, <1>7, ServesOwn DEF DoRequest
  <2>2. ASSUME NEW a \in suite.answers[b], runs' = [runs EXCEPT ![b].resp = a], Goto("restore")
        PROVE  Sourced'
    <3>1. UNCHANGED <<caseNo, b>> /\ pc' = "restore"
      BY Zenon, <2>2 DEF Goto
    <3>2. /\ \A n \in Backends : {"resp", "state"} \subseteq DOMAIN runs'[n]
          /\ runs'[b].resp = a
          /\ b = "kotlin" => runs'["go"] = runs["go"]
      BY <1>0, <2>2 DEF Types, Answered, Sourced, Backends
    <3>3. b = "kotlin" => /\ runs'["go"].resp \in suite.answers["go"]
                          /\ OwnView(permitted, runs'["go"].state, Writer)
      BY Zenon, <3>2 DEF Sourced
    <3> QED BY Zenon, <1>1, <1>k, <2>1, <3>1, <3>2, <3>3 DEF Sourced
  <2> QED BY Zenon, <1>c, <1>7, <2>1, <2>2 DEF DoRequest
<1>8. CASE EndOutage
  <2>1. CASE Abort
    <3>1. rows' = rows
      BY Zenon, <1>8 DEF EndOutage
    <3> QED BY Zenon, <1>c, <1>d, <2>1, <3>1
  <2>2. CASE ~ Abort
    <3>1. UNCHANGED <<caseNo, b, runs, rows>> /\ pc' \in {"health", "inspect"} /\ pc = "restore"
      BY Zenon, <1>8, <2>2 DEF EndOutage, Goto
    <3>2. OwnDatabase(rows[b], Writer) /\ runs[b].resp \in suite.answers[b]
      BY Zenon, <3>1 DEF Sourced
    <3> QED BY SMTT(30), <1>b, <1>d, <3>1, <3>2
  <2> QED BY Zenon, <2>1, <2>2
<1>9. CASE AwaitHealth
  <2>1. CASE Abort
    <3>1. rows' = rows
      BY Zenon, <1>9 DEF AwaitHealth
    <3> QED BY Zenon, <1>c, <1>d, <2>1, <3>1
  <2>2. CASE ~ Abort
    <3>1. UNCHANGED <<caseNo, b, runs, rows>> /\ pc' = "inspect" /\ pc = "health"
      BY Zenon, <1>9, <2>2 DEF AwaitHealth, Goto
    <3>2. OwnDatabase(rows[b], Writer) /\ runs[b].resp \in suite.answers[b]
      BY Zenon, <3>1 DEF Sourced
    <3> QED BY Zenon, <1>b, <1>d, <3>1, <3>2
  <2> QED BY Zenon, <2>1, <2>2
<1>10. CASE Inspect
  <2>0. rows' = rows /\ pc = "inspect"
    BY Zenon, <1>10 DEF Inspect
  <2>1. ASSUME NEW q, NEW now \in Instants, NEW s \in Snapshots(permitted, rows[b], now),
               runs' = [runs EXCEPT ![b].state = s, ![b].rows = q], Goto("sameAs")
        PROVE  Sourced'
    <3>1. OwnDatabase(rows[b], Writer) /\ runs[b].resp \in suite.answers[b]
      BY Zenon, <2>0 DEF Sourced
    <3>2. OwnView(permitted, s, Writer)
      BY Zenon, <3>1, ViewIsOwn
    <3>3. UNCHANGED <<caseNo, b>> /\ pc' = "sameAs"
      BY Zenon, <2>1 DEF Goto
    <3> DEFINE mid == [runs EXCEPT ![b].state = s]
    <3>4. /\ DOMAIN mid = Backends
          /\ \A n \in Backends : {"resp", "state"} \subseteq DOMAIN mid[n]
          /\ mid[b].state = s /\ mid[b].resp = runs[b].resp
          /\ b = "kotlin" => mid["go"] = runs["go"]
      BY <1>0 DEF Types, Answered, Sourced, Backends
    <3>5. runs' = [mid EXCEPT ![b].rows = q]
      BY <2>1
    <3> HIDE DEF mid
    <3>6. /\ \A n \in Backends : {"resp", "state"} \subseteq DOMAIN runs'[n]
          /\ runs'[b].state = s /\ runs'[b].resp = runs[b].resp
          /\ b = "kotlin" => runs'["go"] = runs["go"]
      BY <1>0, <3>4, <3>5 DEF Types, Backends
    <3>7. b = "kotlin" => /\ runs'["go"].resp \in suite.answers["go"]
                          /\ OwnView(permitted, runs'["go"].state, Writer)
      BY Zenon, <3>6 DEF Sourced
    <3>8. Writer' = Writer
      BY Zenon, <1>k, <3>3
    <3> QED BY Zenon, <1>1, <1>d, <2>0, <3>1, <3>2, <3>3, <3>6, <3>7, <3>8 DEF Sourced
  <2> QED BY Zenon, <1>c, <1>d, <1>10, <2>0, <2>1 DEF Inspect
<1>11. CASE AskSameAs
  <2>1. DOMAIN rows' = Backends
    BY Zenon, <1>d, <1>11, ServesSomewhere DEF AskSameAs
  <2>2. ASSUME EndRun, \A n \in Backends : /\ runs'[n].resp = runs[n].resp
                                          /\ runs'[n].state = runs[n].state
                                          /\ {"resp", "state"} \subseteq DOMAIN runs'[n]
        PROVE  Sourced'
    <3>1. /\ runs[b].resp \in suite.answers[b] /\ OwnView(permitted, runs[b].state, Writer)
          /\ b = "kotlin" => runs["go"].resp \in suite.answers["go"]
                             /\ OwnView(permitted, runs["go"].state, Writer)
      BY Zenon, <1>11 DEF AskSameAs, Sourced
    <3>2. CASE b = "go"
      <4>1. b' = "kotlin" /\ pc' = "reset" /\ Writer' = Writer
        BY Zenon, <1>k, <2>2, <3>2 DEF EndRun
      <4>2. runs'["go"].resp \in suite.answers["go"] /\ OwnView(permitted, runs'["go"].state, Writer)
        BY Zenon, <2>2, <3>1, <3>2 DEF Backends
      <4> QED BY Zenon, <1>1, <2>1, <2>2, <4>1, <4>2 DEF Sourced
    <3>3. CASE b = "kotlin"
      <4>1. b' = "kotlin" /\ pc' = "judge" /\ Writer' = Writer
        BY Zenon, <1>k, <2>2, <3>3 DEF EndRun
      <4>2. /\ runs'["go"].resp \in suite.answers["go"] /\ OwnView(permitted, runs'["go"].state, Writer)
            /\ runs'["kotlin"].resp \in suite.answers["kotlin"]
            /\ OwnView(permitted, runs'["kotlin"].state, Writer)
        BY Zenon, <2>2, <3>1, <3>3 DEF Backends
      <4> QED BY Zenon, <1>1, <2>1, <2>2, <4>1, <4>2 DEF Sourced
    <3> QED BY Zenon, <1>0, <3>2, <3>3 DEF Types, Backends
  <2>3. CASE EndRun /\ UNCHANGED runs
    BY Zenon, <2>2, <2>3 DEF Sourced
  <2>4. ASSUME NEW a, runs' = [runs EXCEPT ![b].ref = a], EndRun
        PROVE  Sourced'
    <3>1. \A n \in Backends : /\ runs'[n].resp = runs[n].resp /\ runs'[n].state = runs[n].state
                              /\ {"resp", "state"} \subseteq DOMAIN runs'[n]
      BY <1>0, <2>4 DEF Types, Answered, Sourced
    <3> QED BY Zenon, <2>2, <2>4, <3>1
  <2> QED BY Zenon, <1>c, <1>11, <2>1, <2>3, <2>4 DEF AskSameAs
<1>12. CASE Judge
  <2>1. runs' = NoRuns /\ b' = "go" /\ pc' \in {"reset", "done"} /\ rows' = rows
    BY Zenon, <1>12 DEF Judge, NextCase, databases
  <2> QED BY <1>a, <1>d, <2>1
<1>13. ASSUME NEW p \in Profiles \X Backends, Recover(p)
       PROVE  Sourced'
  <2>1. UNCHANGED <<runs, b, caseNo, kills, pc, rows>>
    BY Zenon, <1>13 DEF Recover, runner, counters
  <2> QED BY Zenon, <1>1, <1>w, <2>1 DEF Sourced
<1>14. CASE Kill
  <2>1. runs' = NoRuns /\ b' = "go" /\ pc' = "dead" /\ rows' = rows
    BY Zenon, <1>14 DEF Kill, databases
  <2> QED BY <1>a, <1>d, <2>1
<1>15. CASE Restart
  <2>1. UNCHANGED <<caseNo, b, runs, rows>> /\ pc' = "load"
    BY Zenon, <1>15 DEF Restart, databases
  <2> QED BY <1>b, <1>d, <2>1
<1>16. CASE Stay \/ UNCHANGED vars
  <2>1. UNCHANGED <<runs, b, caseNo, kills, pc, rows>>
    BY Zenon, <1>16 DEF Stay, vars, runner, databases, counters
  <2> QED BY Zenon, <1>1, <1>w, <2>1 DEF Sourced
<1> QED
    BY <1>2, <1>3, <1>4, <1>5, <1>6, <1>7, <1>8, <1>9, <1>10, <1>11, <1>12, <1>13, <1>14, <1>15,
       <1>16
       DEF Next, Run

\* What a case is judged by is traced to it, through every other case, failed
\* call and killed run.
THEOREM Sourcing == Spec => []Sourced
<1>1. IndInv /\ Sourced /\ [Next]_vars => Sourced'
  BY Zenon, SourcedStep
<1> QED BY Invariance, InitSourced, <1>1, PTL DEF Spec

\* What there is to judge.
LEMMA Judged ==
    ASSUME IndInv, Sourced, pc = "judge", NEW n \in Backends
    PROVE  /\ runs[n].resp \in suite.answers[n] /\ IsAnswer(runs[n].resp)
           /\ OwnView(permitted, runs[n].state, Writer)
<1>1. b = "kotlin" /\ suite \in Suites
  BY Zenon DEF IndInv, Types, Answered
<1>2. runs[n].resp \in suite.answers[n] /\ OwnView(permitted, runs[n].state, Writer)
  BY Zenon, <1>1 DEF Sourced, Backends
<1> QED BY Zenon, <1>1, <1>2, SuitesAssumption

\* No case is judged by the rows of another, of an earlier run, or of its own
\* same_as request.
THEOREM RowsAreOwn == Spec => []OwnRowsOnly
<1>1. IndInv /\ Sourced => OwnRowsOnly
  <2> SUFFICES ASSUME IndInv, Sourced, pc = "judge"
               PROVE  OwnRowsOnly
    BY Zenon DEF OwnRowsOnly
  <2>1. \A n \in Backends : OwnView(permitted, runs[n].state, Writer)
    BY Zenon, Judged
  <2> QED BY Zenon, <2>1 DEF OwnView, Agents, OwnRowsOnly
<1> QED BY Invariance, Sourcing, <1>1, PTL

\* Comparing sorted snapshots is comparing the rows.
THEOREM SnapshotsExact == Spec => []SnapshotIsExact
<1>1. IndInv /\ Sourced => SnapshotIsExact
  <2> SUFFICES ASSUME IndInv, Sourced, pc = "judge"
               PROVE  SnapshotIsExact
    BY Zenon DEF SnapshotIsExact
  <2> DEFINE s == runs["go"].state
             o == runs["kotlin"].state
  <2>1. OwnView(permitted, s, Writer) /\ OwnView(permitted, o, Writer)
    BY Zenon, Judged DEF Backends
  <2> HIDE DEF s, o
  <2>2. /\ \A t \in Tables : \E n \in Nat : Ordered(Kept(permitted, t), s[t], n)
        /\ \A t \in Tables : \E n \in Nat : Ordered(Kept(permitted, t), o[t], n)
    BY Zenon, <2>1 DEF OwnView
  <2>3. /\ SnapshotParity(s, o) => \A t \in Tables : Correspond(t, s[t], o[t])
        /\ (\A t \in Tables : KeysDistinct(t, s[t]) /\ Correspond(t, s[t], o[t]))
           => SnapshotParity(s, o)
    BY Zenon, <2>2, SnapshotsAreExact
  <2> QED BY Zenon, <2>3 DEF SnapshotIsExact, s, o
<1> QED BY Invariance, Sourcing, <1>1, PTL

\* Two backends that answer alike pass or fail alike, whenever they answer.
THEOREM TwinsAreSpared == Spec => []TwinsPass
<1>1. IndInv /\ Sourced => TwinsPass
  <2> SUFFICES ASSUME IndInv, Sourced, pc = "judge", Allows(permitted, "date"), Measurable(Go),
                      NEW d \in -3 .. 3, Kotlin = Later(Go, d)
               PROVE  /\ assertParity(theCase, permitted, Go, Kotlin)
                      /\ (theCase.expect.statusByBackend = None
                          /\ "date" \notin DOMAIN theCase.expect.headers) =>
                             (assertExpected(theCase, Go, "go")
                              <=> assertExpected(theCase, Kotlin, "kotlin"))
    BY Zenon DEF TwinsPass
  <2>1. IsAnswer(Go)
    BY Zenon, Judged DEF Go, Backends
  <2>2. d \in Int
    OBVIOUS
  <2>3. Twins(Go, Kotlin, d)
    BY Zenon, <2>1, <2>2, LaterIsTwin
  <2>4. assertParity(theCase, permitted, Go, Kotlin)
    BY Zenon, <2>1, <2>2, <2>3, TwinParity
  <2> QED BY Zenon, <2>1, <2>2, <2>3, <2>4, TwinExpected
<1> QED BY Invariance, Sourcing, <1>1, PTL
=============================================================================
