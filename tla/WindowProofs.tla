---------------------------- MODULE WindowProofs ----------------------------
(***************************************************************************)
(* Lemmas about LoginBackoff, for all valid settings and any number of     *)
(* failures: the window RecordLoginFailure writes doubles with each        *)
(* failure until it is the cap, whichever way the logarithm was rounded.   *)
(*                                                                         *)
(* The provers know nothing of powers of two and do no induction.  The     *)
(* first are counted as sets of subsets; the second is a least             *)
(* counterexample, which the natural numbers' order always has.            *)
(***************************************************************************)
EXTENDS LoginBackoff, FiniteSetTheorems, WellFoundedInduction, TLAPS

-----------------------------------------------------------------------------
(***************************************************************************)
(* Natural numbers and powers of two.                                      *)
(***************************************************************************)

\* A set of natural numbers that is not empty has a least element.
LEMMA LeastNumber ==
    ASSUME NEW T, T \subseteq Nat, T # {}
    PROVE  \E x \in T : \A y \in T : x <= y
<1> DEFINE R == {ss \in Nat \X Nat : ss[1] < ss[2]}
<1>1. IsWellFoundedOn(OpToRel(<, Nat), Nat)
  BY Zenon, NatLessThanWellFounded
<1>2. IsWellFoundedOn(R, Nat)
  BY <1>1 DEF OpToRel
<1> HIDE DEF R
<1>3. PICK x \in T : \A y \in T : ~ (<<y, x>> \in R)
  BY Zenon, <1>2, WFMin
<1> USE DEF R
<1>4. \A y \in T : ~(y < x)
  BY Zenon, <1>3
<1> QED
  BY <1>4

\* A set of n elements has 2^n subsets: what is known of 2^n is counted on them.
LEMMA PowerCounts ==
    ASSUME NEW n \in Nat
    PROVE  /\ IsFiniteSet(SUBSET (1 .. n))
           /\ Cardinality(SUBSET (1 .. n)) = 2^n
           /\ 2^n \in Nat
<1>1. IsFiniteSet(1 .. n) /\ Cardinality(1 .. n) = n
  BY FS_Interval
<1>2. IsFiniteSet(SUBSET (1 .. n)) /\ Cardinality(SUBSET (1 .. n)) = 2^n
  BY Zenon, <1>1, FS_SUBSET
<1>3. Cardinality(SUBSET (1 .. n)) \in Nat
  BY Zenon, <1>2, FS_CardinalityType
<1> QED
  BY Zenon, <1>2, <1>3

\* The empty set has one.
LEMMA PowerZero == 2^0 = 1
<1>1. SUBSET (1 .. 0) = {{}}
  OBVIOUS
<1>2. Cardinality(SUBSET (1 .. 0)) = 1
  BY Zenon, <1>1, FS_Singleton
<1> QED
  BY Zenon, <1>2, PowerCounts, 0 \in Nat

\* One element more doubles them: those without it, and each of those with it.
LEMMA PowerStep ==
    ASSUME NEW n \in Nat
    PROVE  2^(n + 1) = 2 * 2^n
<1> DEFINE Old == SUBSET (1 .. n)
           New == {X \cup {n + 1} : X \in Old}
           f   == [X \in Old |-> X \cup {n + 1}]
<1>1. SUBSET (1 .. n + 1) = Old \cup New
  <2>1. \A X \in SUBSET (1 .. n + 1) : X \in Old \cup New
    <3> SUFFICES ASSUME NEW X \in SUBSET (1 .. n + 1)
                 PROVE  X \in Old \cup New
      OBVIOUS
    <3>1. CASE n + 1 \notin X
      BY <3>1
    <3>2. CASE n + 1 \in X
      <4>1. X \ {n + 1} \in Old
        OBVIOUS
      <4>2. X = (X \ {n + 1}) \cup {n + 1}
        BY Zenon, <3>2
      <4> QED
        BY Zenon, <4>1, <4>2
    <3> QED
      BY <3>1, <3>2
  <2>2. \A X \in Old \cup New : X \in SUBSET (1 .. n + 1)
    OBVIOUS
  <2> QED
    BY Zenon, <2>1, <2>2
<1>2. Old \cap New = {}
  OBVIOUS
<1>3. f \in Bijection(Old, New)
  <2>1. f \in [Old -> New]
    OBVIOUS
  <2>2. \A X, Y \in Old : f[X] = f[Y] => X = Y
    <3> SUFFICES ASSUME NEW X \in Old, NEW Y \in Old, X \cup {n + 1} = Y \cup {n + 1}
                 PROVE  X = Y
      BY Zenon
    <3>1. n + 1 \notin X /\ n + 1 \notin Y
      OBVIOUS
    <3>2. X = (X \cup {n + 1}) \ {n + 1} /\ Y = (Y \cup {n + 1}) \ {n + 1}
      BY <3>1
    <3> QED
      BY Zenon, <3>2
  <2>3. \A Y \in New : \E X \in Old : f[X] = Y
    BY Zenon
  <2> HIDE DEF Old, New, f
  <2> QED
    BY <2>1, <2>2, <2>3 DEF Bijection, Injection, Surjection, IsInjective
<1>4. ExistsBijection(Old, New)
  BY Zenon, <1>3 DEF ExistsBijection
<1>5. IsFiniteSet(Old) /\ Cardinality(Old) = 2^n /\ 2^n \in Nat
  BY Zenon, PowerCounts
<1>6. IsFiniteSet(New) /\ Cardinality(New) = 2^n
  BY Zenon, <1>4, <1>5, FS_Bijection
<1>7. Cardinality(Old \cap New) = 0
  BY Zenon, <1>2, FS_EmptySet
<1>8. Cardinality(Old \cup New) = Cardinality(Old) + Cardinality(New) - Cardinality(Old \cap New)
  BY Zenon, <1>5, <1>6, FS_Union
<1>9. Cardinality(Old \cup New) = 2 * 2^n
  <2> HIDE DEF Old, New
  <2> QED
    BY <1>5, <1>6, <1>7, <1>8
<1>10. Cardinality(SUBSET (1 .. n + 1)) = 2^(n + 1)
  <2>1. n + 1 \in Nat
    OBVIOUS
  <2> QED
    BY Zenon, <2>1, PowerCounts
<1> QED
  BY Zenon, <1>1, <1>9, <1>10

\* A power of two exceeds its exponent.
LEMMA PowerGrows ==
    ASSUME NEW n \in Nat
    PROVE  2^n > n
<1> DEFINE T == {m \in Nat : ~ (2^m > m)}
<1> SUFFICES T = {}
  OBVIOUS
<1> SUFFICES ASSUME T # {}
             PROVE  FALSE
  OBVIOUS
<1>1. PICK m \in T : \A y \in T : m <= y
  <2>1. T \subseteq Nat
    OBVIOUS
  <2> HIDE DEF T
  <2> QED
    BY Zenon, <2>1, LeastNumber
<1>2. CASE m = 0
  BY <1>2, PowerZero
<1>3. CASE m # 0
  <2>1. m - 1 \in Nat /\ m - 1 \notin T
    BY <1>1, <1>3
  <2>2. 2^(m - 1) > m - 1
    BY <2>1
  <2>3. 2^(m - 1) \in Nat /\ 2^((m - 1) + 1) = 2 * 2^(m - 1)
    BY Zenon, <2>1, PowerStep, PowerCounts
  <2>4. (m - 1) + 1 = m
    OBVIOUS
  <2>5. 2^m = 2 * 2^(m - 1)
    BY Zenon, <2>3, <2>4
  <2>6. 2 * 2^(m - 1) > m
    BY <2>1, <2>2, <2>3, <1>3
  <2> QED
    BY <2>5, <2>6
<1> QED
  BY <1>2, <1>3

-----------------------------------------------------------------------------
(***************************************************************************)
(* The exponent.                                                           *)
(***************************************************************************)

\* What config.validate lets through.
LEMMA SettingsType ==
    ASSUME NEW s \in ValidSettings
    PROVE  /\ s.first \in Nat /\ s.first > 0 /\ s.max \in Nat /\ s.first <= s.max
           /\ s.error \in {-1, 0, 1}
  BY DEF ValidSettings

\* A window before it is capped is a natural number of ticks, and one more
\* doubling doubles it.
LEMMA ProductType ==
    ASSUME NEW s \in ValidSettings, NEW d \in Nat
    PROVE  /\ s.first * 2^d \in Nat
           /\ s.first * 2^(d + 1) = 2 * (s.first * 2^d)
<1>1. 2^d \in Nat /\ 2^(d + 1) = 2 * 2^d
  BY Zenon, PowerCounts, PowerStep
<1>2. \A p \in Nat : s.first * p \in Nat /\ s.first * (2 * p) = 2 * (s.first * p)
  BY SettingsType
<1> QED
  BY Zenon, <1>1, <1>2

\* The cap is reached after some number of doublings, and CeilLog2Ratio is the
\* first such number.
LEMMA CeilReaches ==
    ASSUME NEW s \in ValidSettings
    PROVE  /\ CeilLog2Ratio(s) \in Nat
           /\ s.first * 2^CeilLog2Ratio(s) >= s.max
           /\ \A d \in 0 .. CeilLog2Ratio(s) - 1 : s.first * 2^d < s.max
<1> DEFINE T == {e \in Nat : s.first * 2^e >= s.max}
           First(e) == /\ s.first * Doublings(e) >= s.max
                       /\ \A d \in 0 .. e - 1 : s.first * Doublings(d) < s.max
<1>1. s.max \in T
  <2>1. 2^s.max \in Nat /\ 2^s.max > s.max
    BY SettingsType, PowerGrows, PowerCounts
  <2>2. \A p \in Nat : s.first * p >= p
    BY SettingsType
  <2>3. s.first * 2^s.max >= 2^s.max /\ s.first * 2^s.max \in Nat
    BY <2>1, <2>2, SettingsType
  <2> QED
    BY <2>1, <2>3, SettingsType
<1>2. PICK e \in T : \A y \in T : e <= y
  <2>1. T \subseteq Nat /\ T # {}
    BY <1>1
  <2> HIDE DEF T
  <2> QED
    BY Zenon, <2>1, LeastNumber
<1>3. e \in 0 .. s.max
  BY <1>1, <1>2, SettingsType
<1>4. \A d \in Nat : s.first * 2^d \in Nat
  BY SettingsType, ProductType
<1>5. \A d \in 0 .. e - 1 : s.first * 2^d < s.max
  BY <1>2, <1>4, SettingsType
<1>6. First(e)
  BY <1>2, <1>5 DEF Doublings
<1>7. CeilLog2Ratio(s) = CHOOSE f \in 0 .. s.max : First(f)
  BY Zenon DEF CeilLog2Ratio
<1> HIDE DEF First
<1>8. CeilLog2Ratio(s) \in 0 .. s.max /\ First(CeilLog2Ratio(s))
  BY Zenon, <1>3, <1>6, <1>7
<1> USE DEF First
<1>9. CeilLog2Ratio(s) \in Nat
  BY <1>8, SettingsType
<1> QED
  BY Zenon, <1>8, <1>9 DEF Doublings

\* The exponent stops within one of where it should plus one.
LEMMA CapNearCeil ==
    ASSUME NEW s \in ValidSettings
    PROVE  \E k \in {0, 1, 2} : ExponentCap(s) = CeilLog2Ratio(s) + k
  BY SettingsType, CeilReaches DEF ExponentCap

\* Wherever it stops, the cap has been reached.
LEMMA CapReaches ==
    ASSUME NEW s \in ValidSettings
    PROVE  ExponentCap(s) \in Nat /\ s.first * 2^ExponentCap(s) >= s.max
<1> DEFINE C == CeilLog2Ratio(s)
<1>1. C \in Nat /\ s.first * 2^C >= s.max /\ s.max \in Nat
  BY Zenon, CeilReaches, SettingsType
<1>2. s.first * 2^C \in Nat /\ s.first * 2^(C + 1) = 2 * (s.first * 2^C)
  BY Zenon, <1>1, ProductType
<1>3. C + 1 \in Nat /\ (C + 1) + 1 = C + 2
  BY <1>1
<1>4. s.first * 2^((C + 1) + 1) = 2 * (s.first * 2^(C + 1))
  BY Zenon, <1>3, ProductType
<1>5. s.first * 2^(C + 2) = 2 * (s.first * 2^(C + 1))
  BY Zenon, <1>3, <1>4
<1>6. s.first * 2^(C + 0) >= s.max /\ s.first * 2^(C + 1) >= s.max /\ s.first * 2^(C + 2) >= s.max
  <2>1. C + 0 = C
    BY <1>1
  <2> HIDE DEF C
  <2> QED
    BY <1>1, <1>2, <1>5, <2>1
<1>7. PICK k \in {0, 1, 2} : ExponentCap(s) = C + k
  BY Zenon, CapNearCeil
<1>8. C + k \in Nat
  BY <1>1, <1>7
<1> QED
  BY Zenon, <1>6, <1>7, <1>8

\* No product RecordLoginFailure computes is longer than eight caps.
LEMMA ProductBounded ==
    ASSUME NEW s \in ValidSettings, NEW n \in Nat
    PROVE  s.first * 2^Exponent(s, n) <= 8 * s.max
<1> DEFINE C == CeilLog2Ratio(s)
           P(e) == s.first * 2^e
<1>1. C \in Nat /\ P(C) >= s.max /\ s.max \in Nat /\ s.first <= s.max /\ s.first \in Nat
  BY Zenon, CeilReaches, SettingsType
<1>2. \A d \in 0 .. C - 1 : P(d) < s.max
  BY Zenon, CeilReaches
<1>3. \A d \in Nat : P(d) \in Nat /\ P(d + 1) = 2 * P(d)
  BY Zenon, ProductType
<1>4. P(0) = s.first
  BY <1>1, PowerZero
<1> HIDE DEF P, C
<1>5. P(C) <= 2 * s.max
  <2>1. CASE C = 0
    BY <1>1, <1>4, <2>1
  <2>2. CASE C # 0
    <3>1. C - 1 \in Nat /\ C - 1 \in 0 .. C - 1 /\ (C - 1) + 1 = C
      BY <1>1, <2>2
    <3>2. P(C - 1) \in Nat /\ P((C - 1) + 1) = 2 * P(C - 1) /\ P(C - 1) < s.max
      BY Zenon, <1>2, <1>3, <3>1
    <3>3. P(C) = 2 * P(C - 1)
      BY Zenon, <3>1, <3>2
    <3> QED
      BY <1>1, <3>2, <3>3
  <2> QED
    BY <2>1, <2>2
<1>6. P(C + 1) <= 4 * s.max /\ P(C + 2) <= 8 * s.max
  <2>1. C + 1 \in Nat /\ (C + 1) + 1 = C + 2
    BY <1>1
  <2>2. P(C + 1) = 2 * P(C) /\ P((C + 1) + 1) = 2 * P(C + 1) /\ P(C) \in Nat
    BY Zenon, <1>1, <1>3, <2>1
  <2>3. P(C + 2) = 2 * P(C + 1)
    BY Zenon, <2>1, <2>2
  <2> QED
    BY <1>1, <1>5, <2>2, <2>3
<1>7. PICK k \in {0, 1, 2} : ExponentCap(s) = C + k
  BY Zenon, CapNearCeil DEF C
<1>8. Exponent(s, n) \in 0 .. C - 1 \/ Exponent(s, n) \in {C, C + 1, C + 2}
  BY <1>1, <1>7 DEF Exponent, Least
<1>9. CASE Exponent(s, n) \in 0 .. C - 1
  <2>1. P(Exponent(s, n)) < s.max /\ Exponent(s, n) \in Nat
    BY <1>1, <1>2, <1>9
  <2>2. P(Exponent(s, n)) \in Nat
    BY Zenon, <1>3, <2>1
  <2>3. P(Exponent(s, n)) <= 8 * s.max
    BY <1>1, <2>1, <2>2
  <2> QED
    BY <2>3 DEF P
<1>10. CASE Exponent(s, n) \in {C, C + 1, C + 2}
  <2>1. P(C) \in Nat /\ P(C + 1) \in Nat
    BY <1>1, <1>3
  <2>2. P(C) <= 8 * s.max /\ P(C + 1) <= 8 * s.max /\ P(C + 2) <= 8 * s.max
    BY <1>1, <1>5, <1>6, <2>1
  <2>3. P(Exponent(s, n)) <= 8 * s.max
    BY Zenon, <1>10, <2>2
  <2> QED
    BY <2>3 DEF P
<1> QED
  BY <1>8, <1>9, <1>10

-----------------------------------------------------------------------------
(***************************************************************************)
(* The window.                                                             *)
(***************************************************************************)

\* The inserted row's window is no exception: the first one is one undoubled.
LEMMA WindowUniform ==
    ASSUME NEW s \in ValidSettings, NEW n \in Nat
    PROVE  /\ Exponent(s, n) \in Nat
           /\ Window(s, n) = Least(s.first * 2^Exponent(s, n), s.max)
<1>1. ExponentCap(s) \in Nat
  BY CapReaches
<1>2. Exponent(s, n) \in Nat
  BY <1>1 DEF Exponent, Least
<1>3. CASE n # 0
  BY Zenon, <1>2, <1>3 DEF Window, Doublings
<1>4. CASE n = 0
  <2>1. Exponent(s, n) = 0
    BY <1>1, <1>4 DEF Exponent, Least
  <2>2. s.first * 2^Exponent(s, n) = s.first
    BY <2>1, PowerZero, SettingsType
  <2>3. Least(s.first, s.max) = s.first
    BY SettingsType DEF Least
  <2> QED
    BY Zenon, <1>2, <1>4, <2>2, <2>3 DEF Window
<1> QED
  BY <1>3, <1>4

\* The window RecordLoginFailure writes is a natural number of ticks and never
\* longer than LOGIN_MAX_BACKOFF, however many failures the row holds.
LEMMA WindowBounded ==
    ASSUME NEW s \in ValidSettings, NEW n \in Nat
    PROVE  Window(s, n) \in Nat /\ Window(s, n) <= s.max
<1>1. s.first * 2^Exponent(s, n) \in Nat
  BY Zenon, WindowUniform, ProductType
<1> QED
  BY <1>1, WindowUniform, SettingsType DEF Least

\* One failure more doubles the window, up to the cap: where the exponent has
\* stopped, the window is the cap already.
LEMMA WindowDoubles ==
    ASSUME NEW s \in ValidSettings, NEW n \in Nat
    PROVE  Window(s, n + 1) = Least(2 * Window(s, n), s.max)
<1> DEFINE P(e) == s.first * 2^e
           E(m) == Exponent(s, m)
<1>1. n + 1 \in Nat /\ s.max \in Nat
  BY SettingsType
<1>2. /\ E(n) \in Nat /\ Window(s, n) = Least(P(E(n)), s.max)
      /\ E(n + 1) \in Nat /\ Window(s, n + 1) = Least(P(E(n + 1)), s.max)
  BY Zenon, <1>1, WindowUniform
<1>3. \A d \in Nat : P(d) \in Nat /\ P(d + 1) = 2 * P(d)
  BY Zenon, ProductType
<1>4. ExponentCap(s) \in Nat /\ P(ExponentCap(s)) >= s.max
  BY Zenon, CapReaches
<1>5. CASE n < ExponentCap(s)
  <2>1. E(n) = n /\ E(n + 1) = n + 1
    BY <1>4, <1>5 DEF Exponent, Least
  <2> HIDE DEF P, E
  <2>2. P(E(n + 1)) = 2 * P(E(n)) /\ P(E(n)) \in Nat
    BY Zenon, <1>3, <2>1
  <2> QED
    BY <1>1, <1>2, <2>2 DEF Least
<1>6. CASE ~ (n < ExponentCap(s))
  <2>1. E(n) = ExponentCap(s) /\ E(n + 1) = ExponentCap(s)
    BY <1>4, <1>6 DEF Exponent, Least
  <2> HIDE DEF P, E
  <2>2. P(ExponentCap(s)) \in Nat
    BY Zenon, <1>3, <1>4
  <2>3. Least(P(ExponentCap(s)), s.max) = s.max /\ Least(2 * s.max, s.max) = s.max
    BY <1>1, <1>4, <2>2 DEF Least
  <2> QED
    BY Zenon, <1>2, <2>1, <2>3
<1> QED
  BY <1>5, <1>6

\* So it never gets shorter.
LEMMA WindowGrows ==
    ASSUME NEW s \in ValidSettings, NEW n \in Nat
    PROVE  Window(s, n) <= Window(s, n + 1)
  BY WindowBounded, WindowDoubles, SettingsType DEF Least

\* A recorded failure leaves a row.
LEMMA RecordedRow ==
    ASSUME NEW s \in ValidSettings, NEW r \in Row, NEW t \in Nat
    PROVE  /\ RecordLoginFailure(s, r, t) \in Row
           /\ RecordLoginFailure(s, r, t).until <= t + s.max
<1>1. Window(s, r.count) \in Nat /\ Window(s, r.count) <= s.max
  BY WindowBounded DEF Row
<1> QED
  BY <1>1, SettingsType DEF RecordLoginFailure, Row
=============================================================================
