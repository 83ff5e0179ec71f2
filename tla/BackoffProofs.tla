---------------------------- MODULE BackoffProofs ---------------------------
(***************************************************************************)
(* Proofs about BackoffCurve, for all valid settings and any number of     *)
(* failures: the row follows the curve of login_backoff.json, and the      *)
(* Retry-After of a 429 is enough and no more than that.  What is known of *)
(* the window RecordLoginFailure writes comes from WindowProofs.           *)
(***************************************************************************)
EXTENDS BackoffCurve, WindowProofs

-----------------------------------------------------------------------------
(***************************************************************************)
(* The inductive invariant.  It ties the row to the failures behind it,    *)
(* and what a caller was told to the row it was computed from, for as long *)
(* as no further failure has replaced that row.                            *)
(***************************************************************************)

Types ==
    /\ config \in Configs
    /\ row \in Row
    /\ now \in Nat
    /\ failures \in 0 .. MaxFailures
    /\ at \in 0 .. now
    /\ told.when \in 0 .. now /\ told.retry \in Nat /\ told.failures \in -1 .. failures

\* The row counts the failures, and its window is the last one's.
Counts ==
    /\ row.count = failures
    /\ failures = 0 => row.until = 0
    /\ failures > 0 => row.until = at + Window(config, failures - 1)

\* What was last said is what was left of the row as it still is.
Told ==
    told.failures = failures =>
        /\ row.until > told.when
        /\ told.retry = RetryAfter(row.until - told.when)

IndInv == Types /\ Counts /\ Told

-----------------------------------------------------------------------------

LEMMA ConfigValid ==
    ASSUME NEW c \in Configs
    PROVE  c \in ValidSettings /\ 8 * c.max <= IntervalMax
  BY CurveAssumption

\* The product stays far below what an interval holds: RecordLoginFailure never
\* fails on it.
LEMMA NeverOverflows ==
    ASSUME Types
    PROVE  ~ Overflows(row.count)
<1>1. config \in ValidSettings /\ 8 * config.max <= IntervalMax /\ row.count \in Nat
  BY ConfigValid DEF Types, Row
<1>2. config.first * 2^Exponent(config, row.count) <= 8 * config.max
  BY Zenon, <1>1, ProductBounded
<1>3. config.first * 2^Exponent(config, row.count) \in Nat
  BY Zenon, <1>1, WindowUniform, ProductType
<1>4. config.max \in Nat
  BY Zenon, <1>1, SettingsType
<1> QED
  BY <1>1, <1>2, <1>3, <1>4, CurveAssumption DEF Overflows, Doublings

\* The one key's wait is what is left of its window.
LEMMA WaitIsRest ==
    ASSUME NEW r \in Row, NEW t \in Nat
    PROVE  LET wait == GetLoginBackoff([k \in {1} |-> r], {1}, t)
           IN  wait > 0 => Active(r, t) /\ wait = r.until - t
<1> DEFINE open == {k \in {1} : Active([j \in {1} |-> r][k], t)}
           ends == {[j \in {1} |-> r][k].until : k \in open}
<1>1. CASE ~ Active(r, t)
  <2>1. open = {}
    BY <1>1
  <2> QED
    BY <2>1 DEF GetLoginBackoff
<1>2. CASE Active(r, t)
  <2>1. open = {1} /\ ends = {r.until}
    BY <1>2
  <2>2. (CHOOSE u \in ends : \A k \in open : [j \in {1} |-> r][k].until <= u) = r.until
    <3>1. \A k \in open : [j \in {1} |-> r][k].until <= r.until
      BY <2>1 DEF Row
    <3> HIDE DEF open
    <3> QED
      BY <2>1, <3>1
  <2> QED
    BY Zenon, <1>2, <2>1, <2>2 DEF GetLoginBackoff
<1> QED
  BY <1>1, <1>2

LEMMA InvInit == Init => IndInv
  BY CurveAssumption DEF Init, IndInv, Types, Counts, Told, NoRow, NotTold, Row

LEMMA InvStep == IndInv /\ [Next]_vars => IndInv'
<1> SUFFICES ASSUME IndInv, [Next]_vars
             PROVE  IndInv'
  OBVIOUS
<1> USE DEF IndInv
<1>1. CASE RecordFailure
  <2>1. row' = RecordLoginFailure(config, row, at') /\ at' \in 0 .. now
    BY <1>1, NeverOverflows DEF RecordFailure
  <2>2. config \in ValidSettings /\ row \in Row /\ at' \in Nat
    BY <2>1, ConfigValid DEF Types
  <2>3. row' \in Row
    BY Zenon, <2>1, <2>2, RecordedRow
  <2>4. row'.count = row.count + 1 /\ row'.until = at' + Window(config, row.count)
    BY <2>1 DEF RecordLoginFailure
  <2>5. Types'
    BY <1>1, <2>1, <2>3, CurveAssumption DEF RecordFailure, Types
  <2>6. Counts'
    BY <1>1, <2>4 DEF RecordFailure, Types, Counts
  <2>7. Told'
    BY <1>1 DEF RecordFailure, Types, Told
  <2> QED
    BY <2>5, <2>6, <2>7
<1>2. CASE Throttled
  <2> DEFINE wait == GetLoginBackoff([k \in {1} |-> row], {1}, now)
  <2>1. /\ wait > 0 /\ told' = [when |-> now, retry |-> RetryAfter(wait), failures |-> failures]
        /\ UNCHANGED <<config, row, now, failures, at>>
    BY <1>2 DEF Throttled
  <2>2. Active(row, now) /\ wait = row.until - now
    BY Zenon, <2>1, WaitIsRest DEF Types
  <2> HIDE DEF wait
  <2>3. RetryAfter(wait) \in Nat
    BY <2>1, <2>2, TicksAssumption DEF RetryAfter, Types, Row
  <2>4. Types'
    BY <2>1, <2>3 DEF Types
  <2>5. Counts'
    BY <2>1 DEF Counts
  <2>6. Told'
    BY <2>1, <2>2 DEF Told, Active, RetryAfter
  <2> QED
    BY <2>4, <2>5, <2>6
<1>3. CASE ClearAttempts
  BY <1>3, CurveAssumption DEF ClearAttempts, Types, Counts, Told, NoRow, NotTold, Row
<1>4. CASE Tick
  <2>1. Types'
    BY <1>4 DEF Tick, Types
  <2>2. Counts' /\ Told'
    BY <1>4 DEF Tick, Counts, Told, RetryAfter
  <2> QED
    BY <2>1, <2>2
<1>5. CASE UNCHANGED vars
  <2>1. Types'
    BY <1>5 DEF vars, Types
  <2>2. Counts' /\ Told'
    BY <1>5 DEF vars, Counts, Told, RetryAfter
  <2> QED
    BY <2>1, <2>2
<1> QED
  BY <1>1, <1>2, <1>3, <1>4, <1>5 DEF Next

LEMMA Invariance == Spec => []IndInv
  BY InvInit, InvStep, PTL DEF Spec

-----------------------------------------------------------------------------
(***************************************************************************)
(* The curve.                                                              *)
(***************************************************************************)

\* A function that satisfies the curve's equation, given by the windows.
LEMMA CurveEquation ==
    ASSUME Types
    PROVE  Curve = [n \in 1 .. MaxFailures |->
                       IF n = 1 THEN config.first
                       ELSE IF 2 * Curve[n - 1] <= config.max THEN 2 * Curve[n - 1]
                       ELSE config.max]
<1> DEFINE f == [n \in 1 .. MaxFailures |-> Window(config, n - 1)]
<1>1. \A n \in 1 .. MaxFailures :
         f[n] = IF n = 1 THEN config.first
                ELSE IF 2 * f[n - 1] <= config.max THEN 2 * f[n - 1] ELSE config.max
  <2> SUFFICES ASSUME NEW n \in 1 .. MaxFailures
               PROVE  f[n] = IF n = 1 THEN config.first
                             ELSE IF 2 * f[n - 1] <= config.max THEN 2 * f[n - 1]
                             ELSE config.max
    OBVIOUS
  <2>1. CASE n = 1
    BY <2>1 DEF Window
  <2>2. CASE n # 1
    <3>1. n - 2 \in Nat /\ n - 1 \in 1 .. MaxFailures /\ (n - 2) + 1 = n - 1 /\ (n - 1) - 1 = n - 2
      BY <2>2, CurveAssumption
    <3>2. Window(config, (n - 2) + 1) = Least(2 * Window(config, n - 2), config.max)
      BY Zenon, <3>1, WindowDoubles, ConfigValid DEF Types
    <3>3. f[n] = Window(config, n - 1)
      OBVIOUS
    <3>4. f[n - 1] = Window(config, (n - 1) - 1)
      BY Zenon, <3>1
    <3>5. f[n] = Least(2 * f[n - 1], config.max)
      BY Zenon, <3>1, <3>2, <3>3, <3>4
    <3> QED
      BY Zenon, <2>2, <3>5 DEF Least
  <2> QED
    BY <2>1, <2>2
<1>2. f = [n \in 1 .. MaxFailures |->
              IF n = 1 THEN config.first
              ELSE IF 2 * f[n - 1] <= config.max THEN 2 * f[n - 1] ELSE config.max]
  BY Zenon, <1>1
<1> HIDE DEF f
<1> QED
  BY Zenon, <1>2 DEF Curve

\* The window after n failures is the curve's n-th value.
LEMMA WindowOnCurve ==
    ASSUME Types, NEW n \in 1 .. MaxFailures
    PROVE  Curve[n] = Window(config, n - 1)
<1> DEFINE T == {m \in 1 .. MaxFailures : Curve[m] # Window(config, m - 1)}
<1> SUFFICES ASSUME T # {}
             PROVE  FALSE
  OBVIOUS
<1>1. PICK m \in T : \A y \in T : m <= y
  <2>1. T \subseteq Nat
    BY CurveAssumption
  <2> HIDE DEF T
  <2> QED
    BY Zenon, <2>1, LeastNumber
<1>2. \A k \in 1 .. MaxFailures :
         Curve[k] = IF k = 1 THEN config.first
                    ELSE IF 2 * Curve[k - 1] <= config.max THEN 2 * Curve[k - 1]
                    ELSE config.max
  BY Zenon, CurveEquation
<1>3. CASE m = 1
  <2>1. Curve[m] = config.first
    BY Zenon, <1>2, <1>3
  <2>2. Window(config, m - 1) = config.first
    BY <1>3 DEF Window
  <2> QED
    BY <2>1, <2>2
<1>4. CASE m # 1
  <2>1. m - 2 \in Nat /\ m - 1 \in 1 .. MaxFailures /\ m - 1 \notin T
        /\ (m - 2) + 1 = m - 1 /\ (m - 1) - 1 = m - 2
    BY <1>1, <1>4, CurveAssumption
  <2>2. Curve[m - 1] = Window(config, m - 2)
    BY <2>1
  <2>3. Window(config, (m - 2) + 1) = Least(2 * Window(config, m - 2), config.max)
    BY Zenon, <2>1, WindowDoubles, ConfigValid DEF Types
  <2>4. Curve[m] = IF 2 * Curve[m - 1] <= config.max THEN 2 * Curve[m - 1] ELSE config.max
    BY Zenon, <1>2, <1>4
  <2>5. Curve[m] = Least(2 * Window(config, m - 2), config.max)
    BY Zenon, <2>2, <2>4 DEF Least
  <2> QED
    BY Zenon, <2>1, <2>3, <2>5
<1> QED
  BY <1>3, <1>4

\* After n failures in a row the row holds n of them and its window ends one
\* curve value after the last: for every first window and cap, whichever way the
\* database rounds the logarithm, RecordLoginFailure doubles exactly to the cap.
THEOREM CurveFollowed == Spec => []FollowsCurve
<1>1. IndInv => FollowsCurve
  <2> SUFFICES ASSUME IndInv, failures > 0
               PROVE  row.count = failures /\ row.until = at + Curve[failures]
    BY DEF FollowsCurve
  <2>1. failures \in 1 .. MaxFailures
    BY CurveAssumption DEF IndInv, Types
  <2>2. Curve[failures] = Window(config, failures - 1)
    BY Zenon, <2>1, WindowOnCurve DEF IndInv
  <2> QED
    BY <2>2 DEF IndInv, Counts
<1> QED
  BY <1>1, Invariance, PTL

\* Truncated division leaves less than the divisor.
LEMMA Quotient ==
    ASSUME NEW w \in Nat, NEW d \in Nat \ {0}
    PROVE  /\ w \div d \in Nat
           /\ (w \div d) * d <= w
           /\ w < (w \div d + 1) * d
  OBVIOUS

\* Whoever waits for the Retry-After it was told, and sees no further failure
\* recorded meanwhile, is not throttled again; a second less would have been too
\* little or just enough.
THEOREM WaitIsEnough == Spec => []RetryAfterIsEnough
<1>1. IndInv => RetryAfterIsEnough
  <2> SUFFICES ASSUME IndInv, told.failures = failures
               PROVE  /\ now >= told.when + told.retry * TicksPerSecond => ~ Active(row, now)
                      /\ told.when + (told.retry - 1) * TicksPerSecond <= row.until
    BY DEF RetryAfterIsEnough
  <2> DEFINE w == row.until - told.when
             q == w \div TicksPerSecond
  <2>1. w \in Nat /\ told.retry = q + 1 /\ TicksPerSecond \in Nat \ {0}
    BY TicksAssumption DEF IndInv, Types, Told, Row, RetryAfter
  <2>2. q \in Nat /\ q * TicksPerSecond <= w /\ w < (q + 1) * TicksPerSecond
    BY Zenon, <2>1, Quotient
  <2>3. row.until \in Nat /\ told.when \in Nat /\ now \in Nat
    BY DEF IndInv, Types, Row
  <2>4. (told.retry - 1) * TicksPerSecond = q * TicksPerSecond
        /\ told.retry * TicksPerSecond = (q + 1) * TicksPerSecond
    <3>1. told.retry - 1 = q
      BY <2>1, <2>2
    <3> QED
      BY Zenon, <2>1, <3>1
  <2> HIDE DEF q
  <2>5. \A x \in Nat : q * x \in Nat /\ (q + 1) * x \in Nat
    BY <2>2
  <2>6. q * TicksPerSecond \in Nat /\ (q + 1) * TicksPerSecond \in Nat
    BY <2>1, <2>5
  <2> QED
    BY <2>2, <2>3, <2>4, <2>6 DEF Active
<1> QED
  BY <1>1, Invariance, PTL
=============================================================================
