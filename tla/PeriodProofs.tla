---------------------------- MODULE PeriodProofs ----------------------------
EXTENDS Period, TLAPS

\* big.Int's QuoRem: the quotient and the remainder make up the numerator, and
\* the remainder is smaller than the denominator and has the numerator's sign.
LEMMA QuoRem ==
    ASSUME NEW n \in Int, NEW d \in Nat, d > 0
    PROVE  /\ Quo(n, d) \in Int
           /\ Rem(n, d) \in Int
           /\ n = d * Quo(n, d) + Rem(n, d)
           /\ n >= 0 => 0 <= Rem(n, d) /\ Rem(n, d) < d
           /\ n < 0 => -d < Rem(n, d) /\ Rem(n, d) <= 0
<1>1. \A m \in Nat : m \div d \in Int /\ d * (m \div d) <= m /\ m < d * (m \div d) + d
  BY SMTT(30)
<1> QED
  BY <1>1 DEF Quo, Rem

\* floorAt4dp is the greatest unit not above the exact value, below zero too.
LEMMA FloorBelow ==
    ASSUME NEW n \in Int, NEW d \in Nat, d > 0
    PROVE  /\ floorAt4dp(n, d) \in Int
           /\ floorAt4dp(n, d) * d <= n
           /\ n < (floorAt4dp(n, d) + 1) * d
<1> DEFINE q == Quo(n, d)
           m == Rem(n, d)
<1>1. /\ q \in Int
      /\ m \in Int
      /\ n = d * q + m
      /\ n >= 0 => 0 <= m /\ m < d
      /\ n < 0 => -d < m /\ m <= 0
  BY QuoRem
<1>2. /\ q * d = d * q
      /\ (q + 1) * d = d * q + d
      /\ (q - 1) * d = d * q - d
      /\ (q - 1 + 1) * d = d * q
  BY <1>1
<1>3. floorAt4dp(n, d) = IF m # 0 /\ n < 0 THEN q - 1 ELSE q
  BY DEF floorAt4dp
<1> HIDE DEF q, m
<1>4. CASE m # 0 /\ n < 0
  BY <1>1, <1>2, <1>3, <1>4
<1>5. CASE ~ (m # 0 /\ n < 0)
  BY <1>1, <1>2, <1>3, <1>5
<1> QED
  BY <1>4, <1>5

\* halfUpAt4dp is within half a unit of the exact value, and a tie goes away
\* from zero.
LEMMA HalfUpNearest ==
    ASSUME NEW n \in Int, NEW d \in Nat, d > 0
    PROVE  /\ halfUpAt4dp(n, d) \in Int
           /\ 2 * Magnitude(halfUpAt4dp(n, d) * d - n) <= d
           /\ 2 * Magnitude(halfUpAt4dp(n, d) * d - n) = d
                  => Magnitude(halfUpAt4dp(n, d) * d) > Magnitude(n)
<1> DEFINE q == Quo(n, d)
           m == Rem(n, d)
           h == halfUpAt4dp(n, d)
<1>1. /\ q \in Int
      /\ m \in Int
      /\ n = d * q + m
      /\ n >= 0 => 0 <= m /\ m < d
      /\ n < 0 => -d < m /\ m <= 0
  BY QuoRem
<1>2. /\ q * d \in Int
      /\ q * d = d * q
      /\ (q + 1) * d = d * q + d
      /\ (q - 1) * d = d * q - d
  BY <1>1
<1>3. h = IF 2 * Magnitude(m) >= d
          THEN IF n >= 0 THEN q + 1 ELSE q - 1
          ELSE q
  BY DEF halfUpAt4dp
<1> HIDE DEF q, m, h
<1>4. CASE 2 * Magnitude(m) >= d /\ n >= 0
  <2>1. h = q + 1 /\ h * d = d * q + d
    BY <1>2, <1>3, <1>4
  <2> QED
    BY <1>1, <1>4, <2>1 DEF Magnitude, h
<1>5. CASE 2 * Magnitude(m) >= d /\ n < 0
  <2>1. h = q - 1 /\ h * d = d * q - d
    BY <1>2, <1>3, <1>5
  <2> QED
    BY <1>1, <1>5, <2>1 DEF Magnitude, h
<1>6. CASE ~ (2 * Magnitude(m) >= d)
  <2>1. h = q /\ h * d = d * q
    BY <1>2, <1>3, <1>6
  <2> QED
    BY <1>1, <1>6, <2>1 DEF Magnitude, h
<1> QED
  BY <1>4, <1>5, <1>6

\* Rounding half up keeps the order of what it rounds.
LEMMA HalfUpMonotone ==
    ASSUME NEW n1 \in Int, NEW n2 \in Int, NEW d \in Nat, d > 0, n1 <= n2
    PROVE  halfUpAt4dp(n1, d) <= halfUpAt4dp(n2, d)
<1> DEFINE h1 == halfUpAt4dp(n1, d)
           h2 == halfUpAt4dp(n2, d)
<1>9. /\ h1 \in Int /\ 2 * Magnitude(h1 * d - n1) <= d
      /\ h2 \in Int /\ 2 * Magnitude(h2 * d - n2) <= d
  BY HalfUpNearest
<1>8. \A x \in Int : 2 * Magnitude(x) <= d => 2 * x <= d /\ 2 * x >= -d
  BY DEF Magnitude
<1>2. n1 = n2 => h1 = h2
  OBVIOUS
<1> HIDE DEF h1, h2
<1>1. /\ h1 \in Int /\ 2 * (h1 * d - n1) <= d
      /\ h2 \in Int /\ 2 * (h2 * d - n2) >= -d
  <2>1. h1 * d - n1 \in Int /\ h2 * d - n2 \in Int
    BY <1>9
  <2> QED
    BY <1>9, <1>8, <2>1
<1>3. SUFFICES ASSUME h1 >= h2 + 1 PROVE FALSE
  BY <1>1 DEF h1, h2
<1>4. h1 * d >= (h2 + 1) * d /\ (h2 + 1) * d = h2 * d + d
  BY <1>1, <1>3
<1>5. h1 * d \in Int /\ h2 * d \in Int
  BY <1>1
<1>6. n1 = n2
  BY <1>1, <1>4, <1>5
<1> QED
  BY <1>1, <1>2, <1>3, <1>6

\* Rounding a whole number of units returns it.
LEMMA HalfUpExact ==
    ASSUME NEW a \in Int, NEW d \in Nat, d > 0
    PROVE  halfUpAt4dp(a * d, d) = a
<1> DEFINE h == halfUpAt4dp(a * d, d)
<1>1. h \in Int /\ a * d \in Int /\ 2 * Magnitude(h * d - a * d) <= d
  BY HalfUpNearest
<1> HIDE DEF h
<1>2. h * d - a * d = (h - a) * d
  BY <1>1
<1>3. h - a >= 1 => (h - a) * d >= d
  BY <1>1
<1>4. h - a <= -1 => (h - a) * d <= -d
  BY <1>1
<1>5. (h - a) * d \in Int /\ 2 * Magnitude((h - a) * d) <= d
  BY <1>1, <1>2
<1>6. ~ (h - a >= 1) /\ ~ (h - a <= -1)
  BY <1>3, <1>4, <1>5 DEF Magnitude
<1> QED
  BY <1>1, <1>6 DEF h

\* Truncated division of non-negatives is the one quotient with a remainder
\* below the denominator.
LEMMA DivUnique ==
    ASSUME NEW m \in Nat, NEW d \in Nat, d > 0, NEW q \in Nat,
           d * q <= m, m < d * q + d
    PROVE  m \div d = q
<1> DEFINE p == m \div d
<1>1. p \in Int /\ d * p <= m /\ m < d * p + d
  BY SMTT(30)
<1> HIDE DEF p
<1>2. p >= q + 1 => d * p >= d * q + d
  <2>1. p >= q + 1 => d * p >= d * (q + 1)
    BY <1>1
  <2> QED
    BY <1>1, <2>1
<1>3. q >= p + 1 => d * q >= d * p + d
  <2>1. q >= p + 1 => d * q >= d * (p + 1)
    BY <1>1
  <2> QED
    BY <1>1, <2>1
<1>4. d * p \in Int /\ d * q \in Int
  BY <1>1
<1> QED
  BY <1>1, <1>2, <1>3, <1>4 DEF p

\* Quo and Rem of a fraction written with a larger denominator.
LEMMA QuoScaled ==
    ASSUME NEW n \in Int, NEW d \in Nat, d > 0, NEW k \in Nat, k > 0
    PROVE  Quo(n * k, d * k) = Quo(n, d) /\ Rem(n * k, d * k) = Rem(n, d) * k
<1>1. d * k \in Nat /\ d * k > 0 /\ n * k \in Int
  BY SMT
<1>2. ASSUME NEW m \in Nat
      PROVE  (m * k) \div (d * k) = m \div d
  <2> DEFINE q == m \div d
  <2>1. q \in Nat /\ d * q <= m /\ m < d * q + d
    BY SMTT(30)
  <2> HIDE DEF q
  <2>2. m * k \in Nat /\ d * q \in Nat /\ (d * k) * q = (d * q) * k
    BY <2>1
  <2>3. (d * q) * k <= m * k
    BY <2>1, <2>2
  <2>4. m * k < (d * q + d) * k
    BY <2>1, <2>2
  <2>5. (d * q + d) * k = (d * q) * k + d * k
    BY <2>2
  <2>6. (m * k) \div (d * k) = q
    BY <1>1, <2>1, <2>2, <2>3, <2>4, <2>5, DivUnique
  <2> QED
    BY <2>6 DEF q
<1>3. (n < 0) <=> (n * k < 0)
  BY SMT
<1>4. (-n) * k = -(n * k)
  BY SMT
<1>5. Quo(n * k, d * k) = Quo(n, d)
  <2>1. CASE n < 0
    <3>1. -n \in Nat
      BY <2>1
    <3>2. (-(n * k)) \div (d * k) = (-n) \div d
      BY <1>2, <1>4, <3>1
    <3> QED
      BY <1>3, <2>1, <3>2 DEF Quo
  <2>2. CASE ~ (n < 0)
    <3>1. n \in Nat
      BY <2>2
    <3>2. (n * k) \div (d * k) = n \div d
      BY <1>2, <3>1
    <3> QED
      BY <1>3, <2>2, <3>2 DEF Quo
  <2> QED
    BY <2>1, <2>2
<1>6. Quo(n, d) \in Int
  BY QuoRem
<1>7. n * k - (d * k) * Quo(n, d) = (n - d * Quo(n, d)) * k
  BY <1>6
<1> QED
  BY <1>5, <1>7 DEF Rem

\* The value halfUpAt4dp rounds is a fraction: it does not depend on how the
\* big.Rat is written.
LEMMA HalfUpScaled ==
    ASSUME NEW n \in Int, NEW d \in Nat, d > 0, NEW k \in Nat, k > 0
    PROVE  halfUpAt4dp(n * k, d * k) = halfUpAt4dp(n, d)
<1> DEFINE m == Rem(n, d)
<1>1. m \in Int /\ Quo(n, d) \in Int
  BY QuoRem
<1>2. Quo(n * k, d * k) = Quo(n, d) /\ Rem(n * k, d * k) = m * k
  BY QuoScaled
<1>3. (n >= 0) <=> (n * k >= 0)
  BY SMT
<1> HIDE DEF m
<1>4. (2 * Magnitude(m * k) >= d * k) <=> (2 * Magnitude(m) >= d)
  <2> DEFINE a == Magnitude(m)
  <2>1. a \in Nat /\ Magnitude(m * k) = a * k
    <3>1. CASE m < 0
      BY <1>1, <3>1 DEF Magnitude
    <3>2. CASE m >= 0
      BY <1>1, <3>2 DEF Magnitude
    <3> QED
      BY <1>1, <3>1, <3>2
  <2> HIDE DEF a
  <2>2. 2 * (a * k) = (2 * a) * k
    BY <2>1
  <2>3. (2 * a >= d) => (2 * a) * k >= d * k
    BY <2>1
  <2>4. (2 * a < d) => (2 * a) * k < d * k
    BY <2>1
  <2>5. a * k \in Nat /\ d * k \in Nat
    BY <2>1
  <2> QED
    BY <2>1, <2>2, <2>3, <2>4, <2>5 DEF a
<1> QED
  BY <1>2, <1>3, <1>4 DEF halfUpAt4dp, m

-----------------------------------------------------------------------------
(***************************************************************************)
(* The Period.                                                             *)
(***************************************************************************)

\* Calculate refuses a Period's inputs only once the Period is over.
LEMMA OverAtEnd ==
    ASSUME PeriodAssumption, pool \in Int \ {0}, elapsed \in 0 .. Days, mode \in Modes
    PROVE  Over <=> elapsed = Days
BY DEF Over, Refused, Inputs, PeriodAssumption

\* The figures a read shows are well formed: State is one of the three, and the
\* Forward Daily Rate is missing on the last day alone.
LEMMA ReadFormed ==
    ASSUME PeriodAssumption, elapsed \in 0 .. Days, elapsed # Days
    PROVE  /\ Read.state \in States
           /\ Read.forward = {} <=> elapsed = Days - 1
<1>1. Read.state \in States
  BY DEF Read, Calculate, decideState, States
<1>2. Read.forward = {} <=> elapsed = Days - 1
  BY DEF Read, Calculate, ForwardDailyRate, Inputs, PeriodAssumption
<1> QED
  BY <1>1, <1>2

\* TypeOK without the clauses that follow from the rest.
Typed ==
    /\ pool \in Int \ {0}
    /\ elapsed \in 0 .. Days
    /\ settled \in Int /\ today \in Int /\ future \in Nat
    /\ mode \in Modes
    /\ obeyed \in BOOLEAN
    /\ changed \in [days : {Days}, before : Int \ {0}, after : Int \ {0},
                    day : 1 .. Days]

\* The rest of TypeOK follows from the plain types: Calculate refuses exactly a
\* Period that is over.
LEMMA TypedIsTypeOK == Typed => TypeOK
<1> SUFFICES ASSUME Typed PROVE TypeOK
  OBVIOUS
<1>1. Over <=> elapsed = Days
  BY OverAtEnd, PeriodAssumption DEF Typed
<1>2. ~ LineRefused(changed)
  BY PeriodAssumption DEF Typed, LineRefused
<1>3. ~ Over => /\ Read.state \in States
                /\ Read.forward = {} <=> elapsed = Days - 1
  BY <1>1, ReadFormed, PeriodAssumption DEF Typed
<1> QED
  BY <1>1, <1>2, <1>3 DEF Typed, TypeOK

\* Every operation leaves the Period well typed.
LEMMA TypedStep == Typed /\ [Next]_vars => Typed'
<1> SUFFICES ASSUME Typed, [Next]_vars PROVE Typed'
  OBVIOUS
<1> USE PeriodAssumption
<1>1. ASSUME NEW x \in Amounts, SpendToday(x) PROVE Typed'
  BY <1>1 DEF Typed, SpendToday
<1>2. ASSUME NEW x \in Amounts, SpendAhead(x) PROVE Typed'
  BY <1>2 DEF Typed, SpendAhead
<1>3. ASSUME NEW x \in Amounts, AmendPast(x) PROVE Typed'
  BY <1>3 DEF Typed, AmendPast
<1>4. ASSUME NEW due \in 0 .. future, NextDay(due) PROVE Typed'
  <2>1. elapsed # Days
    BY <1>4, OverAtEnd DEF Typed, NextDay
  <2> QED
    BY <1>4, <2>1 DEF Typed, NextDay
<1>5. ASSUME NEW p \in Pools, ChangeBudget(p) PROVE Typed'
  <2>1. elapsed # Days
    BY <1>5, OverAtEnd DEF Typed, ChangeBudget
  <2> QED
    BY <1>5, <2>1 DEF Typed, ChangeBudget
<1>6. CASE UNCHANGED vars
  BY <1>6 DEF Typed, vars
<1> QED
  BY <1>1, <1>2, <1>3, <1>4, <1>5, <1>6 DEF Next

\* The Period a Budget opens is well typed.
LEMMA TypedInit == Init => Typed
BY PeriodAssumption DEF Init, Typed, Unchanged

\* Typing is an invariant.
LEMMA AlwaysTyped == Spec => []Typed
BY TypedInit, TypedStep, PTL DEF Spec

\* Calculate refuses a Period's inputs exactly when the Period is over, and the
\* Forward Daily Rate is nil exactly on its last day.
THEOREM TypeCorrect == Spec => []TypeOK
BY AlwaysTyped, TypedIsTypeOK, PTL

-----------------------------------------------------------------------------
(***************************************************************************)
(* Obedience.  The invariant adds that an obedient day's spend is not      *)
(* negative: without it a refund would leave room in Left to Spend Today   *)
(* that the pool does not have.                                            *)
(***************************************************************************)

ObeyInv == mode = "adaptive" /\ obeyed => today >= 0 /\ Remaining >= 0

\* A share of what is not negative is no more than the whole.
LEMMA ShareFits ==
    ASSUME NEW n \in Nat, NEW d \in Nat, d > 0
    PROVE  floorAt4dp(n, d) \in Int /\ floorAt4dp(n, d) <= n
<1> DEFINE f == floorAt4dp(n, d)
<1>1. f \in Int /\ f * d <= n
  BY FloorBelow
<1> HIDE DEF f
<1>2. f >= 0 => f <= f * d
  BY <1>1
<1>3. f <= n
  BY <1>1, <1>2
<1> QED
  BY <1>1, <1>3 DEF f

\* Every operation keeps an obedient Household within its pool.
LEMMA ObeyStep == Typed /\ ObeyInv /\ [Next]_vars => ObeyInv'
<1> SUFFICES ASSUME Typed, ObeyInv, [Next]_vars, mode' = "adaptive", obeyed'
             PROVE  today' >= 0 /\ Remaining' >= 0
  BY DEF ObeyInv
<1> USE PeriodAssumption
<1>1. ASSUME NEW x \in Amounts, SpendToday(x) PROVE today' >= 0 /\ Remaining' >= 0
  <2>1. /\ today >= 0 /\ Remaining >= 0 /\ mode = "adaptive" /\ elapsed # Days
        /\ x \in Int /\ today + x >= 0 /\ x <= Read.left
    BY Zenon, <1>1, OverAtEnd DEF SpendToday, ObeyInv, Typed
  <2> DEFINE n == pool - future - settled
             d == Days - elapsed
  <2>2. n \in Nat /\ d \in Nat /\ d > 0
    BY <2>1 DEF Typed, Remaining
  <2>3. Read.left = floorAt4dp(n, d) - today
    BY <2>1 DEF Read, Calculate, LeftToSpendToday, TodaysAllowance, Inputs
  <2>4. floorAt4dp(n, d) \in Int /\ floorAt4dp(n, d) <= n
    BY <2>2, ShareFits
  <2>5. today + x <= n
    BY <2>1, <2>2, <2>3, <2>4 DEF Typed
  <2> QED
    BY <1>1, <2>1, <2>5 DEF SpendToday, Remaining, Typed
<1>2. ASSUME NEW x \in Amounts, SpendAhead(x) PROVE today' >= 0 /\ Remaining' >= 0
  <2>1. PICK rate \in Read.forward : obeyed' = (obeyed /\ x <= rate)
    BY Zenon, <1>2 DEF SpendAhead
  <2>2. /\ today >= 0 /\ Remaining >= 0 /\ mode = "adaptive" /\ elapsed # Days
        /\ x \in Int /\ x <= rate
    BY Zenon, <1>2, <2>1, OverAtEnd DEF SpendAhead, ObeyInv, Typed
  <2> DEFINE d == Days - elapsed - 1
  <2>3. elapsed # Days - 1 /\ rate = floorAt4dp(Remaining, d)
    <3>1. elapsed # Days - 1
      BY <2>1, <2>2, ReadFormed DEF Typed
    <3>2. pool - future - settled - today = Remaining
      BY DEF Typed, Remaining
    <3>3. Read.forward = {floorAt4dp(pool - future - settled - today, d)}
      BY <2>2, <3>1 DEF Read, Calculate, ForwardDailyRate, Inputs, Typed
    <3> QED
      BY <2>1, <3>1, <3>2, <3>3
  <2>4. Remaining \in Nat /\ d \in Nat /\ d > 0
    BY <2>2, <2>3 DEF Typed, Remaining
  <2>5. x <= Remaining
    <3>1. floorAt4dp(Remaining, d) \in Int /\ floorAt4dp(Remaining, d) <= Remaining
      BY <2>4, ShareFits
    <3> QED
      BY <2>2, <2>3, <2>4, <3>1
  <2> QED
    BY <1>2, <2>2, <2>5 DEF SpendAhead, Remaining, Typed
<1>3. ASSUME NEW x \in Amounts, AmendPast(x) PROVE today' >= 0 /\ Remaining' >= 0
  <2>1. obeyed /\ x <= 0 /\ mode = "adaptive"
    BY Zenon, <1>3 DEF AmendPast
  <2>2. today >= 0 /\ Remaining >= 0 /\ x \in Int
    BY <2>1 DEF ObeyInv
  <2> QED
    BY <1>3, <2>1, <2>2 DEF AmendPast, Remaining, Typed
<1>4. ASSUME NEW due \in 0 .. future, NextDay(due) PROVE today' >= 0 /\ Remaining' >= 0
  BY <1>4 DEF NextDay, ObeyInv, Remaining, Typed
<1>5. ASSUME NEW p \in Pools, ChangeBudget(p) PROVE today' >= 0 /\ Remaining' >= 0
  <2>1. obeyed /\ p >= pool /\ mode = "adaptive"
    BY Zenon, <1>5 DEF ChangeBudget
  <2>2. today >= 0 /\ Remaining >= 0 /\ p \in Int
    BY <2>1 DEF ObeyInv
  <2> QED
    BY <1>5, <2>1, <2>2 DEF ChangeBudget, Remaining, Typed
<1>6. CASE UNCHANGED vars
  BY <1>6 DEF ObeyInv, Remaining, vars
<1> QED
  BY <1>1, <1>2, <1>3, <1>4, <1>5, <1>6 DEF Next

\* "Afloat never tells a Household it can spend more than it can": whatever the
\* pool, the days and the expenses, one in adaptive mode that keeps within the
\* figures of Calculate never spends more than its pool.
THEOREM Obedience == Spec => []ObedienceIsSafe
<1>1. Init => ObeyInv
  <2> SUFFICES ASSUME Init, obeyed PROVE today >= 0 /\ Remaining >= 0
    BY DEF ObeyInv
  <2>1. pool > 0
    BY Zenon DEF Init
  <2> QED
    BY <2>1, PeriodAssumption DEF Init, Remaining
<1>2. ObeyInv => ObedienceIsSafe
  BY DEF ObeyInv, ObedienceIsSafe
<1> QED
  BY <1>1, <1>2, ObeyStep, AlwaysTyped, PTL DEF Spec

-----------------------------------------------------------------------------
(***************************************************************************)
(* The figures.                                                            *)
(***************************************************************************)

\* The Forward Daily Rate is tomorrow's allowance, to the last unit, when
\* nothing is dated for tomorrow.
THEOREM ForwardKept == Spec => ForwardIsTomorrow
<1> DEFINE Kept ==
      (mode = "adaptive" /\ elapsed' = elapsed + 1 /\ today' = 0 /\ ~ Over')
          => Read.forward = {Read'.allowance}
<1>1. ASSUME Typed, Typed', [Next]_vars, mode = "adaptive",
             elapsed' = elapsed + 1, today' = 0, ~ Over'
      PROVE  Read.forward = {Read'.allowance}
  <2> USE PeriodAssumption
  <2>1. PICK due \in 0 .. future : NextDay(due)
    BY <1>1 DEF Next, SpendToday, SpendAhead, AmendPast, ChangeBudget, Typed, vars
  <2>2. /\ pool' = pool /\ mode' = mode /\ settled' = settled + today
        /\ future' = future
    BY <1>1, <2>1 DEF NextDay, Typed
  <2>3. elapsed' # Days
    BY <1>1, OverAtEnd DEF Typed, Over, Refused, Inputs
  <2>4. /\ Days - elapsed > 1
        /\ Days - elapsed' = Days - elapsed - 1
        /\ pool' - future' - settled' = pool - future - settled - today
    BY <1>1, <2>2, <2>3 DEF Typed
  <2>5. Read.forward =
            {floorAt4dp(pool - future - settled - today, Days - elapsed - 1)}
    BY <2>4 DEF Read, Calculate, ForwardDailyRate, Inputs
  <2>6. Read'.allowance = floorAt4dp(pool' - future' - settled', Days - elapsed')
    BY <1>1, <2>2 DEF Read, Calculate, TodaysAllowance, Inputs
  <2> QED
    BY <2>4, <2>5, <2>6
<1>2. Typed /\ Typed' /\ [Next]_vars => [Kept]_vars
  BY <1>1
<1> HIDE DEF Kept
<1>3. Spec => [][Kept]_vars
  BY <1>2, AlwaysTyped, PTL DEF Spec
<1> QED
  BY <1>3 DEF ForwardIsTomorrow, Kept

\* Spend added to a settled day never improves State or Buffer Days, for every
\* positive pool and every pair of thresholds.
THEOREM SpendNeverPays == Spec => SpendNeverHelps
<1> DEFINE Worse ==
      (settled' > settled /\ elapsed' = elapsed /\ pool > 0) =>
          /\ Read'.buffer <= Read.buffer
          /\ Read'.state = "afloat" => Read.state = "afloat"
          /\ Read'.state = "drifting" => Read.state # "taking_on_water"
<1>1. ASSUME Typed, Typed', [Next]_vars,
             settled' > settled, elapsed' = elapsed, pool > 0
      PROVE  /\ Read'.buffer <= Read.buffer
             /\ Read'.state = "afloat" => Read.state = "afloat"
             /\ Read'.state = "drifting" => Read.state # "taking_on_water"
  <2> USE PeriodAssumption, TrajectoryAssumption
  <2>1. PICK x \in Amounts : AmendPast(x)
    BY <1>1 DEF Next, SpendToday, SpendAhead, NextDay, ChangeBudget, Typed, vars
  <2>2. pool' = pool /\ pool \in Nat
    BY <1>1, <2>1 DEF AmendPast, Typed
  <2> DEFINE v == pool * elapsed - settled * Days
             w == pool * elapsed - settled' * Days
  <2>3. Variance(Inputs) = v /\ Variance(Inputs)' = w
    BY <1>1, <2>2 DEF Variance, Inputs
  <2>4. v \in Int /\ w \in Int /\ w <= v
    <3>1. settled * Days \in Int /\ settled' * Days \in Int /\ pool * elapsed \in Int
      BY <1>1 DEF Typed
    <3>2. settled' * Days >= settled * Days
      <4>1. \A m, n \in Int : m > n => m * Days >= n * Days
        BY Days \in Nat
      <4> QED
        BY Zenon, <1>1, <4>1 DEF Typed
    <3> QED
      BY <3>1, <3>2
  <2>5. /\ Read.buffer = halfUpAt4dp(v * Scale, pool)
        /\ Read'.buffer = halfUpAt4dp(w * Scale, pool)
    <3>1. Inputs.pool = pool /\ Inputs'.pool = pool
      BY <2>2 DEF Inputs
    <3>2. /\ BufferDays(Inputs) = halfUpAt4dp(1 * v * Scale, 1 * pool)
          /\ BufferDays(Inputs)' = halfUpAt4dp(1 * w * Scale, 1 * pool)
      BY <2>2, <2>3, <3>1 DEF BufferDays
    <3> HIDE DEF v, w
    <3>3. 1 * v = v /\ 1 * w = w /\ 1 * pool = pool
      BY <2>2, <2>4
    <3> QED
      BY <3>2, <3>3 DEF Read, Calculate
  <2>6. \A k \in Int : AtOrAbove(Inputs, k)' => AtOrAbove(Inputs, k)
    <3> SUFFICES ASSUME NEW k \in Int
                 PROVE  w * Scale >= k * pool => v * Scale >= k * pool
      BY <2>2, <2>3 DEF AtOrAbove, Inputs
    <3> HIDE DEF v, w
    <3>1. w * Scale <= v * Scale /\ w * Scale \in Int /\ v * Scale \in Int
      BY <2>4
    <3>2. k * pool \in Int
      BY <2>2
    <3> QED
      BY <3>1, <3>2
  <2>7. Read'.buffer <= Read.buffer
    <3> HIDE DEF v, w
    <3>1. w * Scale <= v * Scale /\ w * Scale \in Int /\ v * Scale \in Int
      BY <2>4
    <3>2. halfUpAt4dp(w * Scale, pool) <= halfUpAt4dp(v * Scale, pool)
      BY <1>1, <2>2, <3>1, HalfUpMonotone
    <3> QED
      BY <2>5, <3>2
  <2>8. /\ Read.state = decideState(Inputs) /\ Read'.state = decideState(Inputs)'
        /\ Inputs.elapsed = Inputs'.elapsed
    BY Zenon, <1>1 DEF Read, Calculate, Inputs
  <2> QED
    BY <2>6, <2>7, <2>8 DEF decideState
<1>2. Typed /\ Typed' /\ [Next]_vars => [Worse]_vars
  BY <1>1
<1> HIDE DEF Worse
<1>3. Spec => [][Worse]_vars
  BY <1>2, AlwaysTyped, PTL DEF Spec
<1> QED
  BY <1>3 DEF SpendNeverHelps, Worse

\* Allowance figures round down for every pool and every Period.
THEOREM AllowancesDown == Spec => []AllowancesRoundDown
<1>1. Typed => AllowancesRoundDown
  <2> SUFFICES ASSUME Typed, ~ Over PROVE AllowancesRoundDown
    BY DEF AllowancesRoundDown
  <2>1. Days \in Nat /\ Days > 0 /\ Days - elapsed \in Nat /\ Days - elapsed > 0
    BY OverAtEnd, PeriodAssumption DEF Typed
  <2>2. Read.baseline * Days <= pool /\ (Read.baseline + 1) * Days > pool
    <3>1. Read.baseline = floorAt4dp(pool, Days)
      BY DEF Read, Calculate, Inputs
    <3> QED
      BY Zenon, <2>1, <3>1, FloorBelow DEF Typed
  <2>3. ASSUME mode = "adaptive"
        PROVE  /\ Read.allowance * (Days - elapsed) <= pool - future - settled
               /\ (Read.allowance + 1) * (Days - elapsed) > pool - future - settled
    <3>1. Read.allowance = floorAt4dp(pool - future - settled, Days - elapsed)
      BY <2>3 DEF Read, Calculate, TodaysAllowance, Inputs
    <3>2. pool - future - settled \in Int
      BY DEF Typed
    <3> QED
      BY <2>1, <3>1, <3>2, FloorBelow
  <2> QED
    BY <2>2, <2>3 DEF AllowancesRoundDown
<1> QED
  BY <1>1, AlwaysTyped, PTL

\* Trajectory Variance is rounded half up, away from zero, for every pool and
\* every Period.
THEOREM VarianceHalfUp == Spec => []VarianceRoundsHalfUp
<1>1. Typed => VarianceRoundsHalfUp
  <2> SUFFICES ASSUME Typed, ~ Over PROVE VarianceRoundsHalfUp
    BY DEF VarianceRoundsHalfUp
  <2> DEFINE exact == pool * elapsed - settled * Days
  <2>1. Days \in Nat /\ Days > 0 /\ exact \in Int
    BY PeriodAssumption DEF Typed
  <2>2. Read.variance = halfUpAt4dp(exact, Days)
    BY DEF Read, Calculate, Variance, Inputs
  <2> HIDE DEF exact
  <2>3. /\ 2 * Magnitude(Read.variance * Days - exact) <= Days
        /\ 2 * Magnitude(Read.variance * Days - exact) = Days
               => Magnitude(Read.variance * Days) > Magnitude(exact)
    BY <2>1, <2>2, HalfUpNearest
  <2> QED
    BY <2>3 DEF VarianceRoundsHalfUp, exact
<1> QED
  BY <1>1, AlwaysTyped, PTL

\* The target line of every Budget change ends the Period exactly at the new
\* pool, or flat at the target already reached when the pool was cut below it.
THEOREM LineEnds == Spec => []LineEndsAtPool
<1>1. Typed => LineEndsAtPool
  <2> SUFFICES ASSUME Typed PROVE LineEndsAtPool
    OBVIOUS
  <2> DEFINE T == TargetBefore(changed)
             L == DaysLeft(changed)
             a == changed.after
  <2>1. /\ Days \in Nat /\ Days > 0 /\ changed.days = Days
        /\ changed.day \in 1 .. Days /\ a \in Int /\ changed.before \in Int
    BY PeriodAssumption DEF Typed
  <2>2. T \in Int /\ L \in Nat /\ L > 0 /\ L = Days - (changed.day - 1)
    BY <2>1 DEF TargetBefore, DaysLeft
  <2>3. ~ (Days <= changed.day - 1)
    BY <2>1
  <2>4. Candidate(changed, Days) = T * L + (a * Days - T) * L
    BY <2>1, <2>2 DEF Candidate, NewBaseline
  <2>5. At(changed, changed.day - 1) = halfUpAt4dp(T, Days)
    BY <2>1 DEF At, TargetBefore
  <2>6. At(changed, Days) =
            IF T * L + (a * Days - T) * L < T * L
            THEN halfUpAt4dp(T, Days)
            ELSE halfUpAt4dp(T * L + (a * Days - T) * L, Days * L)
    BY <2>1, <2>3, <2>4 DEF At
  <2> HIDE DEF T, L, a
  <2>7. T * L + (a * Days - T) * L = a * (Days * L) /\ Days * L \in Nat /\ Days * L > 0
    BY <2>1, <2>2
  <2>8. (T * L + (a * Days - T) * L < T * L) <=> ~ (a * Days >= T)
    <3>1. a * Days - T \in Int /\ T * L \in Int /\ (a * Days - T) * L \in Int
      BY <2>1, <2>2
    <3>2. a * Days - T < 0 => (a * Days - T) * L < 0
      BY <2>2, <3>1
    <3>3. a * Days - T >= 0 => (a * Days - T) * L >= 0
      BY <2>2, <3>1
    <3>4. a * Days \in Int
      BY <2>1
    <3> QED
      BY <2>2, <3>1, <3>2, <3>3, <3>4
  <2>9. halfUpAt4dp(a * (Days * L), Days * L) = a
    BY <2>1, <2>7, HalfUpExact
  <2> QED
    BY <2>5, <2>6, <2>7, <2>8, <2>9 DEF LineEndsAtPool, T, a
<1> QED
  BY <1>1, AlwaysTyped, PTL

\* The roundings keep what they promise, for every pool and every Period.
THEOREM FiguresRound == Spec => []FiguresRoundAsPromised
  BY AllowancesDown, VarianceHalfUp, PTL DEF FiguresRoundAsPromised

\* The target line of every Budget change, raised, cut or cut below what was
\* already reached, never falls from one day to the next.
THEOREM LineRises == Spec => []LineNeverFalls
<1>1. Typed => LineNeverFalls
  <2> SUFFICES ASSUME Typed, NEW d \in changed.day .. Days
               PROVE  At(changed, d - 1) <= At(changed, d)
    BY DEF LineNeverFalls
  <2> DEFINE T == TargetBefore(changed)
             L == DaysLeft(changed)
             N == NewBaseline(changed)
             j == changed.day
             C(x) == T * L + N * (x - (j - 1))
  <2>1. /\ Days \in Nat /\ Days > 0 /\ changed.days = Days
        /\ j \in 1 .. Days /\ changed.after \in Int /\ changed.before \in Int
    BY PeriodAssumption DEF Typed
  <2>2. T \in Int /\ L \in Nat /\ L > 0 /\ N \in Int
    BY <2>1 DEF TargetBefore, DaysLeft, NewBaseline
  <2>3. At(changed, j - 1) = halfUpAt4dp(T, Days)
    BY <2>1 DEF At, TargetBefore
  <2>4. ASSUME NEW x \in Int, x >= j
        PROVE  At(changed, x) = IF C(x) < T * L THEN halfUpAt4dp(T, Days)
                                ELSE halfUpAt4dp(C(x), Days * L)
    BY <2>1, <2>4 DEF At, Candidate
  <2> HIDE DEF T, L, N, j
  <2>5. T * L \in Int /\ Days * L \in Nat /\ Days * L > 0
    BY <2>1, <2>2
  <2>6. \A x \in Int : N * (x - (j - 1)) \in Int /\ C(x) \in Int
    BY <2>1, <2>2, <2>5
  <2>7. CASE N < 0
    <3>1. ASSUME NEW x \in Int, x >= j
          PROVE  At(changed, x) = halfUpAt4dp(T, Days)
      <4>1. N * (x - (j - 1)) < 0
        BY <2>1, <2>2, <2>7, <3>1
      <4>2. C(x) < T * L
        BY <2>5, <2>6, <4>1
      <4> QED
        BY <2>4, <3>1, <4>2
    <3>2. d \in Int /\ d >= j
      BY <2>1 DEF j
    <3>3. At(changed, d) = halfUpAt4dp(T, Days)
      BY <3>1, <3>2
    <3>4. At(changed, d - 1) = halfUpAt4dp(T, Days)
      BY <2>1, <2>3, <3>1, <3>2
    <3>5. halfUpAt4dp(T, Days) \in Int
      BY <2>1, <2>2, HalfUpNearest
    <3> QED
      BY <3>3, <3>4, <3>5
  <2>8. CASE N >= 0
    <3>1. ASSUME NEW x \in Int, x >= j - 1
          PROVE  At(changed, x) = halfUpAt4dp(C(x), Days * L)
      <4>1. CASE x = j - 1
        <5>1. C(x) = T * L
          BY <2>1, <2>2, <2>5, <4>1
        <5>2. halfUpAt4dp(T * L, Days * L) = halfUpAt4dp(T, Days)
          BY <2>1, <2>2, HalfUpScaled
        <5> QED
          BY <2>3, <4>1, <5>1, <5>2
      <4>2. CASE x >= j
        <5>1. N * (x - (j - 1)) >= 0
          BY <2>1, <2>2, <2>8, <4>2
        <5>2. ~ (C(x) < T * L)
          BY <2>5, <2>6, <5>1
        <5> QED
          BY <2>4, <4>2, <5>2
      <4> QED
        BY <2>1, <3>1, <4>1, <4>2
    <3>2. /\ d \in Int /\ d >= j - 1 /\ d - 1 \in Int /\ d - 1 >= j - 1
      BY <2>1 DEF j
    <3>3. C(d - 1) <= C(d)
      <4>1. N * (d - (j - 1)) = N * ((d - 1) - (j - 1)) + N
        BY <2>1, <2>2, <3>2
      <4> QED
        BY <2>2, <2>5, <2>6, <2>8, <3>2, <4>1
    <3>4. C(d - 1) \in Int /\ C(d) \in Int
      BY <2>6, <3>2
    <3>5. At(changed, d - 1) = halfUpAt4dp(C(d - 1), Days * L)
      BY <3>1, <3>2
    <3>6. At(changed, d) = halfUpAt4dp(C(d), Days * L)
      BY <3>1, <3>2
    <3> HIDE DEF C
    <3> QED
      BY <2>5, <3>3, <3>4, <3>5, <3>6, HalfUpMonotone
  <2> QED
    BY <2>2, <2>7, <2>8
<1> QED
  BY <1>1, AlwaysTyped, PTL

\* The target line neither falls nor misses the pool, for every Budget change.
THEOREM TargetLine == Spec => []TargetLineHolds
  BY LineRises, LineEnds, PTL DEF TargetLineHolds

\* State and the Buffer Days shown beside it never contradict each other past
\* the warm-up, for every positive pool and every pair of thresholds.
THEOREM StateAgrees == Spec => []StateAgreesWithBuffer
<1>1. Typed => StateAgreesWithBuffer
  <2> SUFFICES ASSUME Typed, ~ Over, pool > 0, elapsed >= WarmUpDays
               PROVE  /\ Read.state = "afloat" => Read.buffer >= DriftingBelow
                      /\ Read.state = "drifting" =>
                             Read.buffer \in TakingOnWaterBelow .. DriftingBelow
                      /\ Read.state = "taking_on_water" =>
                             Read.buffer <= TakingOnWaterBelow
    BY DEF StateAgreesWithBuffer
  <2> USE PeriodAssumption, TrajectoryAssumption
  <2> DEFINE n == Variance(Inputs) * Scale
             b == halfUpAt4dp(n, pool)
  <2>1. Variance(Inputs) = pool * elapsed - settled * Days
    BY DEF Variance, Inputs
  <2>2. n \in Int /\ pool \in Nat
    BY <2>1 DEF Typed
  <2>3. Read.buffer = b
    <3>1. Inputs.pool = pool
      BY DEF Inputs
    <3>2. BufferDays(Inputs) = halfUpAt4dp(1 * Variance(Inputs) * Scale, 1 * pool)
      BY <3>1, <2>2 DEF BufferDays
    <3>3. 1 * Variance(Inputs) * Scale = n /\ 1 * pool = pool
      BY <2>1, <2>2 DEF Typed
    <3> QED
      BY <3>2, <3>3 DEF Read, Calculate
  <2>4. b \in Int /\ 2 * Magnitude(b * pool - n) <= pool
    BY Zenon, <2>2, HalfUpNearest
  <2>5. /\ AtOrAbove(Inputs, DriftingBelow) <=> n >= DriftingBelow * pool
        /\ AtOrAbove(Inputs, TakingOnWaterBelow) <=> n >= TakingOnWaterBelow * pool
    BY DEF AtOrAbove, Inputs
  <2>6. Read.state = IF AtOrAbove(Inputs, DriftingBelow) THEN "afloat"
                     ELSE IF AtOrAbove(Inputs, TakingOnWaterBelow)
                          THEN "drifting" ELSE "taking_on_water"
    <3>1. ~ (Inputs.elapsed < WarmUpDays)
      BY DEF Inputs, Typed
    <3> QED
      BY <3>1 DEF Read, Calculate, decideState
  <2> HIDE DEF n, b
  <2>7. ASSUME NEW k \in Int
        PROVE  /\ n >= k * pool => b >= k
               /\ ~ (n >= k * pool) => b <= k
    <3>1. b * pool \in Int /\ k * pool \in Int
      BY <2>2, <2>4
    <3>2. 2 * (b * pool - n) <= pool /\ 2 * (n - b * pool) <= pool
      BY <2>2, <2>4, <3>1 DEF Magnitude
    <3>3. b <= k - 1 => b * pool <= k * pool - pool
      <4>1. b <= k - 1 => b * pool <= (k - 1) * pool
        BY <2>2, <2>4
      <4>2. (k - 1) * pool = k * pool - pool
        BY <2>2
      <4> QED
        BY <4>1, <4>2
    <3>4. b >= k + 1 => b * pool >= k * pool + pool
      <4>1. b >= k + 1 => b * pool >= (k + 1) * pool
        BY <2>2, <2>4
      <4>2. (k + 1) * pool = k * pool + pool
        BY <2>2
      <4> QED
        BY <4>1, <4>2
    <3> QED
      BY <2>2, <2>4, <3>1, <3>2, <3>3, <3>4
  <2>8. /\ n >= DriftingBelow * pool => b >= DriftingBelow
        /\ ~ (n >= DriftingBelow * pool) => b <= DriftingBelow
        /\ n >= TakingOnWaterBelow * pool => b >= TakingOnWaterBelow
        /\ ~ (n >= TakingOnWaterBelow * pool) => b <= TakingOnWaterBelow
    BY <2>7
  <2> QED
    BY <2>3, <2>4, <2>5, <2>6, <2>8
<1> QED
  BY <1>1, AlwaysTyped, PTL

=============================================================================
