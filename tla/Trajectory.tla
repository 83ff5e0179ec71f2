----------------------------- MODULE Trajectory -----------------------------
(***************************************************************************)
(* The daily-bucket figures of backend/internal/trajectory: Calculate, the *)
(* State reading, the two roundings and the target line of a mid-period    *)
(* Budget change.  Pure functions of the aggregates they are given.        *)
(*                                                                         *)
(* Money is an integer: a number of units of the storage scale, 1/Scale.   *)
(* A big.Rat is a numerator over a positive denominator, both arguments of *)
(* the operator that rounds it.                                            *)
(***************************************************************************)
EXTENDS Integers

CONSTANTS
    Scale,              \* scale4, the units of the storage scale in one
    WarmUpDays,         \* Parameters.WarmUpDays
    DriftingBelow,      \* Parameters.DriftingBelow, in units of the scale
    TakingOnWaterBelow  \* Parameters.TakingOnWaterBelow, likewise

ASSUME TrajectoryAssumption ==
    /\ Scale \in Nat \ {0}
    /\ WarmUpDays \in Nat
    /\ DriftingBelow \in Int
    /\ TakingOnWaterBelow \in Int

Modes == {"adaptive", "fixed"}

States == {"afloat", "drifting", "taking_on_water"}

-----------------------------------------------------------------------------
(***************************************************************************)
(* Rounding.  big.Int's QuoRem truncates toward zero, so the remainder has *)
(* the sign of the numerator.                                              *)
(***************************************************************************)

Magnitude(n) == IF n < 0 THEN -n ELSE n

Quo(n, d) == IF n < 0 THEN -((-n) \div d) ELSE n \div d

Rem(n, d) == n - d * Quo(n, d)

\* A floor that forgets QuoRem truncates.
floorTruncates(n, d) == Quo(n, d)

floorAt4dp(n, d) ==
    IF Rem(n, d) # 0 /\ n < 0 THEN Quo(n, d) - 1 ELSE Quo(n, d)

\* A half-up that forgets the remainder is signed.
halfUpTowardInfinity(n, d) ==
    IF 2 * Rem(n, d) >= d THEN Quo(n, d) + 1 ELSE Quo(n, d)

halfUpAt4dp(n, d) ==
    IF 2 * Magnitude(Rem(n, d)) >= d
    THEN IF n >= 0 THEN Quo(n, d) + 1 ELSE Quo(n, d) - 1
    ELSE Quo(n, d)

-----------------------------------------------------------------------------
(***************************************************************************)
(* Calculate.  An input is a record of pool (P), days (D), elapsed (e),    *)
(* settled, today and future (the three sums of spend) and mode.           *)
(***************************************************************************)

\* The inputs Calculate answers with an error: no day remains, the mode is
\* unknown, or the baseline is zero and Buffer Days undefined.
Refused(in) ==
    \/ in.days <= 0
    \/ in.days - in.elapsed <= 0
    \/ in.mode \notin Modes
    \/ in.pool = 0

\* The two terms of V the wrong way round.
VarianceSwapped(in) == in.settled * in.days - in.pool * in.elapsed

\* V = B x e - S_settled, as a numerator over the Period's days.
Variance(in) == in.pool * in.elapsed - in.settled * in.days

\* An allowance that forgets the future-dated spend.
AllowanceOfWholePool(in) ==
    IF in.mode = "fixed"
    THEN floorAt4dp(in.pool, in.days)
    ELSE floorAt4dp(in.pool - in.settled, in.days - in.elapsed)

\* A, floored: a share of what is left of the Available Pool, or the baseline.
TodaysAllowance(in) ==
    IF in.mode = "fixed"
    THEN floorAt4dp(in.pool, in.days)
    ELSE floorAt4dp(in.pool - in.future - in.settled, in.days - in.elapsed)

LeftToSpendToday(in) == TodaysAllowance(in) - in.today

\* A forward rate that forgets Today's spend.
ForwardRateBeforeToday(in) ==
    IF in.days - in.elapsed > 1
    THEN {floorAt4dp(in.pool - in.future - in.settled, in.days - in.elapsed - 1)}
    ELSE {}

\* A forward rate that ends a day early.
ForwardRateEarlyEnd(in) ==
    IF in.days - in.elapsed > 2
    THEN {floorAt4dp(in.pool - in.future - in.settled - in.today, in.days - in.elapsed - 1)}
    ELSE {}

\* A pointer: empty on the last day, when there is no day to spread over.
ForwardDailyRate(in) ==
    IF in.days - in.elapsed > 1
    THEN {floorAt4dp(in.pool - in.future - in.settled - in.today, in.days - in.elapsed - 1)}
    ELSE {}

\* V / B, where the Period's days cancel.  A big.Rat keeps its sign on top.
BufferDays(in) ==
    LET sign == IF in.pool < 0 THEN -1 ELSE 1
    IN  halfUpAt4dp(sign * Variance(in) * Scale, sign * in.pool)

\* V >= threshold x B on exact values, both sides over the Period's days.
AtOrAbove(in, threshold) == Variance(in) * Scale >= threshold * in.pool

\* State read from Today's spend as well as the settled days'.
decideStateWithToday(in) ==
    IF \/ in.elapsed < WarmUpDays
       \/ AtOrAbove([in EXCEPT !.settled = @ + in.today], DriftingBelow)
    THEN "afloat"
    ELSE "drifting"

decideState(in) ==
    IF in.elapsed < WarmUpDays \/ AtOrAbove(in, DriftingBelow)
    THEN "afloat"
    ELSE IF AtOrAbove(in, TakingOnWaterBelow)
         THEN "drifting"
         ELSE "taking_on_water"

\* The Figures of an input Calculate does not refuse.
Calculate(in) ==
    [ baseline  |-> floorAt4dp(in.pool, in.days),
      available |-> in.pool - in.future,
      allowance |-> TodaysAllowance(in),
      left      |-> LeftToSpendToday(in),
      forward   |-> ForwardDailyRate(in),
      variance  |-> halfUpAt4dp(Variance(in), in.days),
      buffer    |-> BufferDays(in),
      state     |-> decideState(in) ]

-----------------------------------------------------------------------------
(***************************************************************************)
(* The target line.  An input is a record of days (D), before, after and   *)
(* day (j, the 1-indexed day the new pool takes effect).                   *)
(***************************************************************************)

LineRefused(in) == in.days <= 0 \/ in.day < 1 \/ in.day > in.days

\* T(j-1), a numerator over the Period's days.
TargetBefore(in) == in.before * (in.day - 1)

\* The days the new baseline is spread over: D - (j - 1), at least one.
DaysLeft(in) == in.days - (in.day - 1)

\* B_new, a numerator over days x DaysLeft.
NewBaseline(in) == in.after * in.days - TargetBefore(in)

BaselineAfter(in) == floorAt4dp(NewBaseline(in), in.days * DaysLeft(in))

\* The change counted from the day before it takes effect.
CandidateOneDayEarly(in, d) ==
    TargetBefore(in) * DaysLeft(in) + NewBaseline(in) * (d - in.day)

\* T(d) for a day at or past j, a numerator over days x DaysLeft.
Candidate(in, d) ==
    TargetBefore(in) * DaysLeft(in) + NewBaseline(in) * (d - (in.day - 1))

\* The line without the clamp.
AtUnclamped(in, d) ==
    IF d <= in.day - 1
    THEN halfUpAt4dp(in.before * d, in.days)
    ELSE halfUpAt4dp(Candidate(in, d), in.days * DaysLeft(in))

At(in, d) ==
    IF d <= in.day - 1
    THEN halfUpAt4dp(in.before * d, in.days)
    ELSE IF Candidate(in, d) < TargetBefore(in) * DaysLeft(in)
         THEN halfUpAt4dp(TargetBefore(in), in.days)
         ELSE halfUpAt4dp(Candidate(in, d), in.days * DaysLeft(in))

=============================================================================
