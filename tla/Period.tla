------------------------------- MODULE Period -------------------------------
(***************************************************************************)
(* A Household's Period, as trajectory.Calculate and NewTargetLine see it: *)
(* the aggregates a caller passes in change as expenses are recorded, as   *)
(* days settle and as the Budget changes, and the figures are computed     *)
(* afresh on every read.                                                   *)
(*                                                                         *)
(* The caller is not written yet.  What it does is taken from the fields   *)
(* of Inputs and TargetLineInputs: which spend counts as settled, as       *)
(* Today's and as future.                                                  *)
(***************************************************************************)
EXTENDS Trajectory

CONSTANTS
    Days,       \* D, the days of the Period
    Pools,      \* the Daily Pools a Budget may give
    Amounts,    \* what one expense may come to; negative for a refund
    MaxRefund,  \* bound on how far below zero a sum of spend may go
    MaxAhead,   \* bound on the spend dated Today, and on that dated ahead
    MaxSettled  \* bound on the spend of the settled days

ASSUME PeriodAssumption ==
    /\ Days \in Nat \ {0}
    /\ Pools \subseteq Int \ {0}
    /\ Amounts \subseteq Int
    /\ MaxRefund \in Nat
    /\ MaxAhead \in Nat
    /\ MaxSettled \in Nat

VARIABLES
    pool,       \* the Daily Pool in force
    elapsed,    \* settled days; Days once the Period is over
    settled,    \* spend dated before Today
    today,      \* spend dated Today
    future,     \* spend dated after Today
    mode,       \* the Household's allowance mode
    changed,    \* the inputs of the last Budget change's target line
    obeyed      \* history: the pool was positive, was never cut, and no
                \* expense went beyond what the figures offered

vars == <<pool, elapsed, settled, today, future, mode, changed, obeyed>>

Inputs ==
    [ pool |-> pool, days |-> Days, elapsed |-> elapsed, settled |-> settled,
      today |-> today, future |-> future, mode |-> mode ]

Read == Calculate(Inputs)

Over == Refused(Inputs)

\* What is left of the pool once every recorded expense is paid.
Remaining == pool - settled - today - future

\* The line of a Budget that has not changed.
Unchanged(p) == [days |-> Days, before |-> p, after |-> p, day |-> 1]

Init ==
    /\ pool \in Pools
    /\ mode \in Modes
    /\ elapsed = 0
    /\ settled = 0
    /\ today = 0
    /\ future = 0
    /\ changed = Unchanged(pool)
    /\ obeyed = (pool > 0)

Bounded(sum, max) == sum >= -MaxRefund /\ sum <= max

\* An expense dated Today is added, edited or removed, or a refund received.
SpendToday(x) ==
    /\ ~ Over
    /\ Bounded(today + x, MaxAhead)
    /\ today' = today + x
    /\ obeyed' = (obeyed /\ today + x >= 0 /\ x <= Read.left)
    /\ UNCHANGED <<pool, elapsed, settled, future, mode, changed>>

\* An expense dated after Today is added, edited or removed, which needs a day
\* after Today.  A refund is never dated ahead, so the sum is never negative.
SpendAhead(x) ==
    /\ ~ Over
    /\ future + x \in 0 .. MaxAhead
    /\ \E rate \in Read.forward : obeyed' = (obeyed /\ x <= rate)
    /\ future' = future + x
    /\ UNCHANGED <<pool, elapsed, settled, today, mode, changed>>

\* An expense added to, edited in or removed from a day already settled.
AmendPast(x) ==
    /\ ~ Over
    /\ elapsed > 0
    /\ Bounded(settled + x, MaxSettled)
    /\ settled' = settled + x
    /\ obeyed' = (obeyed /\ x <= 0)
    /\ UNCHANGED <<pool, elapsed, today, future, mode, changed>>

\* Today settles.  Of the spend dated ahead, due arrives with the new day; all
\* of it when that day is the last.
NextDay(due) ==
    /\ ~ Over
    /\ Bounded(settled + today, MaxSettled)
    /\ elapsed + 1 >= Days - 1 => due = future
    /\ elapsed' = elapsed + 1
    /\ settled' = settled + today
    /\ today' = due
    /\ future' = future - due
    /\ UNCHANGED <<pool, mode, changed, obeyed>>

\* The Monthly Budget changes, effective Today.
ChangeBudget(p) ==
    /\ ~ Over
    /\ pool' = p
    /\ changed' = [days |-> Days, before |-> pool, after |-> p,
                   day |-> elapsed + 1]
    /\ obeyed' = (obeyed /\ p >= pool)
    /\ UNCHANGED <<elapsed, settled, today, future, mode>>

Next ==
    \/ \E x \in Amounts : SpendToday(x) \/ SpendAhead(x) \/ AmendPast(x)
    \/ \E due \in 0 .. future : NextDay(due)
    \/ \E p \in Pools : ChangeBudget(p)

Spec == Init /\ [][Next]_vars

-----------------------------------------------------------------------------
(***************************************************************************)
(* Properties.                                                             *)
(***************************************************************************)

\* Calculate refuses exactly the Period that is over, and ForwardDailyRate is
\* nil exactly on the last day.
TypeOK ==
    /\ pool \in Int \ {0}
    /\ elapsed \in 0 .. Days
    /\ settled \in Int /\ today \in Int /\ future \in Nat
    /\ mode \in Modes
    /\ obeyed \in BOOLEAN
    /\ changed \in [days : {Days}, before : Int \ {0}, after : Int \ {0},
                    day : 1 .. Days]
    /\ ~ LineRefused(changed)
    /\ Over <=> elapsed = Days
    /\ ~ Over => /\ Read.state \in States
                 /\ Read.forward = {} <=> elapsed = Days - 1

\* "Afloat never tells a Household it can spend more than it can": one in
\* adaptive mode that spends no more than Left to Spend Today, dates ahead no
\* more than the Forward Daily Rate and never sees its pool cut has not spent
\* more than the pool, on any day of the Period.
ObedienceIsSafe == mode = "adaptive" /\ obeyed => Remaining >= 0

\* The Forward Daily Rate is a promise kept: when Today settles with nothing
\* dated for tomorrow, tomorrow's allowance is the rate that was shown, to the
\* last unit of the scale.
ForwardIsTomorrow ==
    [][ (mode = "adaptive" /\ elapsed' = elapsed + 1 /\ today' = 0 /\ ~ Over')
          => Read.forward = {Read'.allowance} ]_vars

\* Past the warm-up, State and the Buffer Days shown beside it never contradict
\* each other while the pool is positive, though one is decided on exact values
\* and the other is rounded.
StateAgreesWithBuffer ==
    (~ Over /\ pool > 0 /\ elapsed >= WarmUpDays) =>
        /\ Read.state = "afloat" => Read.buffer >= DriftingBelow
        /\ Read.state = "drifting" =>
               Read.buffer \in TakingOnWaterBelow .. DriftingBelow
        /\ Read.state = "taking_on_water" => Read.buffer <= TakingOnWaterBelow

\* Adding spend to the past never improves the reading: neither State nor
\* Buffer Days, while the pool is positive.
SpendNeverHelps ==
    [][ (settled' > settled /\ elapsed' = elapsed /\ pool > 0) =>
          /\ Read'.buffer <= Read.buffer
          /\ Read'.state = "afloat" => Read.state = "afloat"
          /\ Read'.state = "drifting" => Read.state # "taking_on_water" ]_vars

\* Allowance figures round down, also below zero: B is the largest amount that
\* fits the pool on every day, and A the largest that fits what remains of it.
AllowancesRoundDown ==
    ~ Over =>
        /\ Read.baseline * Days <= pool
        /\ (Read.baseline + 1) * Days > pool
        /\ mode = "adaptive" =>
               LET left == pool - future - settled
                   r    == Days - elapsed
               IN  Read.allowance * r <= left /\ (Read.allowance + 1) * r > left

\* Trajectory Variance is the nearest unit to the exact value, and a tie goes
\* away from zero.
VarianceRoundsHalfUp ==
    ~ Over =>
        LET exact == pool * elapsed - settled * Days
            shown == Read.variance * Days
        IN  /\ 2 * Magnitude(shown - exact) <= Days
            /\ 2 * Magnitude(shown - exact) = Days
                   => Magnitude(shown) > Magnitude(exact)

\* What the two roundings of trajectory.go promise, together: no allowance shown
\* is more than fits, and the variance shown is the nearest there is.
FiguresRoundAsPromised == AllowancesRoundDown /\ VarianceRoundsHalfUp

\* The target line of a Budget change never falls once the change is in force,
\* and never starts below the target already reached.
LineNeverFalls ==
    \A d \in changed.day .. Days : At(changed, d - 1) <= At(changed, d)

\* The target line ends the Period exactly at the new pool, or flat at the
\* target already reached when the pool was cut below it.
LineEndsAtPool ==
    At(changed, Days) =
        IF changed.after * Days >= TargetBefore(changed)
        THEN changed.after
        ELSE At(changed, changed.day - 1)

\* The two together: the clamp of At keeps the line from falling, and the
\* baseline of NewTargetLine brings it to the pool.
TargetLineHolds == LineNeverFalls /\ LineEndsAtPool

=============================================================================
