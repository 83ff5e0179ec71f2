---------------------------- MODULE BackoffCurve ----------------------------
(***************************************************************************)
(* One key of login_attempts over a long run of failures, clears and       *)
(* reads, for every backoff configuration in Configs: the row that         *)
(* RecordLoginFailure writes is compared with the curve the fixture        *)
(* login_backoff.json spells out, and the Retry-After of a 429 with the    *)
(* end of the window it was computed from.                                 *)
(***************************************************************************)
EXTENDS LoginBackoff

CONSTANTS
    Configs,        \* the operator's settings, and how the logarithm rounds
    IntervalMax,    \* the longest interval the database can represent
    MaxFailures,    \* bound: failures on the key
    MaxWait,        \* bound: how long a failure waits for the row's lock
    MaxNow          \* bound: the last instant of the database clock

ASSUME CurveAssumption ==
    /\ Configs \subseteq ValidSettings
    /\ \A c \in Configs : 8 * c.max <= IntervalMax
    /\ IntervalMax \in Nat
    /\ MaxFailures \in Nat
    /\ MaxWait \in Nat
    /\ MaxNow \in Nat

VARIABLES
    config,   \* the settings the server was started with
    row,      \* the key's row
    now,      \* the database clock
    failures, \* refused passwords since the row was last cleared
    at,       \* now() of the statement that recorded the last of them
    told      \* the last 429: when, its Retry-After, and the failures by then

vars == <<config, row, now, failures, at, told>>

NotTold == [when |-> 0, retry |-> 0, failures |-> -1]

Init ==
    /\ config \in Configs
    /\ row = NoRow
    /\ now = 0
    /\ failures = 0
    /\ at = 0
    /\ told = NotTold

\* The statement fails, and leaves the row, when its product overflows.
Overflows(count) ==
    /\ count > 0
    /\ config.first * Doublings(Exponent(config, count)) > IntervalMax

\* A password was refused and RecordLoginFailure writes the row.  Its now() is
\* when the statement began, before it had the row's lock.
RecordFailure ==
    /\ failures < MaxFailures
    /\ at' \in {t \in 0 .. now : now - t <= MaxWait}
    /\ row' = IF Overflows(row.count) THEN row
              ELSE RecordLoginFailure(config, row, at')
    /\ failures' = failures + 1
    /\ UNCHANGED <<config, now, told>>

\* A login is throttled: 429 with the Retry-After of what is left.
Throttled ==
    LET wait == GetLoginBackoff([k \in {1} |-> row], {1}, now)
    IN  /\ wait > 0
        /\ told' = [when |-> now, retry |-> RetryAfter(wait),
                    failures |-> failures]
        /\ UNCHANGED <<config, row, now, failures, at>>

\* A login succeeds: ClearLoginAttempts.
ClearAttempts ==
    /\ row.count > 0
    /\ row' = NoRow
    /\ failures' = 0
    /\ at' = 0
    /\ told' = NotTold
    /\ UNCHANGED <<config, now>>

Tick ==
    /\ now < MaxNow
    /\ now' = now + 1
    /\ UNCHANGED <<config, row, failures, at, told>>

Next == RecordFailure \/ Throttled \/ ClearAttempts \/ Tick

Spec == Init /\ [][Next]_vars

-----------------------------------------------------------------------------

\* The curve of login_backoff.json: first, doubled with each failure, capped.
Curve[n \in 1 .. MaxFailures] ==
    IF n = 1 THEN config.first
    ELSE IF 2 * Curve[n - 1] <= config.max THEN 2 * Curve[n - 1] ELSE config.max

\* After the n-th failure in a row the window ends exactly one curve value after
\* its statement began: the clamped exponent of RecordLoginFailure never falls
\* short of the cap, even with the logarithm rounded to the wrong side, and the
\* statement never overflows and so never stops counting.
FollowsCurve ==
    failures > 0 => /\ row.count = failures
                    /\ row.until = at + Curve[failures]

\* A caller who waits the Retry-After it was told, and no more failures having
\* been recorded meanwhile, is not refused again, and was not told to wait a
\* second longer than that ("Rounded up: a Retry-After of 0 invites an immediate
\* retry that is still inside the window").
RetryAfterIsEnough ==
    told.failures = failures =>
        /\ now >= told.when + told.retry * TicksPerSecond =>
             ~Active(row, now)
        /\ told.when + (told.retry - 1) * TicksPerSecond <= row.until
=============================================================================
