---------------------------- MODULE LoginBackoff ----------------------------
(***************************************************************************)
(* The login_attempts table and the three statements of queries/auth.sql   *)
(* that read and write it: GetLoginBackoff, RecordLoginFailure and         *)
(* ClearLoginAttempts.  Everything here is a value: the modules that       *)
(* EXTEND this one hold the table in a variable and decide when, and under *)
(* which faults, a statement runs.                                         *)
(*                                                                         *)
(* Time is the database's now(), in ticks; TicksPerSecond of them make the *)
(* second that Retry-After counts in.                                      *)
(***************************************************************************)
EXTENDS Integers, FiniteSets

CONSTANT TicksPerSecond   \* how many ticks make one second

ASSUME TicksAssumption == TicksPerSecond \in Nat \ {0}

(***************************************************************************)
(* The settings of a backoff: first is LOGIN_FIRST_BACKOFF and max is      *)
(* LOGIN_MAX_BACKOFF, in ticks, and error is how far ceil(log(2, ratio))   *)
(* lands from the exact ceiling.  config.validate refuses a first window   *)
(* below 1ms and a cap below the first window.  The logarithm is computed  *)
(* in rounded decimal digits, so its ceiling may be one off on either side *)
(* of a power of two.                                                      *)
(***************************************************************************)
ValidSettings ==
    {s \in [first : Nat \ {0}, max : Nat, error : {-1, 0, 1}] : s.first <= s.max}

-----------------------------------------------------------------------------

Least(a, b) == IF a <= b THEN a ELSE b

\* pow(2, e)
Doublings(e) == 2^e

\* A row of login_attempts.  count = 0 stands for the absent row.
Row == [count : Nat, until : Nat]

NoRow == [count |-> 0, until |-> 0]

\* The window is open while backoff_until > now().
Active(row, t) == row.until > t

\* ceil(log2(max / first)): the first doubling that reaches the cap.
CeilLog2Ratio(s) ==
    CHOOSE e \in 0 .. s.max :
        /\ s.first * Doublings(e) >= s.max
        /\ \A d \in 0 .. e - 1 : s.first * Doublings(d) < s.max

\* One past it, as the database computes it: where the exponent stops.
ExponentCap(s) == CeilLog2Ratio(s) + s.error + 1

\* Mutant: the exponent is not clamped.
ExponentUnclamped(s, count) == count

\* The power in use grows with the failures and stops at ExponentCap.
Exponent(s, count) == Least(count, ExponentCap(s))

\* Mutant: the two settings are passed the wrong way round.
WindowSwapped(s, count) ==
    IF count = 0
      THEN s.max
      ELSE Least(s.max * Doublings(Exponent(s, count)), s.first)

\* The window RecordLoginFailure writes over a row holding count failures.
Window(s, count) ==
    IF count = 0
      THEN s.first
      ELSE Least(s.first * Doublings(Exponent(s, count)), s.max)

\* RecordLoginFailure: the row after one more failure.  row is as the statement
\* finds it once it has the lock, and t its now(), fixed when it began.
RecordLoginFailure(s, row, t) ==
    [count |-> row.count + 1, until |-> t + Window(s, row.count)]

\* GetLoginBackoff finds a window of keys still open: the login is throttled.
Throttles(table, keys, t) == \E k \in keys : Active(table[k], t)

\* GetLoginBackoff: what is left of the longest open window over keys, or 0.
GetLoginBackoff(table, keys, t) ==
    LET open == {k \in keys : Active(table[k], t)}
    IN  IF open = {}
          THEN 0
          ELSE (CHOOSE u \in {table[k].until : k \in open} :
                   \A k \in open : table[k].until <= u) - t

\* ClearLoginAttempts: the rows of keys are deleted.
ClearLoginAttempts(table, keys) ==
    [k \in DOMAIN table |-> IF k \in keys THEN NoRow ELSE table[k]]

\* Mutant: the seconds are truncated.
RetryAfterFloor(wait) == wait \div TicksPerSecond

\* The Retry-After of a 429, in seconds: int(wait.Seconds()) + 1.
RetryAfter(wait) == wait \div TicksPerSecond + 1
=============================================================================
