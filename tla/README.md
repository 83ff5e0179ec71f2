# Verification of afloat

TLA+ models of the afloat server and of the suite that holds its two backends to one contract,
translated from the Go backend, its SQL, its schema and the conformance harness: what TLC
checks on small instances, and what TLAPS proves for every value of the constants.

## The system

afloat is a household budgeting server with two interchangeable backends, Go (`backend/`, the
reference here) and Kotlin/Spring (`backend-kotlin/`), behind one OpenAPI contract and over one
Postgres database. What is stateful today is authentication, which is where two requests can get
something wrong together, and the process around it. The budget arithmetic is written and tested, and
waits for its caller.

| Part | State | Operations | What is hard | Module |
|---|---|---|---|---|
| Login (`auth/login.go`) | the requests in flight, `login_attempts`, `sessions` | `LocalLogin` | bursts, the permit queue, row locks, clients that leave, outages between statements | `Login`, `LoginProofs` |
| Argon2 permits (`auth/password.go`) | the channel, three counters | `acquireArgonPermit`, `releaseArgonPermit` | lock-free counters, a queue of blocked senders | `ArgonPermits`, `PermitPool`, `PermitProofs` |
| Login backoff (`queries/auth.sql`) | `login_attempts` | `RecordLoginFailure`, `GetLoginBackoff`, `ClearLoginAttempts` | rounding, overflow, the cap | `LoginBackoff`, `BackoffCurve`, `WindowProofs`, `BackoffProofs` |
| Sessions (`auth/session.go`, `auth/me.go`) | `sessions`, the browser's cookie, two clocks | `SessionMiddleware`, `touchIfStale`, `IssueSession`, `Logout`, `GetMe` | state read before a write and used after it, responses out of order | `Session`, `SessionProofs` |
| HTTP pipeline (`httpserver/`) | none | the middlewares, the routes, the validator | which refusal wins, what a refusal keeps a request from | `Pipeline` |
| Process (`cmd/afloat/main.go`, `config/`, `postgres/`, `system/`) | the configuration, the phase of `run`, the pool, the requests in flight | boot, serve, shut down | four timeouts against one another, a signal at any point | `Server`, `ServerProofs` |
| Trajectory and target line (`trajectory/`) | none; a Period's aggregates are its input | `Calculate`, `NewTargetLine`, `At` | rounding below zero, the last day, figures that have to agree | `Trajectory`, `Period`, `PeriodProofs` |
| Conformance harness (`contract/conformance/`) | two databases, two backends' pools, the run's place and verdicts | `TestConformance`, `runCase`, the loaders, the comparisons | outages left behind, files that combine into no check, clocks and row orders | `CaseFile`, `Parity`, `Harness`, `HarnessProofs` |
| Kotlin backend, scripts | | | | not modelled, see below |

How they interact: a request passes `SessionMiddleware` before any handler. A login reads the backoff,
resolves the account, queues for a permit, reads the backoff again holding it, hashes, records a
failure or goes on to clear the backoff and insert a session, and gives the permit back in between.
`Login` holds the permits as a counter. `ArgonPermits` and `Login` meet at `PermitPool`: the permit code is
proved to implement it, and the logins to use it. The conformance harness stands outside: it drives both backends through the same
cases over databases of their own, makes a database unreachable where a case says so, and compares the
answers and the rows.

## Modules

**LoginBackoff** is a module of values, no variables: the three statements on `login_attempts` as
operators over a row, a table, a time. `count = 0` stands for no row. `ValidSettings` are the first
window and the cap that `config.validate` lets through, with an `error` for the database's rounded
logarithm: the exponent's clamp is `ceil(log2(max/first)) + 1`, one off either way. This
over-approximates what Postgres's numeric `log` does.

**BackoffCurve** runs one key through failures, reads and clears, for a whole set of configurations,
and compares the row with the curve of `contract/testdata/login_backoff.json`, which it defines
independently as a recursive function. A failure may have waited up to `MaxWait` ticks for the row: its
`now()` is when it began. A product longer than an interval can hold makes the statement
fail and the row stay, as in Postgres.

**Login** has one action per database statement and per step at the permits. `pc` names the next
step, in the order of the code:
`throttled -> user -> credential -> acquire -> queued -> check -> verify -> record -> release -> clear -> issue`.
`gone` is the request context ended, `spent` the context of `afterPermit` ended. A statement fails when
the database is down or its context has ended, and a failed write may have been applied. A failure is
written in two steps, as concurrent ones meet on a row: `BeginFailure` fixes its `now()` in `began`, and
`RecordFailure` finds the row as the logins it waited for left it. `releasePermit` is a `sync.OnceFunc`,
called early by `ReleasePermit` and again by the `defer`, in `IssueSession`. A password is
`own` (the account's), `phrase` (what the dummy hash was built from) or `other`; an account is unknown,
dormant (no credential), active, or corrupt (a stored hash `parsePHC` refuses). `wrote`, `missed` and
`late` are history variables.

**ArgonPermits** takes the permit code one atomic operation at a time: the first context check, the
`select` (send, park, give up), `Add`, the compare-and-swap loop, and on release the decrement before
the receive. A receive from a full channel admits the first blocked sender, which is the Go runtime's
behaviour, modelled as external. **PermitPool** is the abstract specification: who asks, who holds.

**Session** is one user's browser with overlapping requests. The database clock is `now`, the
application's `now + skew`. `expiry` is what `GetLiveSession` returned and then what `TouchSession` is to
write, so the gap between the read and the write is a step. Set-Cookie is `keep`, `clear` or a token, and
responses are delivered in any order or lost. `LocalLogin` here is only its end: it may succeed or fail
for any of the reasons in `Login`. A request whose client leaves is one whose remaining statements fail
and whose response is lost: `Outage` and `Lose` take those steps.

**Pipeline** is a module of functions: each middleware of `httpserver.New` that can answer yields the
set of its answer, empty when it calls the next, and `FirstRefusal` is the chain. A request is a record
of what they read. `BeforeSession` and `AfterSession` are the two stretches around `SessionMiddleware`.

**Server** is `run()` and the requests it serves. `phase` is where `run` stands, `pc` where each request
does: waiting for a connection (`lookup`, `handle`, `detached`), having one (`looking`, `handling`,
`finishing`), waiting for its body, queueing for a permit, or with an answer to write. A body may be late:
it comes after the headers, if it comes at all. The validator waits for that of a login (`body`), and net/http
for one that nobody has read, before it writes the answer. Only the read deadline ends that wait
(`ReadBodyFails`), as reading watches no context: it has at most HTTP_READ_TIMEOUT left when the headers are
in, and is not there when that is 0. A read that fails is the answer INVALID_JSON_BODY. `age` counts ticks from the end of the
headers, where the write deadline starts; `limit` is the age at which its context ends, which starts up
to `MaxLag` ticks later and starts afresh when a login takes its permit. A tick passes only when nobody
is out of time. Without a read deadline an age past all the others stays where it is (`Ageless`), which
bounds the wait. The statements of a handler are one statement here; `Session` and `Login` have them one
by one, and `Login` has the cap on permits. `Exit` is the deferred `pool.Close`, which waits for the
connections in use, and the end of the process, which waits for nothing.

**Trajectory** has `Calculate`, `decideState`, the two roundings and the target line as functions on
integers: money in units of the scale (10000 in the code, a constant here), and an exact rational as a
numerator over the Period's days or the pool, compared by cross-multiplying as `big.Rat` does. **Period** drives it:
spend is recorded for today, ahead or in the past, days settle, the Budget changes, and the figures are
read in every state. Its actions are external, taken from the fields of `Inputs` and
`TargetLineInputs`, as the caller is not written yet.

**CaseFile** has the two files of a conformance run as records, and what the loaders accept: `ValidCase`
and the parts of `Case.validate`, `ValidEntry`, and `CheckPermits`, which holds the one file to the
other. **Parity** is the verdict: cookies attribute by attribute, expiries measured from the answer's own
`Date`, snapshots sorted by their text cells and compared row by row, `same_as`, and what the permitted
list lets through. A header name is in lower case, a pattern the set of values it matches, a JSON body
what it parses to; sorting is the set of orders `sort.Slice` may leave. `Selected` is what a list has at
a set of places, the loop that cookies of a name, columns of a snapshot and cells of a sort key are
collected with.

**Harness** is `TestConformance` over them, one action per call to a database or a backend:
`load -> open -> ready -> reset -> given -> request -> restore -> health -> inspect -> sameAs -> judge`,
the stretch from `reset` once for Go and once for Kotlin. `accepting` is `ALLOW_CONNECTIONS`,
`recovering` the pools an outage has broken, `deferred` whether `runCase` has deferred its `Restore`.
A call may fail (`requestFaults`, `databaseFaults`), a backend may answer anything in the suite and write
rows through a pool that works, a row's `user_agent` says which case of which run wrote it (`Writer`), and a run may be killed
between two calls and started again. A step's SQL that is blank is none to `validate`, which trims it, and
is one to `runCase`, which does not: it runs instead of the step's request. What the backends do is external; so is the pool's recovery.
`OwnRowsOnly` speaks of the rows whose `user_agent` the snapshot reads: a permit may mask that column.

**LoginProofs**, **BackoffProofs**, **PermitProofs**, **SessionProofs**, **ServerProofs**, **PeriodProofs** and
**HarnessProofs** hold the theorems, **WindowProofs** the lemmas about `LoginBackoff` that the first two rest
on, `MC*` the instances for TLC. Definitions marked as mutants in a comment are faults a change to the code could bring in; each makes the property it is listed with fail.

## Runs

| Run | Asks | Result |
|---|---|---|
| `login_burst` | 3 logins, 1 account, 2 permits, an outage, a tick, waits for the row, fairness | permits conserved, `LateChecksBounded`, `FailuresStand`, every login is answered |
| `login_faults` | 2 logins, 4 kinds of account, an outage, 2 clients leaving, 1 budget spent | refused guesses are counted, nothing else is, sessions are earned |
| `login_unresolved` | 1 login, no fault | violated, see findings |
| `backoff_curve` | every `first <= max <= 9` ticks, 8 failures, waits of up to 2 ticks | the curve, `Retry-After` |
| `permits` | 3 callers, 2 permits, fairness | counters, peak, refinement of the pool, no starvation |
| `session_overlap` | 2 requests, 1 session, TTL and cap of 2 ticks, skews of 0 and 1, an outage, fairness | logout and cap final, outages sign nobody out, dead token forgotten |
| `session_revived` | the same with a cap of 3 ticks, no outage, logout or skew | violated, see findings |
| `server` | 2 requests of 9 shapes, two of them with a late body, 1 connection, 5 configurations, an outage, a signal | clean exits, readiness, deadlines, what the middlewares keep out |
| `server_stops` | a login with a late body and a probe, 1 connection, with a read deadline and without, an outage, fairness | the process stops when told, every request ends |
| `period` | 4 days, pools of 7, 16 and -5 units, spend of -2, 1 and 4 | obedience is safe, the figures agree and round as promised, the line never falls |
| `conformance` | suites of one and two cases: every pin and permit of a status, header and body, cookies under 3 Dates, 4 rows by 2 writes, outages with up to 2 failed calls and a kill, fairness | cases start fresh, compare their own rows, differences are ruled, comparisons are exact, green runs are real, outages end |
| `conformance_killed` | the outages and the kill, no failed call | violated, see findings |

Why the bounds are enough. The burst needs more logins than permits and more than one permit: 3 over
2. Two fail at one instant, and a third, which the closed first window lets in a tick later, overtakes the
second, whose window is then at the cap (2 ticks) and ends a tick earlier. A counted guess needs one fault at each of its statements: one outage, one spent budget and a
client that leaves each of the two logins reach every pair of steps. The curve is at its cap after four
failures at most in these configurations, eight is twice that. The compare-and-swap loop needs two
callers in it and a third in the queue. The session hazards need one request between its read and its
write while the other finishes: two requests, one token. One token is enough as sessions share nothing
but the browser's cookie; `SessionProofs` covers any number, and any skew. The safety properties
also pass with two sessions (17 million states, five minutes) and, over one session and one more
instant, with skews of -1, 0 and 1 (2.6 million); these instances are not kept as runs.
`AbsoluteCap` is about the skew too: `session_overlap` has the clocks agree and the application's a tick ahead.
The server's hazards need one request that waits for what another has: two requests, one connection. Its
configurations have a shutdown shorter than a request, one just longer than a request without a permit,
two longer than any request that has its body, the one with a read timeout past the write deadline and the
other with none, and one that `Load` refuses; one tick of lag and two of grace is the smallest grace longer than a
lag. Of the Period's pools one gives a baseline that does not divide, one gives ties, one is negative;
four days have a first, a last, and two between on which a sum can be forgotten. The scale is 10, so
that rounding shows on small amounts; `PeriodProofs` covers any scale, length and amounts.
Each family of the conformance suites varies what one question turns on. Verdicts need one case, one
entry beside `Date`, and answers that differ in one thing each; that a file is refused is itself one of
the outcomes. An outage needs a case after it, of the same profile or of the twin's, and one before; two
faults are a failed call and a failed `Restore` after it. Dates and rows lie on either side of the
two-second tolerances, also after a snapshot three seconds late. `HarnessProofs` covers any suite.

Fairness. A goroutine that has begun keeps running, and every statement ends: `WF` of each request's own
step. Nothing makes a client arrive, leave, or the clock pass. In `Session` the browser keeps probing
`GET /me` (BOOTSTRAP.md section 5.1: "the PWA re-probes on every resume"), responses are not lost for
ever (`SF` of delivery) and the database comes back; `DeadTokenForgotten` needs all three.
In `Server` it is `run` and each request that keep running, and time that passes: nothing makes a
signal come, the database return or a client send its body, and `StopsWhenTold` needs none of it.
`EveryRequestEnds` needs a read deadline for a request whose body has not come, and says so. In `Harness` the runner is one
goroutine (`WF` of its next call) and a pool keeps trying to reconnect; `OutageEnds` needs the first.

Deadlock is not checked in the login runs, where finitely many logins end, in the server's, where the
process exits, and in the curve's and the Period's, which are bounded.

## What is proved

From `BackoffAssumption` (the settings are valid) and `LoginAssumption`, for any number of logins,
addresses, permits, outages: `TypeCorrect`, `PermitsConserved`, `BurstBounded`, `NoLockout`,
`GuessesCounted`, `FailuresChecked`, `SessionsEarned`, the action property `FailuresKept` and the refinement
`LoginsUseThePool`.

* *Permits.* `HoldersInv`: occupancy is the cardinality of the logins whose step is one that holds.
  Only `TakePermit` and `ReleasePermit` move a login across that line.
* *Burst.* `LateChecksBounded` is not inductive: nothing in it says how many logins may still check.
  `WindowInv` adds it: while a window is open, the late checks so far and the logins past the second
  read number together at most the cap less one, the login that opened the window having used one
  permit. The second read under the permit is what keeps new ones from joining.
* *The pool.* `LoginsUseThePool` maps the logins in `queued` to those asking `PermitPool` for a permit
  and the holders to those holding one. A step that takes a permit is a grant because `HoldersInv` ties the
  counter to the holders. With `PermitsArePool` this closes the composition: the pool is all the logins
  rely on, and what the channel provides.
* *Lockout and standing failures.* Neither `NeverLockedOut` nor `FailuresStand` says enough of the end of
  a window. `EndInv` does: it is at most `now` and the window of the row's last failure, and a row without
  failures has none. A window never exceeds the cap, which gives `NoLockout`; and it never shrinks with the
  count (`WindowGrows`), so a failure whose statement began at `t` ends no earlier than the last one less
  `now - t`, what it waited for the row, which with `LoginsInv` for the clear gives `FailuresKept`.
* *Counting and sessions.* `LoginsInv` says, for each login, what it has resolved and which keys it has
  still to write.
* *Nothing else is counted.* `FailuresWereChecked` is not inductive: a login that has its verdict and is
  half way through its keys counts on none of the rest. `CountInv` bounds a key's failures by the refused
  logins whose walk has passed it, and adds that a walk meets no key twice: each turn moves one login
  past one key and adds at most one failure there.

From `TicksAssumption` and `CurveAssumption` (the settings are valid, and eight times the cap is an
interval the database can hold), for any number of failures and any wait for the row: `CurveFollowed` and
`WaitIsEnough`. The window comes first, in `WindowProofs`, for every valid setting and
both `BackoffProofs` and `LoginProofs`. The provers know no powers of two and do no induction over them. So
`2^n` is taken as the number of subsets of `1 .. n`, which the library counts, and an induction is put as
a least counterexample (`LeastNumber`). From these, the clamped exponent reaches the cap with either
rounding (`CapReaches`), the product stays below eight times the cap (`ProductBounded`), so the
statement never overflows, and the window is the curve's by `WindowDoubles`. The invariant keeps that
the row holds every failure since the last clear, and that its end is one window after the `now()` of the
last of them.

From `PermitsAssumption` (the cap is positive), for any number of callers: `MetersRight` and
`PermitsArePool`, the refinement of `PermitPool`. The invariant counts the callers at each group of steps:
the channel's occupancy, `argonInFlight`, `argonWaiting` and the queue's length are each the
cardinality of one set of steps. A queue stands only behind a full channel, which is what makes a
receive hand over. For the peak, it only lags behind the highest count while a caller that saw that count
is still in the compare-and-swap loop, so it is exact once nobody is.

From `SessionAssumption`, for any number of requests and sessions, any skew: `TypeCorrect`,
`LogoutIsFinal`, `CapIsAbsolute`, `IdleSessionsEnd`, `LateIsAnonymous` and the action property
`OutagesKeepCookies`. The invariant adds that every token in a cookie, in a request or among the revoked has been minted, so no
login mints it again; that a row's `created` is the instant of its insert; and that a late request's
token stays dead until it is looked up. `IdleSessionsEnd` needs `SlideInv` besides: the expiry a request
holds for its touch was computed in the past, so written now it lies within `SESSION_TTL`, and the skew, of the
`last_seen_at` written with it. In the instance of `session_overlap` the cap is no longer than the window and would
hide it; TLC has checked it with a cap of three ticks (1.7 million states), which is not kept as a run.

From `ServerAssumption` (the grace is longer than the lag), for any number of requests, connections,
outages and any configurations: `TypeCorrect`, `ExitsClean`, `ServesWhenReady`, `CutOffHeard`,
`PatienceIsClean`, `CrossSiteInert`, `TwinsAnsweredAlike`. The invariant bounds each request's `limit` by `Short`, once the
handler timeout and the lag, or by `Long`, twice, once it has its permit; and the time spent draining by
the age of every request in flight, as none is accepted after the drain begins. So a drain lasts no
longer than `Long`, and no longer than `Short` without a permit, and an answer written within
`Short` is within the write deadline. A late body is the exception to each: nobody who reads one watches the
context. While it is awaited the age is bounded by the read deadline alone, and afterwards the request's
context has ended, so it moves on at once: `Tardy`, `Awaited` and `Patience` are that. So what the theorems
promise of the write deadline and the shutdown, they promise for bodies that came with their headers, and
for late ones as far as HTTP_READ_TIMEOUT carries. `CrossSiteInert` rests on lemmas about `FirstRefusal`: a chain
refuses when any of its middlewares does. `AnswersMirror` compares two finished requests, of which no
step sees more than one; `Traced` says of each answer where it came from, the chain's first refusal or a
handler of the request's route, and two twins have the same sources.

From `TrajectoryAssumption` and `PeriodAssumption`, for any scale, length, pools and amounts:
`TypeCorrect`, `Obedience`, `ForwardKept`, `FiguresRound`, `TargetLine`, `SpendNeverPays`,
`StateAgrees`. `ObeyInv` adds to `ObedienceIsSafe` that an obedient Household has spent nothing negative
today; the rest is integer division: what `floorAt4dp` returns is the floor, and a floor times the days
left is within what is left, and both roundings are monotone. The line rises because `At` takes the
larger of the candidate and the target already reached.

From `SuitesAssumption` (a suite has a case, its lists are lists, its rows have their table's columns, and
`None` is no answer) and `SchemaAssumption` (a table's columns have distinct names, `user_agent` is a
text, and no number is `None` or `Garbled`), for any suite, answers, faults and kills: `StartsFresh`,
`RunsAreReal`, `RuledDifferences`, `RowsAreOwn`, `SnapshotsExact`, `TwinsAreSpared`.

What a case starts from is not inductive. `Refusing` says where a database may refuse: between an outage and the `Restore` the same
`runCase` has deferred, or, after a kill, before `OpenDB` has got to it. `Broken` says the same of the
pools up to `waitHealthy`. `Answered` says Go's `same_as` answer is there to be compared, on which
the pin of Go's body rests.

* *Own rows.* The verdict reads snapshots taken several calls before it. `Sourced` follows the rows: since
  `Reset` a database has the seed's and the case's own of this run, a snapshot is one of such a database, and no
  later call, failed or not, puts another in its place before the verdict.
* *Exact snapshots.* `Sourced` also gives that the rows of a snapshot are in the order of their keys. The
  order is total (`KeyTotal`), and rows that are the same within the tolerance have the same key, as
  instants are no part of it. A one to one correspondence between two lists in strict order moves no row
  (`GrowingIsIdentity`), so comparing place by place finds it.
* *Twins.* Moving an answer in time moves its `Date` and its expiries alike, so what
  `expiresRelation` measures stays (`ExpiryMoves`); and two lists that agree on where a name stands
  give selections that pair up (`SelectedTogether`), so that cookies are compared with their own twins.

Only model-checked: liveness, which the prover does not reach (`EveryLoginAnswered`, `NobodyStarves`,
`DeadTokenForgotten`, `StopsWhenTold`, `EveryRequestEnds`, `OutageEnds`). Every invariant and every action
property a passing run checks has its theorem.

## Findings

* `login_unresolved`: an address with no credential whose password verifies against the dummy hash is
  answered 500, where the comment on `LocalLogin` says every failure mode returns one
  `INVALID_CREDENTIALS`. The Kotlin backend answers 401.
* `session_revived`: `TouchSession` updates by id alone, so one that arrives late reopens an expired
  session whose cookie another response is clearing as one "that cannot work".
* `conformance_killed`: `OpenDB` connects to the database before it restores it, so a database left
  refusing connections by a run killed mid-outage fails the next run instead of being undone by it, as
  the comment there says it is. A required run fails, an optional one skips.

More seen while modelling, not stated as runs. `decideState` compares the variance with the threshold
times the baseline, which reads Buffer Days only while the Daily Pool is positive; only a zero pool is
refused, and a negative one inverts the reading CONTEXT.md gives. An `Outage` of the harness that fails
after its `ALTER DATABASE` leaves before `Restore` is deferred; and the twin profile's backend shares the
database of an outage case, while only the case's own is waited for: `CaseStartsFresh` excepts both. Two touches applied in the other order move
`expires_at` back by the time between them. With the local provider off, a cross-site POST to the login is answered
404 by the gate, and to a path never registered 403 by the guard behind it, so
`AnswersMirror` is stated for requests that are not cross-site. The default SHUTDOWN_TIMEOUT (10s) is shorter than HTTP_WRITE_TIMEOUT (60s), so a default
shutdown may time out and cut a slow request, as `PatientShutdownIsClean` allows; a login that took its
permit may answer past the write deadline, as BOOTSTRAP.md section 5.1 says. HTTP_READ_TIMEOUT is compared with
none of the others and accepted when it is 0: the answer to a request whose body was late may then miss the
write deadline and a shutdown time out on it, which `CutOffIsHeard` and `PatientShutdownIsClean` except; with
the default (30s, half of HTTP_WRITE_TIMEOUT) only the shutdown can. `Load` refuses a directory without case
files and not files without cases, so that a suite of no case would be green with nothing judged:
`SuitesAssumption` leaves it out of `RunIsReal`. A request step of a case whose `sql` is blank is accepted, and
its request is never made.

## Abstractions

A statement runs at one instant, but for `RecordLoginFailure`, whose `now()` may lie before it has the row.
`ClearLoginAttempts` deletes the rows of both keys in one instant. The
users and credentials tables do not change during a login. Panics are not modelled. `failure_count` is
unbounded. Sweeps (`DeleteExpiredSessions`) and `DeleteSessionsForUser` have no caller in the code.
In `Server` a late body comes all at once, connections are not kept alive, a signal before
`NotifyContext` (which kills the process) is left out, and so are request ids, security headers and
logging. `GetHealth` and `GetMe` find the rows they need. In `Period` refunds are not dated ahead,
and a refund today, a cut pool and fixed mode are outside `ObedienceIsSafe`, where nothing is promised.

In `Harness` an insert stands for any write, a query counts rows, a snapshot is one step, and how a
request is put on the wire is left out. Only one run drives the databases at a time.

## Not modelled

* The Kotlin backend. It implements the same contract over Spring's filter chain, JDBC transactions and a
  `Semaphore` of its own, so a faithful model is a second set of modules beside the Go ones, and much of
  what it would turn on (filter order, connector-level answers, the pool) is Spring's, Tomcat's and
  Hikari's code. What it is held to is modelled: the harness that compares it with Go.
* `api.gen.go`: generated routing and decoding. `Pipeline` has the routes and the refusals it can give,
  not its code.
* Pure conversions of one request or one value: request context, response shapes, user-agent clean-up,
  password policy, the Kotlin duration parser, the error envelope. They hold no state, and over
  characters a model would repeat them.
* Migrations and scripts: build-time tooling and static schema.
