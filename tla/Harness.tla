------------------------------ MODULE Harness ------------------------------
(***************************************************************************)
(* One TestConformance after another over two backends and their two       *)
(* databases: contract/conformance/conformance_test.go and db.go.          *)
(*                                                                         *)
(* The runner is sequential, and each call it makes to a database or a     *)
(* backend is a step.  Around it, a pool that an outage broke rebuilds in  *)
(* its own time, a call may fail, and the run may be killed between any    *)
(* two steps and started again over the databases as they were left.       *)
(***************************************************************************)
EXTENDS Parity, FiniteSets

CONSTANTS Suites,     \* what a run may be: files, flags and backends' conduct
          Seed,       \* the rows of fixtures/seed.sql
          Instants    \* how long after Reset a snapshot may be taken

IsList(list) == list \in Seq({list[i] : i \in DOMAIN list})

Names(t) == {Columns[t][i].name : i \in DOMAIN Columns[t]}

IsRow(t, row) == row \in [Names(t) -> Int \cup {None}]

IsInstant(at) == at \in Int \cup {None, Garbled}

\* An HTTP answer: the values of its headers, and its cookies' attributes.
IsAnswer(a) ==
    /\ DOMAIN a = {"status", "headers", "cookies", "body"}
    /\ \A n \in DOMAIN a.headers : IsList(a.headers[n]) /\ Len(a.headers[n]) > 0
    /\ "date" \in DOMAIN a.headers => a.headers["date"][1] \in Int \cup {Garbled}
    /\ IsList(a.cookies)
    /\ \A i \in DOMAIN a.cookies :
           /\ DOMAIN a.cookies[i] = {"name", "value", "attrs", "expires"}
           /\ IsInstant(a.cookies[i].expires)

\* The columns of a table have names of their own, and a user agent is a text.
ASSUME SchemaAssumption ==
    /\ None \notin Int /\ Garbled \notin Int /\ None # Garbled
    /\ Instants \subseteq Int
    /\ \A t \in Tables :
           /\ IsList(Columns[t])
           /\ \A i, j \in DOMAIN Columns[t] : Columns[t][i].name = Columns[t][j].name => i = j
           /\ \A i \in DOMAIN Columns[t] :
                  /\ Columns[t][i].timestamp \in BOOLEAN
                  /\ Columns[t][i].name = "user_agent" => ~ Columns[t][i].timestamp
           /\ IsList(Seed[t])
           /\ \A i \in DOMAIN Seed[t] : IsRow(t, Seed[t][i])

\* There is a case to run, and None is nothing else.
ASSUME SuitesAssumption ==
    \A s \in Suites :
        /\ IsList(s.cases) /\ Len(s.cases) > 0
        /\ \A i \in DOMAIN s.cases : IsList(s.cases[i].given)
        /\ \A n \in Backends : None \notin s.answers[n] /\ \A a \in s.answers[n] : IsAnswer(a)
        /\ \A t \in Tables : \A w \in s.writes[t] : IsRow(t, w)
        /\ None \notin {"pass", "skip"}

VARIABLES suite,      \* the run's files and flags, what its backends may answer and
                      \* write, and how many calls may fail and runs be killed
          pc,         \* the runner's next call
          caseNo,     \* the case it is on
          b,          \* the backend it is driving through the case
          step,       \* the given step it is on
          opened,     \* databases it has connections to
          deferred,   \* runCase has deferred a Restore
          runs,       \* what each backend did for the case so far
          failed,     \* some case has failed
          judged,     \* cases judged green
          outcome,    \* how the run ended
          accepting,  \* databases that accept connections
          rows,       \* the rows in each database
          recovering, \* pools that have lost their connections
          kills, requestFaults, databaseFaults

runner == <<pc, caseNo, b, step, opened, deferred, runs, failed, judged, outcome>>

databases == <<accepting, rows, recovering>>

counters == <<kills, requestFaults, databaseFaults>>

vars == <<suite, runner, databases, counters>>

-----------------------------------------------------------------------------

cases == suite.cases

permitted == PermittedSet(suite.entries)

theCase == cases[caseNo]

\* A second profile's pair shares its default twin's database.
Pool == <<ProfileOf(theCase), b>>

PoolsOf(n) == {<<ProfileOf(cases[i]), n>> : i \in DOMAIN cases}

\* Which case of which run is writing.
Writer == kills * Len(cases) + caseNo

HasOutage(c) == \E i \in DOMAIN c.given : c.given[i].outage

NoRun == [resp |-> None, ref |-> None, rows |-> <<>>, state |-> None]

NoRuns == [n \in Backends |-> NoRun]

Init ==
    /\ suite \in Suites
    /\ pc = "load" /\ caseNo = 1 /\ b = "go" /\ step = 1
    /\ opened = {} /\ deferred = FALSE /\ runs = NoRuns
    /\ failed = FALSE /\ judged = 0 /\ outcome = None
    /\ accepting = Backends /\ rows = [n \in Backends |-> Seed] /\ recovering = {}
    /\ kills = 0 /\ requestFaults = 0 /\ databaseFaults = 0

CanFail == requestFaults + databaseFaults < suite.maxFaults

RequestFails == CanFail /\ requestFaults' = requestFaults + 1 /\ UNCHANGED <<kills, databaseFaults>>

DatabaseFails == CanFail /\ databaseFaults' = databaseFaults + 1 /\ UNCHANGED <<kills, requestFaults>>

-----------------------------------------------------------------------------
(***************************************************************************)
(* Before the first case.                                                  *)
(***************************************************************************)

\* The runner changes nothing but its place.
Idle == UNCHANGED <<caseNo, b, step, opened, deferred, runs, failed, judged, outcome>>

End(how) ==
    /\ pc' = "done" /\ outcome' = how
    /\ UNCHANGED <<caseNo, b, step, opened, deferred, runs, failed, judged>>

\* What a run does without its databases or backends.
Unreachable == End(IF suite.required THEN "fail" ELSE "skip")

\* Mutant: -short skips a required run too.
SkipsWheneverShort == suite.short

\* AFLOAT_REQUIRE_CONFORMANCE wins over -short.
Skips == suite.short /\ ~ suite.required

LoadSuite ==
    /\ pc = "load"
    /\ \/ Skips /\ End("skip")
       \/ ~ Skips /\ ~ Accepted(cases, suite.entries) /\ End("fail")
       \/ ~ Skips /\ Accepted(cases, suite.entries) /\ pc' = "open" /\ Idle
    /\ UNCHANGED <<suite, databases, counters>>

\* Connects to the database, then to the maintenance one, then restores.  A
\* map is ranged over in any order.
OpenDB(n) ==
    /\ pc = "open" /\ n \notin opened
    /\ \/ n \notin accepting /\ Unreachable /\ UNCHANGED <<databases, counters>>
       \/ n \in accepting /\ Unreachable /\ DatabaseFails /\ UNCHANGED databases
       \/ /\ n \in accepting
          /\ opened' = opened \cup {n}
          /\ accepting' = accepting \cup {n}
          /\ pc' = IF opened' = Backends THEN "ready" ELSE "open"
          /\ UNCHANGED <<caseNo, b, step, deferred, runs, failed, judged, outcome>>
          /\ UNCHANGED <<rows, recovering, counters>>
    /\ UNCHANGED suite

\* Every pair some case uses must answer, whatever it answers.
WaitReady ==
    /\ pc = "ready"
    /\ \/ Unreachable /\ RequestFails
       \/ pc' = "reset" /\ Idle /\ UNCHANGED counters
    /\ UNCHANGED <<suite, databases>>

-----------------------------------------------------------------------------
(***************************************************************************)
(* A case: runCase on Go, on Kotlin, and the verdict.                      *)
(***************************************************************************)

LastCase == caseNo = Len(cases)

\* The next case, or the end of the run.
NextCase(green) ==
    /\ failed' = (failed \/ ~ green)
    /\ judged' = IF green THEN judged + 1 ELSE judged
    /\ b' = "go" /\ step' = 1 /\ runs' = NoRuns /\ deferred' = FALSE
    /\ IF LastCase
       THEN /\ pc' = "done"
            /\ outcome' = IF failed' THEN "fail" ELSE "pass"
            /\ UNCHANGED caseNo
       ELSE caseNo' = caseNo + 1 /\ pc' = "reset" /\ UNCHANGED outcome
    /\ UNCHANGED opened

\* Mutant: an early return that restores nothing.
AbortWithoutRestore ==
    NextCase(FALSE) /\ UNCHANGED <<accepting, recovering>>

\* runCase returns an error: the case has failed.  A deferred Restore runs, and
\* what it returns is dropped, so a database that fails calls may stay as it is.
Abort ==
    /\ \/ accepting' = IF deferred THEN accepting \cup {b} ELSE accepting
       \/ deferred /\ databaseFaults' > 0 /\ accepting' = accepting
    /\ NextCase(FALSE)
    /\ UNCHANGED recovering

\* The rest of runCase.
Goto(label) ==
    /\ pc' = label
    /\ UNCHANGED <<caseNo, b, opened, failed, judged, outcome>>

Given == IF Len(theCase.given) = 0 THEN "request" ELSE "given"

\* Mutant: tables seeded on top of what they hold.
SeededOver == [t \in Tables |-> rows[b][t] \o Seed[t]]

\* Every table truncated and the seed applied.
Seeded == [t \in Tables |-> Seed[t]]

\* Truncates every table and seeds; the seed may fail where TRUNCATE did not.
Reset ==
    /\ pc = "reset"
    /\ \/ /\ rows' = [rows EXCEPT ![b] = Seeded]
          /\ Goto(Given) /\ step' = 1 /\ deferred' = FALSE
          /\ UNCHANGED <<runs, accepting, recovering, counters>>
       \/ /\ rows' \in {rows, [rows EXCEPT ![b] = [t \in Tables |-> <<>>]]}
          /\ DatabaseFails /\ Abort
    /\ UNCHANGED suite

\* What a request or a statement may leave in the database: an insert stands
\* for any write.
Writes(agent) ==
    \E t \in Tables : \E w \in suite.writes[t] :
        rows' = [rows EXCEPT ![b][t] = Append(@, [w EXCEPT !.user_agent = agent])]

\* A backend writes through its pool, which may be broken.
Serves(agent) == UNCHANGED rows \/ (Pool \notin recovering /\ Writes(agent))

AfterStep ==
    /\ Goto(IF step < Len(theCase.given) THEN "given" ELSE "request")
    /\ step' = step + 1

\* Connections are refused, then those there are are terminated, but the
\* runner's own.  Only then is Restore deferred.
Outage ==
    \/ /\ accepting' = accepting \ {b}
       /\ recovering' = recovering \cup PoolsOf(b)
       /\ deferred' = TRUE /\ AfterStep
       /\ UNCHANGED <<runs, rows, counters>>
    \/ /\ DatabaseFails /\ UNCHANGED <<rows, recovering>>
       /\ accepting' \in {accepting, accepting \ {b}}
       /\ NextCase(FALSE)

\* The step's SQL is not trimmed here: a blank one runs, writes nothing, and
\* takes the place of the step's request.  A request fails when it gets no
\* answer or another status.
RunStep ==
    /\ pc = "given"
    /\ LET g == theCase.given[step]
       IN  \/ g.outage /\ Outage
           \/ /\ ~ g.outage /\ g.sql # ""
              /\ \/ /\ UNCHANGED rows \/ (g.sql = "statement" /\ Writes(Writer))
                    /\ AfterStep
                    /\ UNCHANGED <<deferred, runs, accepting, recovering, counters>>
                 \/ DatabaseFails /\ Abort /\ UNCHANGED rows
           \/ /\ ~ g.outage /\ g.sql = "" /\ Serves(Writer)
              /\ \/ AfterStep /\ UNCHANGED <<deferred, runs, accepting, recovering, counters>>
                 \/ RequestFails /\ Abort
    /\ UNCHANGED suite

DoRequest ==
    /\ pc = "request"
    /\ Serves(Writer)
    /\ \/ \E a \in suite.answers[b] :
              /\ runs' = [runs EXCEPT ![b].resp = a]
              /\ Goto("restore")
              /\ UNCHANGED <<step, deferred, accepting, recovering, counters>>
       \/ RequestFails /\ Abort
    /\ UNCHANGED suite

\* Restore before the rows are read.  A failure returns to the deferred one.
EndOutage ==
    /\ pc = "restore"
    /\ \/ /\ accepting' = accepting \cup {b}
          /\ Goto(IF HasOutage(theCase) THEN "health" ELSE "inspect")
          /\ UNCHANGED <<step, deferred, runs, recovering, counters>>
       \/ DatabaseFails /\ Abort
    /\ UNCHANGED <<suite, rows>>

\* waitHealthy: /health says 200, or the limit passes.
AwaitHealth ==
    /\ pc = "health"
    /\ \/ /\ Pool \notin recovering /\ Goto("inspect")
          /\ UNCHANGED <<step, deferred, runs, accepting, recovering, counters>>
       \/ Pool \in recovering /\ RequestFails /\ Abort
    /\ UNCHANGED <<suite, rows>>

\* The queries and the snapshot.
Inspect ==
    /\ pc = "inspect"
    /\ LET results == [i \in DOMAIN theCase.expect.rows |-> Query(theCase.expect.rows[i], rows[b])]
       IN  \/ /\ \A i \in DOMAIN results : results[i] # None
              /\ \E now \in Instants : \E s \in Snapshots(permitted, rows[b], now) :
                     runs' = [runs EXCEPT ![b].state = s, ![b].rows = results]
              /\ Goto("sameAs")
              /\ UNCHANGED <<step, deferred, accepting, recovering, counters>>
           \/ (\E i \in DOMAIN results : results[i] = None) /\ Abort /\ UNCHANGED counters
           \/ DatabaseFails /\ Abort
    /\ UNCHANGED <<suite, rows>>

\* Kotlin after Go, the verdict after Kotlin.  The deferred Restore runs here too.
EndRun ==
    /\ accepting' = IF deferred THEN accepting \cup {b} ELSE accepting
    /\ deferred' = FALSE /\ step' = 1
    /\ IF b = "go" THEN b' = "kotlin" /\ pc' = "reset" ELSE b' = b /\ pc' = "judge"
    /\ UNCHANGED <<caseNo, opened, failed, judged, outcome>>

\* The same_as request, whose own writes are nobody's business.
AskSameAs ==
    /\ pc = "sameAs"
    /\ IF SameAsRequest(theCase.expect, b) = None
       THEN EndRun /\ UNCHANGED <<runs, rows, recovering, counters>>
       ELSE /\ Serves(0)
            /\ \/ \E a \in suite.answers[b] :
                      /\ runs' = [runs EXCEPT ![b].ref = a]
                      /\ EndRun /\ UNCHANGED <<recovering, counters>>
               \/ RequestFails /\ Abort
    /\ UNCHANGED suite

Judge ==
    /\ pc = "judge"
    /\ NextCase(Green(theCase, permitted, runs))
    /\ UNCHANGED <<suite, databases, counters>>

-----------------------------------------------------------------------------
(***************************************************************************)
(* Around the runner.                                                      *)
(***************************************************************************)

\* A pool rebuilds its connections once the database takes them.
Recover(p) ==
    /\ p \in recovering /\ p[2] \in accepting
    /\ recovering' = recovering \ {p}
    /\ UNCHANGED <<suite, runner, accepting, rows, counters>>

Kill ==
    /\ pc \notin {"done", "dead"} /\ kills < suite.maxKills
    /\ kills' = kills + 1
    /\ pc' = "dead" /\ outcome' = "killed"
    /\ caseNo' = 1 /\ b' = "go" /\ step' = 1 /\ opened' = {} /\ deferred' = FALSE
    /\ runs' = NoRuns /\ failed' = FALSE /\ judged' = 0
    /\ UNCHANGED <<suite, databases, requestFaults, databaseFaults>>

\* The next run.
Restart ==
    /\ pc = "dead"
    /\ pc' = "load" /\ outcome' = None
    /\ UNCHANGED <<caseNo, b, step, opened, deferred, runs, failed, judged>>
    /\ UNCHANGED <<suite, databases, counters>>

\* The run is over, and go test returns.
Stay == pc = "done" /\ UNCHANGED vars

Run ==
    \/ LoadSuite
    \/ \E n \in Backends : OpenDB(n)
    \/ WaitReady \/ Reset \/ RunStep \/ DoRequest \/ EndOutage
    \/ AwaitHealth \/ Inspect \/ AskSameAs \/ Judge

Next ==
    \/ Run
    \/ \E p \in Profiles \X Backends : Recover(p)
    \/ Kill \/ Restart \/ Stay

Spec == Init /\ [][Next]_vars

\* The runner is one goroutine; a pool keeps trying.
FairSpec == Spec /\ WF_vars(Run) /\ \A p \in Profiles \X Backends : WF_vars(Recover(p))

-----------------------------------------------------------------------------
(***************************************************************************)
(* Properties.                                                             *)
(***************************************************************************)

\* A case is about to begin on a backend.
AtStart == pc = Given /\ step = 1

OneProfile == \A i, j \in DOMAIN cases : ProfileOf(cases[i]) = ProfileOf(cases[j])

\* A case begins with every database accepting connections, whatever became of
\* the cases and the runs before it, unless a call to a database failed.  With
\* one profile and nothing failed or killed, its backend has also recovered
\* from every outage: runCase's deferred Restore and its waitHealthy.
CaseStartsFresh ==
    AtStart =>
        /\ databaseFaults = 0 => accepting = Backends
        /\ requestFaults + databaseFaults + kills = 0 /\ OneProfile => Pool \notin recovering

\* The rows two backends are compared on are the seed's and those the case
\* itself wrote there in this run: no other case's, none from a run that was
\* killed, and none of the same_as request's.
OwnRowsOnly ==
    pc = "judge" =>
        \A n \in Backends, t \in Tables : \A i \in DOMAIN runs[n].state[t] :
            "user_agent" \in DOMAIN runs[n].state[t][i] => runs[n].state[t][i].user_agent \in
                {Writer} \cup {Seed[t][j].user_agent : j \in DOMAIN Seed[t]}

\* The verdict on the case the run has just been through.
IsGreen == pc = "judge" /\ Green(theCase, permitted, runs)

Go == runs["go"].resp

Kotlin == runs["kotlin"].resp

\* Go's body is held to something: an assertion, or what Go answers to a
\* request that is not the case's own.
GoBodyPinned ==
    LET e == theCase.expect
    IN  \/ e.bodyEmpty /\ Go.body = ""
        \/ e.bodyRaw # None /\ Go.body = e.bodyRaw
        \/ e.bodyJSON # None /\ Json[Go.body] = e.bodyJSON
        \/ /\ SameAsRequest(e, "go") \notin {None, theCase.request}
           /\ Go.body = runs["go"].ref.body

\* On a green case a status, a header or a body that differs between the two
\* backends has an entry behind it.  A status or a body has a case-scoped one
\* that names the issue that ruled it; the two statuses are then the two the
\* case states, and Go's body is still pinned.
DifferencesAreRuled ==
    IsGreen =>
        LET ruled == {e \in Cited(permitted, theCase) : e.issue}
        IN  /\ \A n \in Backends : runs[n].resp.status = StatusFor(theCase.expect, n)
            /\ Go.status # Kotlin.status =>
                   theCase.expect.statusByBackend # None /\ \E e \in ruled : e.status
            /\ \A h \in DOMAIN Go.headers \cup DOMAIN Kotlin.headers :
                   ~ SameHeader(Go, Kotlin, h) =>
                       \/ \E e \in permitted : e.header = h /\ e.why
                       \/ \E e \in ruled : h \in e.headers
            /\ ~ equalBodies(Go.body, Kotlin.body) =>
                   GoBodyPinned /\ \E e \in ruled : e.body

\* No two rows of a snapshot have the same key.
KeysDistinct(t, s) ==
    \A i, j \in DOMAIN s :
        SortCells(Kept(permitted, t), s[i]) = SortCells(Kept(permitted, t), s[j]) => i = j

\* The rows correspond one to one, in some order.
Correspond(t, s, o) ==
    \E f \in [DOMAIN s -> DOMAIN o] :
        /\ \A j \in DOMAIN o : \E i \in DOMAIN s : f[i] = j
        /\ \A i, j \in DOMAIN s : f[i] = f[j] => i = j
        /\ \A i \in DOMAIN s : SameRow(t, s[i], o[f[i]])

\* Comparing two snapshots row by row in key order finds them equal only if
\* their rows correspond; and, when no two keys are equal, whenever they do.
SnapshotIsExact ==
    pc = "judge" =>
        LET s == runs["go"].state
            o == runs["kotlin"].state
        IN  /\ SnapshotParity(s, o) => \A t \in Tables : Correspond(t, s[t], o[t])
            /\ (\A t \in Tables : KeysDistinct(t, s[t]) /\ Correspond(t, s[t], o[t]))
               => SnapshotParity(s, o)

\* An instant moved in time.
Moved(at, d) == IF at \in {None, Garbled} THEN at ELSE at + d

\* One backend's answer, had it been given d seconds later.
Later(a, d) ==
    [a EXCEPT !.headers = [n \in DOMAIN a.headers |->
                               IF n = "date" THEN <<Moved(a.headers[n][1], d)>> ELSE a.headers[n]],
              !.cookies = [i \in DOMAIN a.cookies |->
                               [a.cookies[i] EXCEPT !.expires = Moved(@, d)]]]

\* Instants an answer's cookies can be judged by.
Measurable(a) ==
    /\ CookiesParse(a)
    /\ \A i \in DOMAIN a.cookies :
           a.cookies[i].expires = None \/ (a.cookies[i].expires # Garbled /\ DateOf(a) # None)

\* Two backends that answer alike, at whatever two moments, are never told
\* apart, as long as Date may differ: and both meet the case or neither does.
TwinsPass ==
    pc = "judge" /\ Allows(permitted, "date") /\ Measurable(Go)
    /\ (\E d \in -3 .. 3 : Kotlin = Later(Go, d)) =>
        /\ assertParity(theCase, permitted, Go, Kotlin)
        /\ (theCase.expect.statusByBackend = None /\ "date" \notin DOMAIN theCase.expect.headers) =>
               (assertExpected(theCase, Go, "go") <=> assertExpected(theCase, Kotlin, "kotlin"))

\* A run that passes has judged every case green, a run that is required never
\* skips, and a file the loaders refuse never reaches a backend.
RunIsReal ==
    /\ outcome = "pass" => judged = Len(cases)
    /\ outcome = "skip" => ~ suite.required
    /\ pc \notin {"load", "done", "dead"} => Accepted(cases, suite.entries)

\* A database that refuses connections accepts them again, unless the run is
\* killed or a call to the database fails.
OutageEnds ==
    \A n \in Backends :
        n \notin accepting ~> n \in accepting \/ kills > 0 \/ databaseFaults > 0

\* A run that was not killed leaves the databases accepting connections, also
\* what an earlier run, killed mid-outage, left refusing them.
KilledOutageIsUndone == pc = "done" => accepting = Backends
=============================================================================
