------------------------------- MODULE Server -------------------------------
(***************************************************************************)
(* The life of the Go process, cmd/afloat: configuration, migration, pool, *)
(* listener, requests in flight, graceful shutdown.  Requests pass the     *)
(* middlewares of Pipeline, compete for the connections of the pool and    *)
(* have four clocks running: the handler timeout, the read and the write   *)
(* deadline of their connection and, once told to stop, SHUTDOWN_TIMEOUT.  *)
(*                                                                         *)
(* A request's middlewares and its routing touch nothing shared and are    *)
(* part of the step before them.  The statements of SessionMiddleware are  *)
(* one statement here, as are a handler's; Session and Login have them one *)
(* by one.  A tick is longer than it takes code that is not waiting to run.*)
(***************************************************************************)
EXTENDS Pipeline, FiniteSets

CONSTANTS
    Requests,   \* the requests clients may make
    Shapes,     \* what a request may be
    Configs,    \* what the environment may say
    PoolSize,   \* connections of the pgx pool
    Grace,      \* writeTimeoutGrace
    MaxLag,     \* bound: ticks from the headers' end to middleware.Timeout
    MaxOutages  \* bound: how many times the database goes away

Config ==
    [ url : {"", "set"}, local : BOOLEAN, google : BOOLEAN, port : Int,
      log : BOOLEAN, auto : BOOLEAN, ttl : Int, lifetime : Int, first : Int,
      max : Int, read : Int, write : Int, shutdown : Int ]

ASSUME ServerAssumption ==
    /\ Shapes \subseteq Requested
    /\ Configs \subseteq Config
    /\ PoolSize \in Nat \ {0}
    /\ Grace \in Nat
    /\ MaxLag \in Nat
    /\ MaxLag < Grace
    /\ MaxOutages \in Nat

VARIABLES
    cfg,        \* config.Config
    phase,      \* where run() stands
    why,        \* what ended it
    listener,   \* srv's listener: none yet, open, closed, or failed (errCh)
    signalled,  \* ctx of NotifyContext is done
    busy,       \* Shutdown's first look found a connection active
    drained,    \* ticks since Shutdown was called
    migrated,   \* the schema is this binary's
    db,         \* whether the database answers
    outages,    \* outages so far
    pc,         \* where each request stands
    shape,      \* what it is
    signedIn,   \* whether a User is on its context
    ans,        \* its answer
    age,        \* ticks since its headers were read
    limit,      \* the age at which its context ends
    unread,     \* whether its body is still to be read from the connection
    detached,   \* history: it is a login that took its permit
    asked,      \* history: it has asked the pool for a connection
    faulted     \* history: one of its statements has failed

process == <<cfg, phase, why, listener, signalled, busy, drained, migrated>>
world   == <<db, outages>>
request == <<pc, shape, signedIn, ans, age, limit, unread, detached, asked, faulted>>
vars    == <<process, world, request>>

\* A request that has a connection of the pool, and one that wants one.
Holding == {"looking", "handling", "finishing"}
Wanting == {"lookup", "handle", "detached"}

Active == Holding \cup Wanting \cup {"body", "permit", "answer"}

Ended == {"done", "lost", "cut"}

InFlight == {r \in Requests : pc[r] \in Active}

Holders == {r \in Requests : pc[r] \in Holding}

Phases ==
    {"load", "migrate", "connect", "serving", "draining", "closing", "exited"}

\* pool.Close has been called, or the pool is not there.
PoolClosed == phase \in {"closing", "exited"}

ContextEnded(r) == age[r] >= limit[r]

\* A write deadline equal to the handler timeout.
WriteDeadlineWithoutGrace(c) == c.write

\* http.Server.WriteTimeout.
WriteDeadline(c) == c.write + Grace

MaxPort == 65535

\* The configuration Load accepts.  LOG_FORMAT and LOG_LEVEL are one field, and
\* a millisecond is one unit of the backoffs.
validate(c) ==
    /\ c.url # ""
    /\ c.local \/ c.google
    /\ c.port \in 1 .. MaxPort
    /\ c.log
    /\ c.lifetime >= c.ttl
    /\ c.first >= 1
    /\ c.max >= c.first
    /\ c.write > 0

Init ==
    /\ cfg \in Configs
    /\ phase = "load"
    /\ why = "running"
    /\ listener = "none"
    /\ signalled = FALSE
    /\ busy = FALSE
    /\ drained = 0
    /\ migrated = FALSE
    /\ db = TRUE
    /\ outages = 0
    /\ pc = [r \in Requests |-> "new"]
    /\ shape \in [Requests -> Shapes]
    /\ signedIn = [r \in Requests |-> FALSE]
    /\ ans = [r \in Requests |-> "none"]
    /\ age = [r \in Requests |-> 0]
    /\ limit = [r \in Requests |-> 0]
    /\ unread = [r \in Requests |-> "late" \in shape[r].body]
    /\ detached = [r \in Requests |-> FALSE]
    /\ asked = [r \in Requests |-> FALSE]
    /\ faulted = [r \in Requests |-> FALSE]

-----------------------------------------------------------------------------
(***************************************************************************)
(* run()                                                                   *)
(***************************************************************************)

\* run returns before the pool is there, so nothing is left to close.
Fail(reason) ==
    /\ phase' = "exited"
    /\ why' = reason
    /\ UNCHANGED <<cfg, listener, signalled, busy, drained, migrated, world, request>>

Load ==
    /\ phase = "load"
    /\ IF validate(cfg)
       THEN /\ phase' = IF cfg.auto THEN "migrate" ELSE "connect"
            /\ UNCHANGED <<cfg, why, listener, signalled, busy, drained, migrated, world, request>>
       ELSE Fail("config")

Migrate ==
    /\ phase = "migrate"
    /\ db
    /\ migrated' = TRUE
    /\ phase' = "connect"
    /\ UNCHANGED <<cfg, why, listener, signalled, busy, drained, world, request>>

\* A failed migration that is only logged.
MigrateFailsSoftly ==
    /\ phase = "migrate"
    /\ ~ db \/ signalled
    /\ phase' = "connect"
    /\ UNCHANGED <<cfg, why, listener, signalled, busy, drained, migrated, world, request>>

\* The database does not answer, or the signal cancels ctx.
MigrateFails ==
    /\ phase = "migrate"
    /\ ~ db \/ signalled
    /\ Fail("database")

Connect ==
    /\ phase = "connect"
    /\ db
    /\ phase' = "serving"
    /\ UNCHANGED <<cfg, why, listener, signalled, busy, drained, migrated, world, request>>

\* A boot that waits for the database whatever it is told.
ConnectRetries ==
    /\ phase = "connect"
    /\ ~ db
    /\ UNCHANGED vars

ConnectFails ==
    /\ phase = "connect"
    /\ ~ db \/ signalled
    /\ Fail("database")

\* ListenAndServe, in a goroutine of its own: it may come after Shutdown.
Listen ==
    /\ phase = "serving"
    /\ listener = "none"
    /\ listener' \in {"open", "failed"}
    /\ UNCHANGED <<cfg, phase, why, signalled, busy, drained, migrated, world, request>>

\* Accept fails for good.
StopListening ==
    /\ phase = "serving"
    /\ listener = "open"
    /\ listener' = "failed"
    /\ UNCHANGED <<cfg, phase, why, signalled, busy, drained, migrated, world, request>>

\* The select takes errCh.
ServeError ==
    /\ phase = "serving"
    /\ listener = "failed"
    /\ phase' = "closing"
    /\ why' = "serve"
    /\ UNCHANGED <<cfg, listener, signalled, busy, drained, migrated, world, request>>

\* The select takes ctx.Done.  Shutdown closes the listener and looks for
\* active connections.
Shutdown ==
    /\ phase = "serving"
    /\ signalled
    /\ phase' = "draining"
    /\ listener' = "closed"
    /\ busy' = (InFlight # {})
    /\ UNCHANGED <<cfg, why, signalled, drained, migrated, world, request>>

\* A Shutdown that only closes the listener.
DrainedAtOnce ==
    /\ phase = "draining"
    /\ phase' = "closing"
    /\ why' = "clean"
    /\ UNCHANGED <<cfg, listener, signalled, busy, drained, migrated, world, request>>

Drained ==
    /\ phase = "draining"
    /\ InFlight = {}
    /\ phase' = "closing"
    /\ why' = "clean"
    /\ UNCHANGED <<cfg, listener, signalled, busy, drained, migrated, world, request>>

\* Shutdown looks before it waits, and between two looks the last request may
\* end as the timeout passes.
DrainTimeout ==
    /\ phase = "draining"
    /\ busy
    /\ drained >= cfg.shutdown
    /\ phase' = "closing"
    /\ why' = "timeout"
    /\ UNCHANGED <<cfg, listener, signalled, busy, drained, migrated, world, request>>

\* The deferred pool.Close returns once no connection is held; the process then
\* ends, with whatever it still had in flight.
Exit ==
    /\ phase = "closing"
    /\ Holders = {}
    /\ phase' = "exited"
    /\ pc' = [r \in Requests |-> IF r \in InFlight THEN "cut" ELSE pc[r]]
    /\ UNCHANGED <<cfg, why, listener, signalled, busy, drained, migrated, world,
                   shape, signedIn, ans, age, limit, unread, detached, asked, faulted>>

\* Run() is told to stop, once NotifyContext is in place.
Signal ==
    /\ phase \notin {"load", "exited"}
    /\ ~ signalled
    /\ signalled' = TRUE
    /\ UNCHANGED <<cfg, phase, why, listener, busy, drained, migrated, world, request>>

-----------------------------------------------------------------------------
(***************************************************************************)
(* A request                                                               *)
(***************************************************************************)

\* What a handler answers without the database.
WithoutStatement(q, user) ==
    IF q.path = "methods"
    THEN {"200"}
    ELSE IF q.path = "me" /\ ~ user
         THEN {"401"}
         ELSE IF q.path = "logout" /\ ~ q.cookie THEN {"204"} ELSE {}

\* r goes on to wait for a connection, or has one of the given answers.
Decide(r, answers, otherwise) ==
    IF answers = {}
    THEN /\ pc' = [pc EXCEPT ![r] = otherwise]
         /\ UNCHANGED ans
    ELSE /\ pc' = [pc EXCEPT ![r] = "answer"]
         /\ \E a \in answers : ans' = [ans EXCEPT ![r] = a]

\* The routes, the contract and the handler, with the body at hand.
Validated(r, user) ==
    Decide(r, FirstRefusal(<< AfterSession(shape[r]), WithoutStatement(shape[r], user) >>),
           "handle")

\* The session is resolved, or is not: on to the routes, to wait for the body if
\* the operation has one.
ServeHTTP(r, user) ==
    IF unread[r] /\ ReadsBody(shape[r])
    THEN Decide(r, {}, "body")
    ELSE Validated(r, user)

\* The headers are read, and middleware.Timeout starts lag ticks later.
Accept(r, lag) ==
    /\ listener = "open"
    /\ pc[r] = "new"
    /\ limit' = [limit EXCEPT ![r] = cfg.write + lag]
    /\ LET refusal == BeforeSession(shape[r], cfg.local)
       IN  IF refusal # {} \/ shape[r].cookie
           THEN Decide(r, refusal, "lookup")
           ELSE ServeHTTP(r, FALSE)
    /\ UNCHANGED <<process, world, shape, signedIn, age, unread, detached, asked, faulted>>

\* Who reads a body: the validator, or net/http, which discards one that nobody
\* has read before it writes the answer.
Reading(r) == unread[r] /\ pc[r] \in {"body", "answer"}

\* The body comes before the read deadline, in full or more of it than is read.
ReadBody(r) ==
    /\ Reading(r)
    /\ cfg.read > 0 => age[r] <= cfg.read
    /\ unread' = [unread EXCEPT ![r] = FALSE]
    /\ IF pc[r] = "body" THEN Validated(r, signedIn[r]) ELSE UNCHANGED <<pc, ans>>
    /\ UNCHANGED <<process, world, shape, signedIn, age, limit, detached, asked, faulted>>

\* A connection without a read deadline.
ReadBodyForever(r) ==
    /\ Reading(r)
    /\ UNCHANGED vars

\* The read deadline passes.  It runs from before the headers, so that at most
\* HTTP_READ_TIMEOUT is left of it, and it is there only if that is positive.
ReadBodyFails(r) ==
    /\ Reading(r)
    /\ cfg.read > 0
    /\ unread' = [unread EXCEPT ![r] = FALSE]
    /\ IF pc[r] = "body"
       THEN Decide(r, {"400 INVALID_JSON_BODY"}, "body")
       ELSE UNCHANGED <<pc, ans>>
    /\ UNCHANGED <<process, world, shape, signedIn, age, limit, detached, asked, faulted>>

Acquire(r) ==
    /\ pc[r] \in Wanting
    /\ ~ PoolClosed
    /\ ~ ContextEnded(r)
    /\ Cardinality(Holders) < PoolSize
    /\ pc' = [pc EXCEPT ![r] = CASE pc[r] = "lookup" -> "looking"
                                 [] pc[r] = "handle" -> "handling"
                                 [] OTHER            -> "finishing"]
    /\ asked' = [asked EXCEPT ![r] = TRUE]
    /\ UNCHANGED <<process, world, shape, signedIn, ans, age, limit, unread, detached, faulted>>

\* No connection: the pool is closed, or the context ends first.  Or no answer
\* on the connection: the database is away, or the context ends.
Fails(r, wanting, holding) ==
    \/ pc[r] = wanting /\ (PoolClosed \/ ContextEnded(r))
    \/ pc[r] = holding /\ (~ db \/ ContextEnded(r))

SessionMiddleware(r) ==
    /\ \/ /\ pc[r] = "looking"
          /\ db
          /\ \E user \in BOOLEAN :
                /\ signedIn' = [signedIn EXCEPT ![r] = user]
                /\ ServeHTTP(r, user)
          /\ UNCHANGED <<asked, faulted>>
       \/ /\ Fails(r, "lookup", "looking")
          /\ ServeHTTP(r, FALSE)
          /\ asked' = [asked EXCEPT ![r] = TRUE]
          /\ faulted' = [faulted EXCEPT ![r] = TRUE]
          /\ UNCHANGED signedIn
    /\ UNCHANGED <<process, world, shape, age, limit, unread, detached>>

\* What each handler answers when its statements succeed; a login that is not
\* throttled goes on.
Handled(q) ==
    CASE q.path = "login"  -> {"429"}
      [] q.path = "logout" -> {"204"}
      [] OTHER             -> {"200"}

Handle(r) ==
    /\ \/ /\ pc[r] = "handling"
          /\ db
          /\ \/ Decide(r, Handled(shape[r]), "handle")
             \/ shape[r].path = "login" /\ Decide(r, {}, "permit")
          /\ UNCHANGED <<asked, faulted>>
       \/ /\ Fails(r, "handle", "handling")
          /\ Decide(r, IF shape[r].path = "health" THEN {"503"} ELSE {"500"}, "handle")
          /\ asked' = [asked EXCEPT ![r] = TRUE]
          /\ faulted' = [faulted EXCEPT ![r] = TRUE]
    /\ UNCHANGED <<process, world, shape, signedIn, age, limit, unread, detached>>

\* A budget read after the queue has spent it.
TakePermitWithTheRest(r) ==
    /\ pc[r] = "permit"
    /\ ~ ContextEnded(r)
    /\ pc' = [pc EXCEPT ![r] = "detached"]
    /\ limit' = [limit EXCEPT ![r] = cfg.write - age[r]]
    /\ detached' = [detached EXCEPT ![r] = TRUE]
    /\ UNCHANGED <<process, world, shape, signedIn, ans, age, unread, asked, faulted>>

\* A login that is detached without a bound of its own.
TakePermitForGood(r) ==
    /\ pc[r] = "permit"
    /\ ~ ContextEnded(r)
    /\ pc' = [pc EXCEPT ![r] = "detached"]
    /\ limit' = [limit EXCEPT ![r] = 9 * cfg.write]
    /\ detached' = [detached EXCEPT ![r] = TRUE]
    /\ UNCHANGED <<process, world, shape, signedIn, ans, age, unread, asked, faulted>>

\* A login that gets its permit has the handler timeout again, from now.
TakePermit(r) ==
    /\ pc[r] = "permit"
    /\ ~ ContextEnded(r)
    /\ pc' = [pc EXCEPT ![r] = "detached"]
    /\ limit' = [limit EXCEPT ![r] = age[r] + cfg.write]
    /\ detached' = [detached EXCEPT ![r] = TRUE]
    /\ UNCHANGED <<process, world, shape, signedIn, ans, age, unread, asked, faulted>>

\* A queue that does not watch the context.
LeaveQueueNever(r) ==
    /\ pc[r] = "permit"
    /\ ContextEnded(r)
    /\ UNCHANGED vars

LeaveQueue(r) ==
    /\ pc[r] = "permit"
    /\ ContextEnded(r)
    /\ Decide(r, {"500"}, "permit")
    /\ UNCHANGED <<process, world, shape, signedIn, age, limit, unread, detached, asked, faulted>>

\* The rest of a login.  One whose statements fail in part may still succeed,
\* and one whose statements succeed may fail on what it hashes or draws.
Finish(r) ==
    /\ \/ /\ pc[r] = "finishing"
          /\ db
          /\ Decide(r, {"204", "401", "429", "500"}, "permit")
          /\ UNCHANGED <<asked, faulted>>
       \/ /\ Fails(r, "detached", "finishing")
          /\ Decide(r, {"204", "401", "500"}, "permit")
          /\ asked' = [asked EXCEPT ![r] = TRUE]
          /\ faulted' = [faulted EXCEPT ![r] = TRUE]
    /\ UNCHANGED <<process, world, shape, signedIn, age, limit, unread, detached>>

\* The answer is written, if the write deadline has not passed.
Respond(r) ==
    /\ pc[r] = "answer"
    /\ ~ unread[r]
    /\ pc' = [pc EXCEPT ![r] = IF age[r] < WriteDeadline(cfg) THEN "done" ELSE "lost"]
    /\ age' = [age EXCEPT ![r] = 0]
    /\ limit' = [limit EXCEPT ![r] = 0]
    /\ UNCHANGED <<process, world, shape, signedIn, ans, unread, detached, asked, faulted>>

-----------------------------------------------------------------------------
(***************************************************************************)
(* Time and the database                                                   *)
(***************************************************************************)

\* r cannot wait any longer.  Nobody who reads a body watches the context.
OutOfTime(r) ==
    IF Reading(r) THEN cfg.read > 0 /\ age[r] >= cfg.read ELSE ContextEnded(r)

\* Bound: without a read deadline, an age past all others is not told apart from
\* a greater one.
Ageless(r) == cfg.read <= 0 /\ ContextEnded(r) /\ age[r] >= WriteDeadline(cfg)

\* Whoever is out of time, or has nothing left to wait for, moves first.
Tick ==
    /\ InFlight # {}
    /\ \A r \in InFlight : ~ OutOfTime(r)
    /\ phase = "draining" => drained < cfg.shutdown
    /\ age' = [r \in Requests |-> IF r \in InFlight /\ ~ Ageless(r) THEN age[r] + 1 ELSE age[r]]
    /\ drained' = IF phase = "draining" THEN drained + 1 ELSE drained
    /\ UNCHANGED <<cfg, phase, why, listener, signalled, busy, migrated, world,
                   pc, shape, signedIn, ans, limit, unread, detached, asked, faulted>>

Outage ==
    /\ db
    /\ outages < MaxOutages
    /\ db' = FALSE
    /\ outages' = outages + 1
    /\ UNCHANGED <<process, request>>

Restore ==
    /\ ~ db
    /\ db' = TRUE
    /\ UNCHANGED <<process, outages, request>>

RunStep ==
    \/ Load \/ Migrate \/ MigrateFails \/ Connect \/ ConnectFails \/ Listen
    \/ ServeError \/ Shutdown \/ Drained \/ DrainTimeout \/ Exit

RequestStep(r) ==
    \/ Acquire(r) \/ SessionMiddleware(r) \/ Handle(r) \/ TakePermit(r)
    \/ LeaveQueue(r) \/ Finish(r) \/ ReadBodyFails(r) \/ Respond(r)

Next ==
    \/ RunStep
    \/ StopListening
    \/ Signal
    \/ \E r \in Requests, lag \in 0 .. MaxLag : Accept(r, lag)
    \/ \E r \in Requests : RequestStep(r) \/ ReadBody(r)
    \/ Tick
    \/ Outage
    \/ Restore

Spec == Init /\ [][Next]_vars

\* Goroutines that can run do, and time passes.  Nothing makes a client call or
\* send its body, a signal come or the database return.
FairSpec ==
    /\ Spec
    /\ WF_vars(RunStep)
    /\ \A r \in Requests : WF_vars(RequestStep(r))
    /\ WF_vars(Tick)

-----------------------------------------------------------------------------
(***************************************************************************)
(* Properties                                                              *)
(***************************************************************************)

\* A request in flight is past the end of its context only if its body was late,
\* and then by no more than the read deadline, if there is one, let it wait.
TypeOK ==
    /\ cfg \in Configs
    /\ phase \in Phases
    /\ why \in {"running", "config", "database", "serve", "clean", "timeout"}
    /\ listener \in {"none", "open", "closed", "failed"}
    /\ signalled \in BOOLEAN /\ busy \in BOOLEAN
    /\ migrated \in BOOLEAN /\ db \in BOOLEAN
    /\ drained \in Nat /\ outages \in 0 .. MaxOutages
    /\ pc \in [Requests -> Active \cup Ended \cup {"new"}]
    /\ shape \in [Requests -> Shapes]
    /\ signedIn \in [Requests -> BOOLEAN]
    /\ ans \in [Requests -> Answers \cup {"none"}]
    /\ age \in [Requests -> Nat] /\ limit \in [Requests -> Int]
    /\ unread \in [Requests -> BOOLEAN] /\ detached \in [Requests -> BOOLEAN]
    /\ asked \in [Requests -> BOOLEAN] /\ faulted \in [Requests -> BOOLEAN]
    /\ \A r \in InFlight :
          \/ age[r] <= limit[r]
          \/ "late" \in shape[r].body /\ (cfg.read <= 0 \/ age[r] <= cfg.read)

\* run returns nil, and the process exits 0, only when it was told to stop and
\* every request it had accepted has been answered: none is cut off, and none
\* meets the closed pool.
CleanExit == why = "clean" => signalled /\ InFlight = {} /\ \A r \in Requests : pc[r] # "cut"

\* No request is accepted by a process that refused its configuration, or that
\* was to migrate and did not.
ServedWhenReady ==
    (\E r \in Requests : pc[r] # "new") => validate(cfg) /\ (cfg.auto => migrated)

\* "The cut-off handler's answer still reaches the client": the only answers to
\* miss the write deadline are those of logins that took their permit, which
\* run on past the handler timeout, and those that waited for a late body where
\* HTTP_READ_TIMEOUT is off or no shorter than the write deadline.
CutOffIsHeard ==
    \A r \in Requests :
        pc[r] = "lost" =>
            \/ detached[r]
            \/ /\ "late" \in shape[r].body
               /\ cfg.read <= 0 \/ cfg.read >= WriteDeadline(cfg)

\* A shutdown times out only if SHUTDOWN_TIMEOUT is no longer than a request
\* can take: the handler timeout, twice that when a login has its permit, or
\* HTTP_READ_TIMEOUT, without end if that is off, when a body is late.
PatientShutdownIsClean ==
    why = "timeout" =>
        \/ cfg.shutdown <= cfg.write + MaxLag
        \/ /\ \E r \in Requests : detached[r]
           /\ cfg.shutdown <= 2 * cfg.write + MaxLag
        \/ /\ \E r \in Requests : "late" \in shape[r].body
           /\ cfg.read <= 0 \/ cfg.shutdown <= cfg.read

\* A cross-site request with a method that mutates never reaches the database,
\* neither its session nor a handler, whatever its path and its cookie.
CrossSiteNeverActs ==
    \A r \in Requests :
        ( /\ shape[r].method \in {"POST", "PUT", "DELETE"}
          /\ \/ shape[r].site \in {"same-site", "cross-site"}
             \/ shape[r].site = "" /\ shape[r].origin = "other" ) => ~ asked[r]

\* With the local provider off, the login answers what a path that was never
\* registered answers, on every method and in every spelling, to a request that
\* is not cross-site.
DisabledLooksUnregistered ==
    \A r, s \in Requests :
        ( /\ ~ cfg.local
          /\ pc[r] \in {"answer", "done"} /\ pc[s] \in {"answer", "done"}
          /\ shape[r].path = "login" /\ shape[s].path = "unregistered"
          /\ shape[r].method = shape[s].method
          /\ shape[r].site \in {"same-origin", "none"}
          /\ shape[s].site \in {"same-origin", "none"} ) => ans[r] = ans[s]

\* HEAD answers the status GET does, for the same User on a database that
\* answers both.
HeadMirrorsGet ==
    \A r, s \in Requests :
        ( /\ pc[r] \in {"answer", "done"} /\ pc[s] \in {"answer", "done"}
          /\ shape[r].method = "HEAD"
          /\ shape[s] = [shape[r] EXCEPT !.method = "GET"]
          /\ signedIn[r] = signedIn[s]
          /\ ~ faulted[r] /\ ~ faulted[s] ) => ans[r] = ans[s]

\* Two requests that a client must not tell apart are answered alike: a disabled
\* login and a path that was never registered, a HEAD and its GET.
AnswersMirror == DisabledLooksUnregistered /\ HeadMirrorsGet

\* Told to stop, the process stops, wherever the signal meets it: in boot, in
\* an outage, with requests queued for a connection or a permit, or waiting for
\* a body that never comes.
StopsWhenTold == signalled ~> phase = "exited"

\* A request that is accepted is answered, or its connection is closed, even if
\* its body never comes: then because of HTTP_READ_TIMEOUT, if it is positive.
EveryRequestEnds ==
    \A r \in Requests :
        pc[r] \in Active /\ (unread[r] => cfg.read > 0) ~> pc[r] \in Ended

=============================================================================
