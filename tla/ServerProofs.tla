---------------------------- MODULE ServerProofs ----------------------------
(***************************************************************************)
(* Theorems about Server, for any number of requests of any shape, any     *)
(* configuration, any pool and any number of outages.                      *)
(***************************************************************************)
EXTENDS Server, TLAPS

\* The answer of a chain is that of its first middleware that has one.
LEMMA FirstOfThree ==
    ASSUME NEW a, NEW b, NEW c
    PROVE  FirstRefusal(<<a, b, c>>) = IF a # {} THEN a ELSE IF b # {} THEN b ELSE c
<1> DEFINE chain == <<a, b, c>>
<1>1. DOMAIN chain = 1 .. 3 /\ chain[1] = a /\ chain[2] = b /\ chain[3] = c
  OBVIOUS
<1>2. \A x : x \in FirstRefusal(chain) <=>
                 \E i \in 1 .. 3 : x \in chain[i] /\ \A k \in 1 .. i - 1 : chain[k] = {}
  BY <1>1 DEF FirstRefusal
<1> HIDE DEF chain
<1>3. \A x : x \in FirstRefusal(chain) <=>
                 x \in a \/ (a = {} /\ x \in b) \/ (a = {} /\ b = {} /\ x \in c)
  BY <1>1, <1>2
<1>4. FirstRefusal(chain) = IF a # {} THEN a ELSE IF b # {} THEN b ELSE c
  BY <1>3
<1> QED BY <1>4 DEF chain

LEMMA FirstOfTwo ==
    ASSUME NEW a, NEW b
    PROVE  FirstRefusal(<<a, b>>) = IF a # {} THEN a ELSE b
<1> DEFINE chain == <<a, b>>
<1>1. DOMAIN chain = 1 .. 2 /\ chain[1] = a /\ chain[2] = b
  OBVIOUS
<1>2. \A x : x \in FirstRefusal(chain) <=>
                 \E i \in 1 .. 2 : x \in chain[i] /\ \A k \in 1 .. i - 1 : chain[k] = {}
  BY <1>1 DEF FirstRefusal
<1> HIDE DEF chain
<1>3. \A x : x \in FirstRefusal(chain) <=> x \in a \/ (a = {} /\ x \in b)
  BY <1>1, <1>2
<1>4. FirstRefusal(chain) = IF a # {} THEN a ELSE b
  BY <1>3
<1> QED BY <1>4 DEF chain

\* So a chain refuses if and only if one of its middlewares does, and only with
\* an answer one of them gives.
LEMMA ChainOfThree ==
    ASSUME NEW a, NEW b, NEW c
    PROVE  /\ FirstRefusal(<<a, b, c>>) = {} <=> a = {} /\ b = {} /\ c = {}
           /\ FirstRefusal(<<a, b, c>>) \subseteq a \cup b \cup c
<1>1. FirstRefusal(<<a, b, c>>) = IF a # {} THEN a ELSE IF b # {} THEN b ELSE c
  BY FirstOfThree
<1> QED BY <1>1

LEMMA ChainOfTwo ==
    ASSUME NEW a, NEW b
    PROVE  FirstRefusal(<<a, b>>) \subseteq a \cup b
<1>1. FirstRefusal(<<a, b>>) = IF a # {} THEN a ELSE b
  BY FirstOfTwo
<1> QED BY <1>1

\* Every refusal of the pipeline, and every answer of a handler that needs no
\* statement, is one of Answers.
LEMMA RefusalsAreAnswers ==
    ASSUME NEW q, NEW enabled, NEW user
    PROVE  /\ BeforeSession(q, enabled) \subseteq Answers
           /\ FirstRefusal(<<AfterSession(q), WithoutStatement(q, user)>>) \subseteq Answers
<1>1. /\ optionsRefused(q) \subseteq Answers
      /\ disabledLocalLogin404(q, enabled) \subseteq Answers
      /\ crossSiteGuard(q) \subseteq Answers
  BY Zenon DEF optionsRefused, disabledLocalLogin404, crossSiteGuard, Answers
<1>2. /\ Routing(q) \subseteq Answers
      /\ openapiRequestValidator(q) \subseteq Answers
      /\ requestErrorHandler(q) \subseteq Answers
  BY Zenon DEF Routing, openapiRequestValidator, requestErrorHandler, Answers
<1>3. WithoutStatement(q, user) \subseteq Answers
  BY Zenon DEF WithoutStatement, Answers
<1>4. BeforeSession(q, enabled) \subseteq Answers
  BY <1>1, ChainOfThree DEF BeforeSession
<1>5. AfterSession(q) \subseteq Answers
  BY <1>2, ChainOfThree DEF AfterSession
<1>6. FirstRefusal(<<AfterSession(q), WithoutStatement(q, user)>>)
          \subseteq AfterSession(q) \cup WithoutStatement(q, user)
  BY ChainOfTwo
<1> QED BY <1>3, <1>4, <1>5, <1>6

\* A request the guard is there for.
CrossSite(q) ==
    /\ q.method \in {"POST", "PUT", "DELETE"}
    /\ q.site \in {"same-site", "cross-site"} \/ (q.site = "" /\ q.origin = "other")

\* The guard, or a middleware before it, answers such a request.
LEMMA CrossSiteRefused ==
    ASSUME NEW q, NEW enabled, CrossSite(q)
    PROVE  BeforeSession(q, enabled) # {}
<1>1. crossSiteGuard(q) # {}
  BY Zenon DEF crossSiteGuard, CrossSite, isSafeMethod
<1> QED BY <1>1, ChainOfThree DEF BeforeSession

\* A chain never leaves its answer open.
LEMMA OneRefusal ==
    ASSUME NEW q, NEW enabled, NEW user
    PROVE  /\ \A x, y \in BeforeSession(q, enabled) : x = y
           /\ \A x, y \in FirstRefusal(<<AfterSession(q), WithoutStatement(q, user)>>) : x = y
<1>1. \A x, y \in optionsRefused(q) : x = y
  BY Zenon DEF optionsRefused
<1>2. \A x, y \in disabledLocalLogin404(q, enabled) : x = y
  BY Zenon DEF disabledLocalLogin404
<1>3. \A x, y \in crossSiteGuard(q) : x = y
  BY Zenon DEF crossSiteGuard
<1>4. \A x, y \in Routing(q) : x = y
  BY Zenon DEF Routing
<1>5. \A x, y \in openapiRequestValidator(q) : x = y
  BY Zenon DEF openapiRequestValidator
<1>6. \A x, y \in requestErrorHandler(q) : x = y
  BY Zenon DEF requestErrorHandler
<1>7. \A x, y \in WithoutStatement(q, user) : x = y
  BY Zenon DEF WithoutStatement
<1>8. \A x, y \in BeforeSession(q, enabled) : x = y
  BY <1>1, <1>2, <1>3, FirstOfThree DEF BeforeSession
<1>9. \A x, y \in AfterSession(q) : x = y
  BY <1>4, <1>5, <1>6, FirstOfThree DEF AfterSession
<1>10. \A x, y \in FirstRefusal(<<AfterSession(q), WithoutStatement(q, user)>>) : x = y
  BY <1>7, <1>9, FirstOfTwo
<1> QED BY <1>8, <1>10

\* A disabled login is refused before its session, and a path that is not
\* registered where the routes are.
LEMMA DisabledRefusals ==
    ASSUME NEW q, NEW p, NEW user, q.path = "login", p.path = "unregistered", q.method = p.method,
           p.site \in {"same-origin", "none"}
    PROVE  /\ BeforeSession(q, FALSE) = IF q.method = "OPTIONS" THEN {"405"} ELSE {"404"}
           /\ BeforeSession(p, FALSE) = IF q.method = "OPTIONS" THEN {"405"} ELSE {}
           /\ FirstRefusal(<<AfterSession(p), WithoutStatement(p, user)>>) = {"404"}
<1>1. /\ optionsRefused(q) = IF q.method = "OPTIONS" THEN {"405"} ELSE {}
      /\ optionsRefused(p) = IF q.method = "OPTIONS" THEN {"405"} ELSE {}
  BY Zenon DEF optionsRefused
<1>2. disabledLocalLogin404(q, FALSE) = {"404"} /\ disabledLocalLogin404(p, FALSE) = {}
  BY DEF disabledLocalLogin404
<1>3. crossSiteGuard(p) = {}
  BY Zenon DEF crossSiteGuard
<1>4. Routing(p) = {"404"}
  BY DEF Routing, routeOnDecodedPath
<1>5. AfterSession(p) = {"404"}
  BY <1>4, FirstOfThree DEF AfterSession
<1>6. FirstRefusal(<<AfterSession(p), WithoutStatement(p, user)>>) = {"404"}
  BY <1>5, FirstOfTwo
<1>7. BeforeSession(q, FALSE) = IF q.method = "OPTIONS" THEN {"405"} ELSE {"404"}
  <2>1. BeforeSession(q, FALSE) = IF optionsRefused(q) # {} THEN optionsRefused(q)
                                  ELSE IF disabledLocalLogin404(q, FALSE) # {}
                                       THEN disabledLocalLogin404(q, FALSE)
                                       ELSE crossSiteGuard(q)
    BY ZenonT(40), FirstOfThree DEF BeforeSession
  <2> QED BY Zenon, <1>1, <1>2, <2>1
<1>8. BeforeSession(p, FALSE) = IF q.method = "OPTIONS" THEN {"405"} ELSE {}
  <2>1. BeforeSession(p, FALSE) = IF optionsRefused(p) # {} THEN optionsRefused(p)
                                  ELSE IF disabledLocalLogin404(p, FALSE) # {}
                                       THEN disabledLocalLogin404(p, FALSE)
                                       ELSE crossSiteGuard(p)
    BY ZenonT(40), FirstOfThree DEF BeforeSession
  <2> QED BY Zenon, <1>1, <1>2, <1>3, <2>1
<1> QED BY Zenon, <1>6, <1>7, <1>8

\* No stage of the chain tells a HEAD from its GET, and neither reaches the
\* handler of an operation that is registered with POST.
LEMMA HeadIsGet ==
    ASSUME NEW q \in Requested, NEW p, NEW enabled, NEW user,
           q.method = "HEAD", p = [q EXCEPT !.method = "GET"]
    PROVE  /\ BeforeSession(q, enabled) = BeforeSession(p, enabled)
           /\ FirstRefusal(<<AfterSession(q), WithoutStatement(q, user)>>)
                = FirstRefusal(<<AfterSession(p), WithoutStatement(p, user)>>)
           /\ FirstRefusal(<<AfterSession(q), WithoutStatement(q, user)>>) = {}
                => Handled(q) = {"200"} /\ Handled(p) = {"200"} /\ q.path # "login"
           /\ p.path = q.path
<1>1. /\ p.path = q.path /\ p.spelling = q.spelling /\ p.method = "GET" /\ p.site = q.site
      /\ p.origin = q.origin /\ p.cookie = q.cookie /\ p.body = q.body
  BY Zenon DEF Requested
<1>2. optionsRefused(q) = optionsRefused(p)
  BY Zenon, <1>1 DEF optionsRefused
<1>3. disabledLocalLogin404(q, enabled) = disabledLocalLogin404(p, enabled)
  BY Zenon, <1>1 DEF disabledLocalLogin404
<1>4. crossSiteGuard(q) = {} /\ crossSiteGuard(p) = {}
  BY Zenon, <1>1 DEF crossSiteGuard, isSafeMethod
<1>5. routeOnDecodedPath(q) = routeOnDecodedPath(p) /\ headAsGet(q) = "GET" /\ headAsGet(p) = "GET"
  BY <1>1 DEF routeOnDecodedPath, headAsGet
<1>6. /\ Routing(q) = Routing(p)
      /\ openapiRequestValidator(q) = openapiRequestValidator(p)
      /\ requestErrorHandler(q) = requestErrorHandler(p)
  BY Zenon, <1>1, <1>5 DEF Routing, openapiRequestValidator, requestErrorHandler
<1>7. WithoutStatement(q, user) = WithoutStatement(p, user)
  BY Zenon, <1>1 DEF WithoutStatement
<1>8. BeforeSession(q, enabled) = BeforeSession(p, enabled)
  BY Zenon, <1>2, <1>3, <1>4 DEF BeforeSession
<1>9. AfterSession(q) = AfterSession(p)
  BY Zenon, <1>6 DEF AfterSession
<1>10. ASSUME FirstRefusal(<<AfterSession(q), WithoutStatement(q, user)>>) = {}
       PROVE  Handled(q) = {"200"} /\ Handled(p) = {"200"} /\ q.path # "login"
  <2>1. AfterSession(q) = {}
    BY <1>10, FirstOfTwo
  <2>2. Routing(q) = {}
    BY <2>1, ChainOfThree DEF AfterSession
  <2>3. routeOnDecodedPath(q) # "unregistered" /\ MethodOf[routeOnDecodedPath(q)] = "GET"
    BY Zenon, <1>5, <2>2 DEF Routing
  <2>4. routeOnDecodedPath(q) = q.path
    BY Zenon, <2>3 DEF routeOnDecodedPath
  <2>5. MethodOf["login"] = "POST" /\ MethodOf["logout"] = "POST"
    BY DEF MethodOf
  <2>6. q.path # "login" /\ q.path # "logout"
    BY <2>3, <2>4, <2>5
  <2> QED BY <1>1, <2>6 DEF Handled
<1> QED BY Zenon, <1>1, <1>7, <1>8, <1>9, <1>10

\* No body is read of a request that is a HEAD or a GET, or whose path is not
\* registered.
LEMMA BodyNotRead ==
    ASSUME NEW q, q.method \in {"HEAD", "GET"} \/ q.path = "unregistered"
    PROVE  ~ ReadsBody(q)
<1> SUFFICES ASSUME ReadsBody(q) PROVE FALSE
  OBVIOUS
<1>1. Routing(q) = {} /\ routeOnDecodedPath(q) = "login"
  BY Zenon DEF ReadsBody
<1>2. MethodOf["login"] = headAsGet(q)
  BY Zenon, <1>1 DEF Routing
<1>3. q.path = "login"
  BY Zenon, <1>1 DEF routeOnDecodedPath
<1>4. headAsGet(q) = "GET"
  BY <1>3 DEF headAsGet
<1> QED BY <1>2, <1>4 DEF MethodOf

-----------------------------------------------------------------------------
(***************************************************************************)
(* The inductive invariant.                                                *)
(***************************************************************************)

TypedRun ==
    /\ cfg \in Configs
    /\ phase \in Phases
    /\ why \in {"running", "config", "database", "serve", "clean", "timeout"}
    /\ listener \in {"none", "open", "closed", "failed"}
    /\ signalled \in BOOLEAN /\ busy \in BOOLEAN
    /\ migrated \in BOOLEAN /\ db \in BOOLEAN
    /\ drained \in Nat /\ outages \in 0 .. MaxOutages

TypedRequest ==
    /\ pc \in [Requests -> Active \cup Ended \cup {"new"}]
    /\ shape \in [Requests -> Shapes]
    /\ signedIn \in [Requests -> BOOLEAN]
    /\ ans \in [Requests -> Answers \cup {"none"}]
    /\ age \in [Requests -> Nat] /\ limit \in [Requests -> Int]
    /\ unread \in [Requests -> BOOLEAN] /\ detached \in [Requests -> BOOLEAN]
    /\ asked \in [Requests -> BOOLEAN] /\ faulted \in [Requests -> BOOLEAN]

Typed == TypedRun /\ TypedRequest

Ready == validate(cfg) /\ (cfg.auto => migrated)

\* The ages a request ends at: without a permit, and with one.
Short == cfg.write + MaxLag
Long  == 2 * cfg.write + MaxLag

\* r has a late body, and n ticks are no more than it may take to come.
Tardy(r)    == "late" \in shape[r].body
Awaited(n)  == cfg.read <= 0 \/ n <= cfg.read

\* What a drain of n ticks has been waiting for.
Patience(n) ==
    \/ n <= Short
    \/ (\E r \in Requests : detached[r]) /\ n <= Long
    \/ (\E r \in Requests : Tardy(r)) /\ Awaited(n)

\* run(): what each phase has behind it, and how long a drain can last.
RunInv ==
    /\ phase \in {"migrate", "connect", "serving", "draining", "closing"} => validate(cfg)
    /\ phase \in {"connect", "serving", "draining", "closing"} => Ready
    /\ listener # "none" => Ready
    /\ listener = "open" => phase = "serving"
    /\ why = "running" <=> phase \notin {"closing", "exited"}
    /\ phase \in {"load", "migrate", "connect", "serving"} => drained = 0
    /\ phase = "draining" => signalled
    /\ why = "clean" => signalled
    /\ why = "timeout" => Ready /\ cfg.shutdown <= drained
    /\ drained > 0 => Patience(drained)

\* Where a request is that has no permit.
Early == {"new", "lookup", "looking", "body", "handle", "handling", "permit"}

\* One request: its clocks, and what it may have done.
RequestInv(r) ==
    /\ pc[r] = "new" => age[r] = 0
    /\ pc[r] # "new" => Ready
    /\ pc[r] \in Early => ~ detached[r]
    /\ pc[r] \in Active =>
          /\ age[r] <= limit[r] \/ (Tardy(r) /\ Awaited(age[r]))
          /\ limit[r] <= Long
          /\ ~ detached[r] => limit[r] <= Short
          /\ phase = "draining" => drained <= age[r] \/ (Tardy(r) /\ cfg.read <= 0)
          /\ why # "clean"
    /\ unread[r] => Tardy(r)
    /\ pc[r] = "lost" => \/ detached[r]
                         \/ /\ "late" \in shape[r].body
                            /\ cfg.read <= 0 \/ cfg.read >= WriteDeadline(cfg)
    /\ pc[r] = "cut" => why # "clean" /\ phase = "exited"
    /\ CrossSite(shape[r]) => ~ asked[r] /\ pc[r] \in Ended \cup {"new", "answer"}

Inv == Typed /\ RunInv /\ \A r \in Requests : RequestInv(r)

\* The invariant holds at first.
LEMMA InvInit == Init => Inv
<1> SUFFICES ASSUME Init PROVE Inv
  OBVIOUS
<1>1. TypedRun
  <2>1. /\ signalled \in BOOLEAN /\ busy \in BOOLEAN
        /\ migrated \in BOOLEAN /\ db \in BOOLEAN
    BY Zenon DEF Init
  <2>2. drained \in Nat /\ outages \in 0 .. MaxOutages
    BY ServerAssumption DEF Init
  <2> QED BY <2>1, <2>2 DEF Init, TypedRun, Phases
<1>2. TypedRequest
  <2>1. /\ pc \in [Requests -> Active \cup Ended \cup {"new"}]
        /\ ans \in [Requests -> Answers \cup {"none"}]
        /\ age \in [Requests -> Nat] /\ limit \in [Requests -> Int]
    BY DEF Init
  <2>2. /\ signedIn \in [Requests -> BOOLEAN]
        /\ detached \in [Requests -> BOOLEAN]
        /\ asked \in [Requests -> BOOLEAN] /\ faulted \in [Requests -> BOOLEAN]
    BY Zenon DEF Init
  <2>3. unread \in [Requests -> BOOLEAN]
    BY DEF Init
  <2> QED BY <2>1, <2>2, <2>3 DEF Init, TypedRequest
<1>3. RunInv
  BY DEF Init, RunInv
<1>4. ASSUME NEW r \in Requests PROVE RequestInv(r)
  BY Zenon DEF Init, RequestInv, Tardy, Early, Active, Holding, Wanting, Ended
<1> QED BY <1>1, <1>2, <1>3, <1>4 DEF Inv, Typed

\* A step of run() that leaves the requests alone keeps what is known of each,
\* if it is not a clean end and a drain begins at zero.
LEMMA RequestsKept ==
    ASSUME Inv, UNCHANGED <<cfg, request>>, Ready => Ready',
           drained' = drained, phase' = "draining" => phase = "draining" \/ drained = 0,
           why' = "clean" => why = "clean" \/ InFlight = {},
           phase = "exited" => UNCHANGED <<phase, why>>
    PROVE  \A r \in Requests : RequestInv(r)'
<1> TAKE r \in Requests
<1>1. RequestInv(r) /\ age[r] \in Nat /\ pc[r] \in Active \cup Ended \cup {"new"}
  BY DEF Inv, Typed, TypedRequest
<1>2. pc[r] \in Active => why' # "clean"
  BY <1>1 DEF RequestInv, InFlight
<1>3. pc[r] = "cut" => why' # "clean" /\ phase' = "exited"
  BY <1>1 DEF RequestInv, Inv, RunInv
<1>4. /\ Short' = Short /\ Long' = Long /\ UNCHANGED <<cfg, request>>
      /\ Tardy(r)' = Tardy(r) /\ Awaited(age[r])' = Awaited(age[r])
      /\ WriteDeadline(cfg)' = WriteDeadline(cfg)
  BY DEF Short, Long, Tardy, Awaited, request
<1>5. UNCHANGED <<pc, shape, age, limit, unread, detached, asked>>
  BY Zenon DEF request
<1>6. pc[r] \in Active /\ phase' = "draining" =>
          drained' <= age[r] \/ (Tardy(r) /\ cfg.read <= 0)
  BY <1>1 DEF RequestInv
<1> QED BY Zenon, <1>1, <1>2, <1>3, <1>4, <1>5, <1>6 DEF RequestInv

\* Every step of run() but Exit, and every step of the world, keeps the
\* invariant.
LEMMA RunStepKeeps ==
    ASSUME Inv,
           \/ Load \/ Migrate \/ MigrateFails \/ Connect \/ ConnectFails \/ Listen
           \/ StopListening \/ ServeError \/ Shutdown \/ Drained \/ DrainTimeout
           \/ Signal \/ Outage \/ Restore
    PROVE  Inv'
<1>1. UNCHANGED <<cfg, drained, request>> /\ (migrated => migrated')
  BY DEF Load, Migrate, MigrateFails, Connect, ConnectFails, Listen, StopListening,
         ServeError, Shutdown, Drained, DrainTimeout, Signal, Outage, Restore, Fail,
         process, request
<1>2. /\ validate(cfg)' <=> validate(cfg)
      /\ Ready => Ready'
      /\ Patience(drained)' <=> Patience(drained)
  <2>1. cfg' = cfg /\ detached' = detached /\ shape' = shape /\ drained' = drained
    BY <1>1 DEF request
  <2> QED BY <2>1, <1>1 DEF Ready, Short, Long, Patience, Tardy, Awaited
<1>3. TypedRequest'
  BY <1>1 DEF Inv, Typed, TypedRequest, request
<1>4. TypedRun /\ RunInv
  BY DEF Inv, Typed
<1>5. /\ phase' = "draining" => phase = "draining" \/ drained = 0
      /\ why' = "clean" => why = "clean" \/ InFlight = {}
      /\ phase = "exited" => UNCHANGED <<phase, why>>
  BY <1>4 DEF Load, Migrate, MigrateFails, Connect, ConnectFails, Listen, StopListening,
         ServeError, Shutdown, Drained, DrainTimeout, Signal, Outage, Restore, Fail,
         process, RunInv
<1>6. \A r \in Requests : RequestInv(r)'
  BY <1>1, <1>2, <1>5, RequestsKept
<1>7. CASE Load
  <2>1. TypedRun'
    BY <1>7, <1>4, ServerAssumption DEF Load, Fail, world, TypedRun, Phases
  <2>2. RunInv'
    BY <1>7, <1>1, <1>2, <1>4 DEF Load, Fail, world, RunInv, Ready, TypedRun
  <2> QED BY <2>1, <2>2, <1>3, <1>6 DEF Inv, Typed
<1>8. CASE Migrate
  <2>1. TypedRun'
    BY <1>8, <1>4, ServerAssumption DEF Migrate, world, TypedRun, Phases
  <2>2. RunInv'
    BY <1>8, <1>1, <1>2, <1>4 DEF Migrate, world, RunInv, Ready, TypedRun
  <2> QED BY <2>1, <2>2, <1>3, <1>6 DEF Inv, Typed
<1>9. CASE MigrateFails
  <2>1. TypedRun'
    BY <1>9, <1>4, ServerAssumption DEF MigrateFails, Fail, world, TypedRun, Phases
  <2>2. RunInv'
    BY <1>9, <1>1, <1>2, <1>4 DEF MigrateFails, Fail, world, RunInv, Ready, TypedRun
  <2> QED BY <2>1, <2>2, <1>3, <1>6 DEF Inv, Typed
<1>10. CASE Connect
  <2>1. TypedRun'
    BY <1>10, <1>4, ServerAssumption DEF Connect, world, TypedRun, Phases
  <2>2. RunInv'
    BY <1>10, <1>1, <1>2, <1>4 DEF Connect, world, RunInv, Ready, TypedRun
  <2> QED BY <2>1, <2>2, <1>3, <1>6 DEF Inv, Typed
<1>11. CASE ConnectFails
  <2>1. TypedRun'
    BY <1>11, <1>4, ServerAssumption DEF ConnectFails, Fail, world, TypedRun, Phases
  <2>2. RunInv'
    BY <1>11, <1>1, <1>2, <1>4 DEF ConnectFails, Fail, world, RunInv, Ready, TypedRun
  <2> QED BY <2>1, <2>2, <1>3, <1>6 DEF Inv, Typed
<1>12. CASE Listen
  <2>1. TypedRun'
    BY <1>12, <1>4, ServerAssumption DEF Listen, world, TypedRun, Phases
  <2>2. RunInv'
    BY <1>12, <1>1, <1>2, <1>4 DEF Listen, world, RunInv, Ready, TypedRun
  <2> QED BY <2>1, <2>2, <1>3, <1>6 DEF Inv, Typed
<1>13. CASE StopListening
  <2>1. TypedRun'
    BY <1>13, <1>4, ServerAssumption DEF StopListening, world, TypedRun, Phases
  <2>2. RunInv'
    BY <1>13, <1>1, <1>2, <1>4 DEF StopListening, world, RunInv, Ready, TypedRun
  <2> QED BY <2>1, <2>2, <1>3, <1>6 DEF Inv, Typed
<1>14. CASE ServeError
  <2>1. TypedRun'
    BY <1>14, <1>4, ServerAssumption DEF ServeError, world, TypedRun, Phases
  <2>2. RunInv'
    BY <1>14, <1>1, <1>2, <1>4 DEF ServeError, world, RunInv, Ready, TypedRun
  <2> QED BY <2>1, <2>2, <1>3, <1>6 DEF Inv, Typed
<1>15. CASE Shutdown
  <2>1. TypedRun'
    BY <1>15, <1>4, ServerAssumption DEF Shutdown, world, TypedRun, Phases
  <2>2. RunInv'
    BY <1>15, <1>1, <1>2, <1>4 DEF Shutdown, world, RunInv, Ready, TypedRun
  <2> QED BY <2>1, <2>2, <1>3, <1>6 DEF Inv, Typed
<1>16. CASE Drained
  <2>1. TypedRun'
    BY <1>16, <1>4, ServerAssumption DEF Drained, world, TypedRun, Phases
  <2>2. RunInv'
    BY <1>16, <1>1, <1>2, <1>4 DEF Drained, world, RunInv, Ready, TypedRun
  <2> QED BY <2>1, <2>2, <1>3, <1>6 DEF Inv, Typed
<1>17. CASE DrainTimeout
  <2>1. TypedRun'
    BY <1>17, <1>4, ServerAssumption DEF DrainTimeout, world, TypedRun, Phases
  <2>2. RunInv'
    BY <1>17, <1>1, <1>2, <1>4 DEF DrainTimeout, world, RunInv, Ready, TypedRun
  <2> QED BY <2>1, <2>2, <1>3, <1>6 DEF Inv, Typed
<1>18. CASE Signal
  <2>1. TypedRun'
    BY <1>18, <1>4, ServerAssumption DEF Signal, world, TypedRun, Phases
  <2>2. RunInv'
    BY <1>18, <1>1, <1>2, <1>4 DEF Signal, world, RunInv, Ready, TypedRun
  <2> QED BY <2>1, <2>2, <1>3, <1>6 DEF Inv, Typed
<1>19. CASE Outage
  <2>1. TypedRun'
    <3>1. db' \in BOOLEAN
      BY <1>19, Zenon DEF Outage
    <3>2. outages' \in 0 .. MaxOutages
      BY <1>19, <1>4, ServerAssumption DEF Outage, TypedRun
    <3> QED BY <1>19, <1>4, <3>1, <3>2 DEF Outage, process, TypedRun
  <2>2. RunInv'
    BY <1>19, <1>1, <1>2, <1>4 DEF Outage, process, RunInv, Ready, TypedRun
  <2> QED BY <2>1, <2>2, <1>3, <1>6 DEF Inv, Typed
<1>20. CASE Restore
  <2>1. TypedRun'
    BY <1>20, <1>4, ServerAssumption DEF Restore, process, TypedRun, Phases
  <2>2. RunInv'
    BY <1>20, <1>1, <1>2, <1>4 DEF Restore, process, RunInv, Ready, TypedRun
  <2> QED BY <2>1, <2>2, <1>3, <1>6 DEF Inv, Typed
<1> QED BY <1>7, <1>8, <1>9, <1>10, <1>11, <1>12, <1>13, <1>14, <1>15, <1>16, <1>17, <1>18, <1>19, <1>20

\* A step of one request keeps the invariant if it keeps the types and what is
\* known of that request.
LEMMA OneRequest ==
    ASSUME Inv, NEW r \in Requests, UNCHANGED <<process, world, shape>>,
           TypedRequest', RequestInv(r)', detached[r] => detached'[r],
           \A s \in Requests \ {r} :
               /\ pc'[s] = pc[s] /\ age'[s] = age[s] /\ limit'[s] = limit[s]
               /\ detached'[s] = detached[s] /\ asked'[s] = asked[s]
               /\ unread'[s] = unread[s]
    PROVE  Inv'
<1>1. TypedRun'
  BY Zenon DEF Inv, Typed, TypedRun, process, world
<1>2. cfg' = cfg /\ UNCHANGED <<phase, why, listener, signalled, drained, migrated>>
  BY Zenon DEF process
<1>3. (\E s \in Requests : detached[s]) => \E s \in Requests : detached'[s]
  OBVIOUS
<1>4. /\ Ready' = Ready /\ Short' = Short /\ Long' = Long /\ validate(cfg)' = validate(cfg)
      /\ WriteDeadline(cfg)' = WriteDeadline(cfg)
      /\ \A s : Tardy(s)' = Tardy(s)
  BY <1>2 DEF Ready, Short, Long, Tardy
<1>5. Patience(drained) => Patience(drained)'
  BY Zenon, <1>2, <1>3, <1>4 DEF Patience, Awaited
<1>6. RunInv'
  BY Zenon, <1>2, <1>4, <1>5 DEF Inv, RunInv
<1>7. ASSUME NEW s \in Requests \ {r} PROVE RequestInv(s)'
  <2>1. RequestInv(s)
    BY DEF Inv
  <2> QED BY Zenon, <2>1, <1>2, <1>4 DEF RequestInv, Awaited
<1> QED BY Zenon, <1>1, <1>6, <1>7 DEF Inv, Typed

\* What Decide does to the request.
LEMMA Decided ==
    ASSUME Inv, NEW r \in Requests, NEW answers \in SUBSET Answers,
           NEW otherwise \in Active, Decide(r, answers, otherwise)
    PROVE  /\ pc' \in [Requests -> Active \cup Ended \cup {"new"}]
           /\ \A s \in Requests \ {r} : pc'[s] = pc[s]
           /\ pc'[r] \in {"answer", otherwise}
           /\ answers # {} => pc'[r] = "answer"
           /\ ans' \in [Requests -> Answers \cup {"none"}]
<1>1. pc \in [Requests -> Active \cup Ended \cup {"new"}] /\ ans \in [Requests -> Answers \cup {"none"}]
  BY DEF Inv, Typed, TypedRequest
<1>2. "answer" \in Active
  BY DEF Active
<1>3. CASE answers = {}
  BY <1>1, <1>2, <1>3 DEF Decide
<1>4. CASE answers # {}
  BY <1>1, <1>2, <1>4 DEF Decide
<1> QED BY <1>3, <1>4

\* ServeHTTP leaves the request answered, or waiting for its body or to be
\* handled, and with its body it is one of the others.
LEMMA Served ==
    ASSUME Inv, NEW r \in Requests, NEW user, ServeHTTP(r, user) \/ Validated(r, user)
    PROVE  /\ pc' \in [Requests -> Active \cup Ended \cup {"new"}]
           /\ \A s \in Requests \ {r} : pc'[s] = pc[s]
           /\ pc'[r] \in {"answer", "handle", "body"}
           /\ ans' \in [Requests -> Answers \cup {"none"}]
<1>1. "handle" \in Active /\ "body" \in Active
  BY DEF Active, Wanting
<1> DEFINE answers == FirstRefusal(<<AfterSession(shape[r]), WithoutStatement(shape[r], user)>>)
<1>2. answers \in SUBSET Answers
  BY Zenon, RefusalsAreAnswers
<1>3. Decide(r, answers, "handle") \/ Decide(r, {}, "body")
  BY Zenon DEF ServeHTTP, Validated
<1> HIDE DEF answers
<1>4. CASE Decide(r, answers, "handle")
  BY Zenon, <1>1, <1>2, <1>4, Decided
<1>5. CASE Decide(r, {}, "body")
  <2>1. {} \in SUBSET Answers
    OBVIOUS
  <2> QED BY Zenon, <1>1, <1>5, <2>1, Decided
<1> QED BY Zenon, <1>3, <1>4, <1>5

\* A request is accepted with an age of zero and a context that ends no later
\* than the handler timeout and the lag; a cross-site one is answered there.
LEMMA AcceptKeeps ==
    ASSUME Inv, NEW r \in Requests, NEW lag \in 0 .. MaxLag, Accept(r, lag)
    PROVE  Inv'
<1>1. Ready /\ phase = "serving" /\ why = "running" /\ ~ detached[r] /\ age[r] = 0
      /\ (CrossSite(shape[r]) => ~ asked[r])
  BY Zenon DEF Accept, Inv, RunInv, RequestInv, Early
<1>2. cfg.write \in Int /\ cfg.write > 0 /\ lag \in Nat /\ lag <= MaxLag /\ MaxLag \in Nat
  <2>1. cfg \in Config
    BY ServerAssumption DEF Inv, Typed, TypedRun
  <2>2. cfg.write \in Int
    BY Zenon, <2>1 DEF Config
  <2>3. cfg.write > 0
    BY <1>1, Zenon DEF Ready, validate
  <2> QED BY <2>2, <2>3, ServerAssumption
<1>3. /\ pc' \in [Requests -> Active \cup Ended \cup {"new"}]
      /\ \A s \in Requests \ {r} : pc'[s] = pc[s]
      /\ pc'[r] \in {"answer", "lookup", "handle", "body"}
      /\ CrossSite(shape[r]) => pc'[r] = "answer"
      /\ ans' \in [Requests -> Answers \cup {"none"}]
  <2> DEFINE refusal == BeforeSession(shape[r], cfg.local)
  <2>1. refusal \in SUBSET Answers
    BY Zenon, RefusalsAreAnswers
  <2>2. CrossSite(shape[r]) => refusal # {}
    BY CrossSiteRefused
  <2>3. "lookup" \in Active
    BY DEF Active, Wanting
  <2>4. IF refusal # {} \/ shape[r].cookie
        THEN Decide(r, refusal, "lookup")
        ELSE ServeHTTP(r, FALSE)
    BY Zenon DEF Accept
  <2> HIDE DEF refusal
  <2>5. CASE Decide(r, refusal, "lookup")
    BY <2>1, <2>2, <2>3, <2>5, Decided
  <2>6. CASE refusal = {} /\ ServeHTTP(r, FALSE)
    BY Zenon, <2>2, <2>6, Served
  <2> QED BY Zenon, <2>4, <2>5, <2>6
<1>4. /\ UNCHANGED <<process, world, shape, signedIn, age, unread, detached, asked, faulted>>
      /\ limit' = [limit EXCEPT ![r] = cfg.write + lag]
  BY DEF Accept
<1>5. TypedRequest /\ limit \in [Requests -> Int]
  BY DEF Inv, Typed, TypedRequest
<1>6. limit' \in [Requests -> Int] /\ limit'[r] = cfg.write + lag
      /\ \A s \in Requests \ {r} : limit'[s] = limit[s]
  BY <1>2, <1>4, <1>5
<1>7. TypedRequest'
  BY <1>3, <1>4, <1>5, <1>6 DEF TypedRequest
<1>8. RequestInv(r)'
  <2>1. Ready' /\ Short' = Short /\ Long' = Long /\ phase' = "serving" /\ why' = "running"
    BY Zenon, <1>1, <1>4 DEF Ready, Short, Long, process
  <2>2. age'[r] <= limit'[r] /\ limit'[r] <= Short' /\ limit'[r] <= Long'
    <3>1. age'[r] = 0 /\ limit'[r] = cfg.write + lag
      BY Zenon, <1>1, <1>4, <1>6
    <3>2. 0 <= cfg.write + lag /\ cfg.write + lag <= Short /\ cfg.write + lag <= Long
      BY <1>2 DEF Short, Long
    <3> QED BY Zenon, <2>1, <3>1, <3>2
  <2>3. (unread[r] => Tardy(r))' /\ pc'[r] # "lost" /\ pc'[r] # "cut" /\ pc'[r] # "new"
    BY Zenon, <1>3, <1>4 DEF Inv, RequestInv, Tardy
  <2> QED BY Zenon, <2>1, <2>2, <2>3, <1>1, <1>3, <1>4 DEF RequestInv, Early, Ended
<1> QED BY <1>3, <1>4, <1>6, <1>7, <1>8, OneRequest

\* A step that leaves the clocks alone and the request in flight.
LEMMA ClocksAlone ==
    ASSUME Inv, NEW r \in Requests, pc[r] \in Active,
           pc[r] = "answer" => pc'[r] = "answer" /\ asked'[r] = asked[r],
           UNCHANGED <<process, world, shape, age, limit, detached>>,
           TypedRequest', pc'[r] \in Active, unread'[r] => unread[r],
           pc'[r] \in Early => pc[r] \in Early,
           \A s \in Requests \ {r} : /\ pc'[s] = pc[s] /\ asked'[s] = asked[s]
                                     /\ unread'[s] = unread[s]
    PROVE  Inv'
<1>1. RequestInv(r) /\ pc[r] # "new"
  BY DEF Inv, Active, Holding, Wanting
<1>2. /\ Ready' = Ready /\ Short' = Short /\ Long' = Long /\ Tardy(r)' = Tardy(r)
      /\ UNCHANGED <<cfg, phase, why, drained>>
  BY DEF Ready, Short, Long, Tardy, process
<1>3. CrossSite(shape[r]) => pc[r] = "answer"
  BY <1>1 DEF RequestInv, Active, Holding, Wanting, Ended
<1>4. pc'[r] # "lost" /\ pc'[r] # "cut" /\ pc'[r] # "new"
  BY DEF Active, Holding, Wanting
<1>5. RequestInv(r)'
  BY Zenon, <1>1, <1>2, <1>3, <1>4 DEF RequestInv, Awaited
<1> QED BY Zenon, <1>5, OneRequest

\* The steps that wait for a connection, use one or leave the permit queue.
LEMMA WaitingKeeps ==
    ASSUME Inv, NEW r \in Requests,
           Acquire(r) \/ SessionMiddleware(r) \/ Handle(r) \/ LeaveQueue(r) \/ Finish(r)
    PROVE  Inv'
<1>1. TypedRequest
  BY DEF Inv, Typed
<1>2. UNCHANGED <<process, world, shape, age, limit, unread, detached>>
  BY Zenon DEF Acquire, SessionMiddleware, Handle, LeaveQueue, Finish
<1>3. /\ asked' \in [Requests -> BOOLEAN]
      /\ faulted' \in [Requests -> BOOLEAN]
      /\ signedIn' \in [Requests -> BOOLEAN]
      /\ \A s \in Requests \ {r} : asked'[s] = asked[s]
  BY Zenon, <1>1 DEF TypedRequest, Acquire, SessionMiddleware, Handle, LeaveQueue, Finish
<1>4. /\ pc' \in [Requests -> Active \cup Ended \cup {"new"}]
      /\ \A s \in Requests \ {r} : pc'[s] = pc[s]
      /\ ans' \in [Requests -> Answers \cup {"none"}]
      /\ pc[r] \in Active \ {"answer"} /\ pc'[r] \in Active
      /\ pc'[r] \in Early => pc[r] \in Early
  <2>1. CASE Acquire(r)
    BY <2>1, <1>1 DEF Acquire, TypedRequest, Active, Holding, Wanting, Early
  <2>2. CASE SessionMiddleware(r)
    <3>1. PICK user : ServeHTTP(r, user)
      BY Zenon, <2>2 DEF SessionMiddleware
    <3>2. pc[r] \in {"lookup", "looking"}
      BY Zenon, <2>2 DEF SessionMiddleware, Fails
    <3> QED BY <3>1, <3>2, Served DEF Active, Holding, Wanting, Early
  <2>3. CASE Handle(r)
    <3>1. pc[r] \in {"handle", "handling"}
      BY Zenon, <2>3 DEF Handle, Fails
    <3>2. PICK answers \in SUBSET Answers, otherwise \in {"handle", "permit"} :
              Decide(r, answers, otherwise)
      BY Zenon, <2>3 DEF Handle, Handled, Answers
    <3>3. otherwise \in Active
      BY DEF Active, Wanting
    <3> QED BY <3>1, <3>2, <3>3, Decided DEF Active, Holding, Wanting, Early
  <2>4. CASE LeaveQueue(r)
    <3>1. pc[r] = "permit" /\ Decide(r, {"500"}, "permit") /\ {"500"} \in SUBSET Answers
      BY <2>4 DEF LeaveQueue, Answers
    <3>2. "permit" \in Active
      BY DEF Active
    <3> QED BY Zenon, <3>1, <3>2, Decided DEF Active, Early
  <2>5. CASE Finish(r)
    <3>1. pc[r] \in {"detached", "finishing"}
      BY <2>5 DEF Finish, Fails
    <3>2. PICK answers \in SUBSET Answers : answers # {} /\ Decide(r, answers, "permit")
      BY Zenon, <2>5 DEF Finish, Answers
    <3>3. "permit" \in Active
      BY DEF Active
    <3> QED BY <3>1, <3>2, <3>3, Decided DEF Active, Holding, Wanting, Early
  <2> QED BY <2>1, <2>2, <2>3, <2>4, <2>5
<1>5. TypedRequest'
  BY <1>1, <1>2, <1>3, <1>4 DEF TypedRequest
<1> QED BY Zenon, <1>2, <1>3, <1>4, <1>5, ClocksAlone

\* A body that is read, or is given up on.
LEMMA BodyKeeps ==
    ASSUME Inv, NEW r \in Requests, ReadBody(r) \/ ReadBodyFails(r)
    PROVE  Inv'
<1>1. TypedRequest /\ pc[r] \in {"body", "answer"}
  BY Zenon DEF Inv, Typed, ReadBody, ReadBodyFails, Reading
<1>2. /\ UNCHANGED <<process, world, shape, signedIn, age, limit, detached, asked, faulted>>
      /\ unread' = [unread EXCEPT ![r] = FALSE]
  BY Zenon DEF ReadBody, ReadBodyFails
<1>3. /\ unread' \in [Requests -> BOOLEAN] /\ ~ unread'[r]
      /\ \A s \in Requests \ {r} : unread'[s] = unread[s]
  BY Zenon, <1>1, <1>2 DEF TypedRequest
<1>4. /\ pc' \in [Requests -> Active \cup Ended \cup {"new"}]
      /\ \A s \in Requests \ {r} : pc'[s] = pc[s]
      /\ ans' \in [Requests -> Answers \cup {"none"}]
      /\ pc'[r] \in {"answer", "handle", "body"}
      /\ pc[r] = "answer" => pc'[r] = "answer"
  <2>1. CASE pc[r] = "answer"
    <3>1. UNCHANGED <<pc, ans>>
      BY Zenon, <2>1 DEF ReadBody, ReadBodyFails
    <3> QED BY Zenon, <1>1, <2>1, <3>1 DEF TypedRequest
  <2>2. CASE pc[r] = "body" /\ ReadBody(r)
    <3>1. Validated(r, signedIn[r])
      BY Zenon, <2>2 DEF ReadBody
    <3> QED BY Zenon, <2>2, <3>1, Served
  <2>3. CASE pc[r] = "body" /\ ReadBodyFails(r)
    <3>1. Decide(r, {"400 INVALID_JSON_BODY"}, "body")
      BY Zenon, <2>3 DEF ReadBodyFails
    <3>2. {"400 INVALID_JSON_BODY"} \in SUBSET Answers /\ "body" \in Active
      BY DEF Answers, Active
    <3> QED BY Zenon, <2>3, <3>1, <3>2, Decided
  <2> QED BY Zenon, <1>1, <2>1, <2>2, <2>3
<1>5. TypedRequest'
  BY Zenon, <1>1, <1>2, <1>3, <1>4 DEF TypedRequest
<1>6. pc[r] \in Active /\ pc'[r] \in Active /\ (pc'[r] \in Early => pc[r] \in Early)
  BY <1>1, <1>4 DEF Active, Wanting, Early
<1> QED BY Zenon, <1>2, <1>3, <1>4, <1>5, <1>6, ClocksAlone

\* A login that takes its permit has not yet run past the short limit, so its
\* new one is within the long one.
LEMMA TakePermitKeeps ==
    ASSUME Inv, NEW r \in Requests, TakePermit(r)
    PROVE  Inv'
<1>1. TypedRequest /\ RequestInv(r) /\ pc[r] = "permit" /\ "permit" \in Active
  BY DEF Inv, Typed, TakePermit, Active
<1>2. cfg.write \in Int /\ cfg.write > 0 /\ MaxLag \in Nat
  <2>1. cfg \in Config
    BY ServerAssumption DEF Inv, Typed, TypedRun
  <2>2. cfg.write \in Int
    BY Zenon, <2>1 DEF Config
  <2>3. Ready
    BY <1>1 DEF RequestInv
  <2>4. cfg.write > 0
    BY <2>3, Zenon DEF Ready, validate
  <2> QED BY <2>2, <2>4, ServerAssumption
<1>3. UNCHANGED <<process, world, shape, signedIn, ans, age, unread, asked, faulted>>
  BY DEF TakePermit
<1>4. /\ pc' \in [Requests -> Active \cup Ended \cup {"new"}]
      /\ pc'[r] = "detached" /\ \A s \in Requests \ {r} : pc'[s] = pc[s]
  BY <1>1 DEF TakePermit, TypedRequest, Active, Wanting
<1>5. age[r] \in Nat /\ age[r] <= limit[r] /\ limit[r] \in Int /\ limit[r] <= cfg.write + MaxLag
  BY <1>1 DEF TypedRequest, RequestInv, Early, Short, TakePermit, ContextEnded
<1>6. /\ limit' \in [Requests -> Int]
      /\ limit'[r] = age[r] + cfg.write
      /\ \A s \in Requests \ {r} : limit'[s] = limit[s]
  BY <1>1, <1>2, <1>5 DEF TakePermit, TypedRequest
<1>7. /\ detached' \in [Requests -> BOOLEAN]
      /\ detached'[r]
      /\ \A s \in Requests \ {r} : detached'[s] = detached[s]
  BY <1>1 DEF TakePermit, TypedRequest
<1>8. TypedRequest'
  BY <1>1, <1>3, <1>4, <1>6, <1>7 DEF TypedRequest
<1>9. RequestInv(r)'
  <2>1. /\ Ready' = Ready /\ Long' = Long /\ Tardy(r)' = Tardy(r)
        /\ UNCHANGED <<cfg, phase, why, drained, age, unread, asked, shape>>
    BY <1>3 DEF Ready, Long, Tardy, process
  <2>2. age[r] <= limit'[r] /\ limit'[r] <= Long
    BY <1>2, <1>5, <1>6 DEF Long
  <2>3. ~ CrossSite(shape[r])
    BY <1>1 DEF RequestInv, Ended
  <2>4. "detached" \notin Early
    BY DEF Early
  <2> QED BY Zenon, <2>1, <2>2, <2>3, <2>4, <1>1, <1>4, <1>7 DEF RequestInv
<1> QED BY <1>3, <1>4, <1>6, <1>7, <1>8, <1>9, OneRequest

\* An answer misses the write deadline only past the short limit.
LEMMA RespondKeeps ==
    ASSUME Inv, NEW r \in Requests, Respond(r)
    PROVE  Inv'
<1>1. TypedRequest /\ RequestInv(r) /\ pc[r] = "answer" /\ "answer" \in Active
  BY DEF Inv, Typed, Respond, Active
<1>2. UNCHANGED <<process, world, shape, signedIn, ans, unread, detached, asked, faulted>>
  BY DEF Respond
<1>3. cfg.write \in Int /\ cfg.read \in Int
  <2>1. cfg \in Config
    BY ServerAssumption DEF Inv, Typed, TypedRun
  <2> QED BY Zenon, <2>1 DEF Config
<1>4. /\ pc' \in [Requests -> Active \cup Ended \cup {"new"}]
      /\ pc'[r] = IF age[r] < WriteDeadline(cfg) THEN "done" ELSE "lost"
      /\ \A s \in Requests \ {r} : pc'[s] = pc[s]
  BY <1>1 DEF Respond, TypedRequest, Ended
<1>5. /\ age' \in [Requests -> Nat] /\ limit' \in [Requests -> Int]
      /\ \A s \in Requests \ {r} : age'[s] = age[s] /\ limit'[s] = limit[s]
  BY <1>1 DEF Respond, TypedRequest
<1>6. pc'[r] = "lost" => \/ detached[r]
                         \/ /\ "late" \in shape[r].body
                            /\ cfg.read <= 0 \/ cfg.read >= WriteDeadline(cfg)
  <2> SUFFICES ASSUME pc'[r] = "lost", ~ detached[r]
               PROVE  "late" \in shape[r].body /\ (cfg.read <= 0 \/ cfg.read >= WriteDeadline(cfg))
    BY Zenon
  <2>1. /\ age[r] \in Nat /\ limit[r] \in Int /\ limit[r] <= cfg.write + MaxLag
        /\ \/ age[r] <= limit[r]
           \/ "late" \in shape[r].body /\ (cfg.read <= 0 \/ age[r] <= cfg.read)
    BY Zenon, <1>1 DEF TypedRequest, RequestInv, Short, Tardy, Awaited
  <2>2. age[r] >= WriteDeadline(cfg) /\ WriteDeadline(cfg) = cfg.write + Grace
    BY <1>3, <1>4, <2>1, ServerAssumption DEF WriteDeadline
  <2>3. ~ (age[r] <= limit[r])
    BY <2>1, <2>2, <1>3, ServerAssumption
  <2>4. age[r] <= cfg.read => cfg.read >= WriteDeadline(cfg)
    BY <2>1, <2>2, <1>3, ServerAssumption
  <2> QED BY Zenon, <2>1, <2>3, <2>4
<1>7. TypedRequest'
  BY <1>1, <1>2, <1>4, <1>5 DEF TypedRequest
<1>8. RequestInv(r)'
  <2>1. /\ Ready' = Ready /\ Tardy(r)' = Tardy(r) /\ WriteDeadline(cfg)' = WriteDeadline(cfg)
        /\ UNCHANGED <<cfg, unread, asked, shape, detached>>
    BY <1>2 DEF Ready, Tardy, process
  <2>2. pc'[r] \in {"done", "lost"} /\ "done" \notin Active /\ "lost" \notin Active
        /\ "done" \notin Early /\ "lost" \notin Early
    BY <1>4 DEF Active, Holding, Wanting, Early
  <2> QED BY Zenon, <2>1, <2>2, <1>1, <1>6 DEF RequestInv, Ended
<1> QED BY <1>2, <1>4, <1>5, <1>7, <1>8, OneRequest

\* The process ends with its requests, which is not a clean end unless there
\* are none.
LEMMA ExitKeeps ==
    ASSUME Inv, Exit
    PROVE  Inv'
<1>1. TypedRun /\ TypedRequest /\ RunInv
  BY DEF Inv, Typed
<1>2. /\ UNCHANGED <<cfg, why, listener, signalled, busy, drained, migrated, world,
                     shape, signedIn, ans, age, limit, unread, detached, asked, faulted>>
      /\ phase = "closing" /\ phase' = "exited"
      /\ pc' = [r \in Requests |-> IF r \in InFlight THEN "cut" ELSE pc[r]]
  BY DEF Exit
<1>3. TypedRun'
  BY <1>1, <1>2 DEF TypedRun, Phases, world
<1>4. TypedRequest'
  <2>1. pc' \in [Requests -> Active \cup Ended \cup {"new"}]
    BY <1>1, <1>2 DEF TypedRequest, Ended
  <2> QED BY <2>1, <1>1, <1>2 DEF TypedRequest
<1>5. /\ Ready' = Ready /\ Short' = Short /\ Long' = Long /\ validate(cfg)' = validate(cfg)
      /\ WriteDeadline(cfg)' = WriteDeadline(cfg) /\ Patience(drained)' = Patience(drained)
      /\ \A r : Tardy(r)' = Tardy(r)
  BY <1>2 DEF Ready, Short, Long, Tardy, Awaited, Patience
<1>6. RunInv'
  BY <1>1, <1>2, <1>5 DEF RunInv
<1>7. ASSUME NEW r \in Requests PROVE RequestInv(r)'
  <2>1. RequestInv(r) /\ pc[r] \in Active \cup Ended \cup {"new"}
    BY <1>1 DEF Inv, TypedRequest
  <2>2. CASE pc[r] \in Active
    <3>1. pc'[r] = "cut" /\ why # "clean" /\ pc[r] # "new"
      BY Zenon, <1>2, <2>1, <2>2 DEF InFlight, RequestInv, Active, Holding, Wanting
    <3>2. "cut" \notin Active /\ "cut" \notin Early /\ "cut" \in Ended
      BY DEF Active, Holding, Wanting, Early, Ended
    <3> QED BY Zenon, <1>2, <1>5, <2>1, <3>1, <3>2 DEF RequestInv
  <2>3. CASE pc[r] \notin Active
    <3>1. pc'[r] = pc[r]
      BY <1>2, <2>3 DEF InFlight
    <3> QED BY Zenon, <1>2, <1>5, <2>1, <2>3, <3>1 DEF RequestInv
  <2> QED BY <2>2, <2>3
<1> QED BY <1>3, <1>4, <1>6, <1>7 DEF Inv, Typed

\* Time passes only while every request in flight has some left.
LEMMA TickKeeps ==
    ASSUME Inv, Tick
    PROVE  Inv'
<1>1. TypedRun /\ TypedRequest /\ RunInv
  BY DEF Inv, Typed
<1>2. UNCHANGED <<cfg, phase, why, listener, signalled, busy, migrated, world,
                  pc, shape, signedIn, ans, limit, unread, detached, asked, faulted>>
  BY DEF Tick
<1>3. /\ age' = [r \in Requests |-> IF r \in InFlight /\ ~ Ageless(r) THEN age[r] + 1 ELSE age[r]]
      /\ drained' = IF phase = "draining" THEN drained + 1 ELSE drained
      /\ \A r \in InFlight : ~ OutOfTime(r)
  BY DEF Tick
<1>4. TypedRun'
  BY <1>1, <1>2, <1>3 DEF TypedRun, world
<1>5. TypedRequest'
  <2>1. age' \in [Requests -> Nat]
    BY <1>1, <1>3 DEF TypedRequest
  <2> QED BY <2>1, <1>1, <1>2 DEF TypedRequest
<1>6. /\ Ready' = Ready /\ Short' = Short /\ Long' = Long /\ validate(cfg)' = validate(cfg)
      /\ WriteDeadline(cfg)' = WriteDeadline(cfg)
      /\ \A r : Tardy(r)' = Tardy(r)
  BY <1>2 DEF Ready, Short, Long, Tardy
<1>7. Short \in Int /\ Long \in Int /\ cfg.read \in Int
  <2>1. cfg \in Config
    BY <1>1, ServerAssumption DEF TypedRun
  <2>2. cfg.write \in Int /\ cfg.read \in Int
    BY Zenon, <2>1 DEF Config
  <2> QED BY <2>2, ServerAssumption DEF Short, Long
\* A request in flight that is not reading grows older within its limit, and one
\* that reads within what it may take.
<1>8. ASSUME NEW r \in InFlight
      PROVE  /\ r \in Requests /\ age'[r] \in Nat
             /\ age'[r] <= limit[r] \/ (Tardy(r) /\ Awaited(age'[r]))
             /\ age'[r] = age[r] + 1 \/ (Tardy(r) /\ cfg.read <= 0)
  <2>1. /\ r \in Requests /\ age[r] \in Nat /\ limit[r] \in Int
        /\ unread[r] => Tardy(r)
    BY Zenon, <1>1, <1>8 DEF InFlight, Inv, RequestInv, TypedRequest
  <2>2. age'[r] = IF Ageless(r) THEN age[r] ELSE age[r] + 1
    BY Zenon, <1>3, <1>8, <2>1
  <2>3. age'[r] \in Nat
    BY <2>1, <2>2
  <2>4. CASE Reading(r)
    <3>1. Tardy(r) /\ ~ (cfg.read > 0 /\ age[r] >= cfg.read)
      BY Zenon, <1>3, <2>1, <2>4 DEF Reading, OutOfTime
    <3>2. CASE cfg.read <= 0
      BY Zenon, <2>1, <2>3, <3>1, <3>2 DEF Awaited
    <3>3. CASE ~ (cfg.read <= 0)
      <4>1. age'[r] = age[r] + 1
        BY Zenon, <2>2, <3>3 DEF Ageless
      <4>2. age[r] + 1 <= cfg.read
        BY <1>7, <2>1, <3>1, <3>3
      <4> QED BY Zenon, <2>1, <2>3, <3>1, <4>1, <4>2 DEF Awaited
    <3> QED BY Zenon, <3>2, <3>3
  <2>5. CASE ~ Reading(r)
    <3>1. ~ ContextEnded(r)
      BY Zenon, <1>3, <2>5 DEF OutOfTime
    <3>2. age'[r] = age[r] + 1
      BY Zenon, <2>2, <3>1 DEF Ageless
    <3>3. age[r] + 1 <= limit[r]
      BY <2>1, <3>1 DEF ContextEnded
    <3> QED BY Zenon, <2>1, <2>3, <3>2, <3>3
  <2> QED BY Zenon, <2>4, <2>5
<1>9. RunInv'
  <2>1. CASE phase = "draining"
    <3>1. PICK q \in InFlight : TRUE
      BY DEF Tick
    <3>2. /\ q \in Requests /\ age[q] \in Nat /\ limit[q] \in Int /\ drained \in Nat
          /\ drained <= age[q] \/ (Tardy(q) /\ cfg.read <= 0)
          /\ limit[q] <= Long
          /\ ~ detached[q] => limit[q] <= Short
      BY Zenon, <1>1, <2>1 DEF Inv, InFlight, RequestInv, TypedRequest, TypedRun
    <3>3. drained' = drained + 1
      BY <1>3, <2>1
    <3>4. Patience(drained')
      <4>1. CASE Tardy(q) /\ cfg.read <= 0
        BY Zenon, <3>2, <4>1 DEF Patience, Awaited
      <4>2. CASE ~ (Tardy(q) /\ cfg.read <= 0)
        <5>1. /\ drained <= age[q] /\ age'[q] = age[q] + 1
              /\ age'[q] <= limit[q] \/ (Tardy(q) /\ Awaited(age'[q]))
          BY Zenon, <1>8, <3>2, <4>2
        <5>2. drained' <= age'[q]
          BY <3>2, <3>3, <5>1
        <5>3. CASE age'[q] <= limit[q]
          <6>1. drained' <= Long /\ (~ detached[q] => drained' <= Short)
            BY <1>7, <1>8, <3>2, <3>3, <5>2, <5>3
          <6> QED BY Zenon, <3>2, <6>1 DEF Patience
        <5>4. CASE Tardy(q) /\ Awaited(age'[q])
          <6>1. age'[q] <= cfg.read => drained' <= cfg.read
            BY <1>7, <1>8, <3>2, <3>3, <5>2
          <6> QED BY Zenon, <3>2, <5>4, <6>1 DEF Patience, Awaited
        <5> QED BY Zenon, <5>1, <5>3, <5>4
      <4> QED BY Zenon, <4>1, <4>2
    <3>5. Patience(drained)'
      BY Zenon, <1>2, <1>6, <3>4 DEF Patience, Awaited
    <3> QED BY Zenon, <1>1, <1>2, <1>6, <2>1, <3>5 DEF RunInv
  <2>2. CASE phase # "draining"
    <3>1. drained' = drained
      BY <1>3, <2>2
    <3>2. Patience(drained)' = Patience(drained)
      BY Zenon, <1>2, <1>6, <3>1 DEF Patience, Awaited
    <3> QED BY Zenon, <1>1, <1>2, <1>6, <2>2, <3>1, <3>2 DEF RunInv
  <2> QED BY <2>1, <2>2
<1>10. ASSUME NEW r \in Requests PROVE RequestInv(r)'
  <2>1. RequestInv(r) /\ age[r] \in Nat /\ limit[r] \in Int /\ drained \in Nat
    BY <1>1 DEF Inv, TypedRequest, TypedRun
  <2>2. CASE pc[r] \in Active
    <3>1. /\ age'[r] <= limit[r] \/ (Tardy(r) /\ Awaited(age'[r]))
          /\ age'[r] = age[r] + 1 \/ (Tardy(r) /\ cfg.read <= 0)
      BY Zenon, <1>8, <2>2 DEF InFlight
    <3>2. phase = "draining" => drained' <= age'[r] \/ (Tardy(r) /\ cfg.read <= 0)
      <4>1. phase = "draining" => drained <= age[r] \/ (Tardy(r) /\ cfg.read <= 0)
        BY Zenon, <2>1, <2>2 DEF RequestInv
      <4>2. phase = "draining" => drained' = drained + 1
        BY Zenon, <1>3
      <4>3. drained <= age[r] => drained + 1 <= age[r] + 1
        BY <2>1
      <4> QED BY Zenon, <3>1, <4>1, <4>2, <4>3
    <3>3. pc[r] # "new" /\ pc[r] # "lost"
      BY <2>2 DEF Active, Holding, Wanting
    <3>4. (age[r] <= limit[r] \/ (Tardy(r) /\ Awaited(age[r])))'
      BY Zenon, <1>2, <1>6, <3>1 DEF Awaited
    <3>5. (phase = "draining" => drained <= age[r] \/ (Tardy(r) /\ cfg.read <= 0))'
      BY Zenon, <1>2, <1>6, <3>2
    <3> QED BY Zenon, <1>2, <1>6, <2>1, <2>2, <3>3, <3>4, <3>5 DEF RequestInv
  <2>3. CASE pc[r] \notin Active
    <3>1. age'[r] = age[r]
      BY SMTT(30), <1>3, <2>3 DEF InFlight
    <3>2. UNCHANGED <<cfg, phase, why, pc, shape, limit, unread, detached, asked>>
      BY <1>2
    <3>3. RequestInv(r)
      BY <2>1
    <3> QED BY <1>6, <2>3, <3>1, <3>2, <3>3, Zenon DEF RequestInv
  <2> QED BY <2>2, <2>3
<1> QED BY <1>4, <1>5, <1>9, <1>10 DEF Inv, Typed

\* The invariant is inductive.
LEMMA Invariance == Spec => []Inv
<1>1. Inv /\ [Next]_vars => Inv'
  <2> SUFFICES ASSUME Inv, [Next]_vars PROVE Inv'
    OBVIOUS
  <2>1. CASE RunStep \/ StopListening \/ Signal \/ Outage \/ Restore
    BY <2>1, RunStepKeeps, ExitKeeps DEF RunStep
  <2>2. CASE \E r \in Requests, lag \in 0 .. MaxLag : Accept(r, lag)
    BY <2>2, AcceptKeeps
  <2>3. CASE \E r \in Requests : RequestStep(r) \/ ReadBody(r)
    BY Zenon, <2>3, WaitingKeeps, BodyKeeps, TakePermitKeeps, RespondKeeps DEF RequestStep
  <2>4. CASE Tick
    BY <2>4, TickKeeps
  <2>5. CASE UNCHANGED vars
    <3>1. UNCHANGED <<cfg, phase, why, listener, signalled, busy, drained, migrated, db,
                      outages, pc, shape, signedIn, ans, age, limit, unread, detached, asked,
                      faulted>>
      BY <2>5 DEF vars, process, world, request
    <3>2. Typed'
      BY <3>1 DEF Inv, Typed, TypedRun, TypedRequest
    <3>3. /\ Ready' = Ready /\ Short' = Short /\ Long' = Long /\ validate(cfg)' = validate(cfg)
          /\ WriteDeadline(cfg)' = WriteDeadline(cfg) /\ Patience(drained)' = Patience(drained)
          /\ \A r : Tardy(r)' = Tardy(r) /\ Awaited(age[r])' = Awaited(age[r])
      BY <3>1 DEF Ready, Short, Long, Tardy, Awaited, Patience
    <3>4. RunInv'
      BY Zenon, <3>1, <3>3 DEF Inv, RunInv
    <3>5. \A r \in Requests : RequestInv(r)'
      BY Zenon, <3>1, <3>3 DEF Inv, RequestInv
    <3> QED BY <3>2, <3>4, <3>5 DEF Inv
  <2> QED BY <2>1, <2>2, <2>3, <2>4, <2>5 DEF Next
<1> QED BY <1>1, InvInit, PTL DEF Spec

-----------------------------------------------------------------------------
(***************************************************************************)
(* What holds of run() and of every request.                               *)
(***************************************************************************)

\* Every variable keeps its type, and no request in flight outlives its context
\* but by the wait for its body, which the read deadline bounds.
THEOREM TypeCorrect == Spec => []TypeOK
<1>1. Inv => TypeOK
  BY Zenon DEF Inv, Typed, TypedRun, TypedRequest, RequestInv, InFlight, Tardy, Awaited, TypeOK
<1> QED BY <1>1, Invariance, PTL

\* The process exits 0 only when it was told to stop and no request it accepted
\* was cut off.
THEOREM ExitsClean == Spec => []CleanExit
<1>1. Inv => CleanExit
  <2> SUFFICES ASSUME Inv, why = "clean" PROVE CleanExit
    BY DEF CleanExit
  <2>1. signalled
    BY Zenon DEF Inv, RunInv
  <2>2. \A r \in Requests : pc[r] \notin Active /\ pc[r] # "cut"
    BY Zenon DEF Inv, RequestInv
  <2> QED BY Zenon, <2>1, <2>2 DEF InFlight, CleanExit
<1> QED BY <1>1, Invariance, PTL

\* No request is accepted before the configuration is valid and the schema is
\* migrated, if this process is to migrate it.
THEOREM ServesWhenReady == Spec => []ServedWhenReady
<1>1. Inv => ServedWhenReady
  BY Zenon DEF Inv, RequestInv, Ready, ServedWhenReady
<1> QED BY <1>1, Invariance, PTL

\* With any grace longer than the lag, and any read timeout, the answer of a
\* handler that was cut off still reaches the client, unless it is a login with
\* a permit or has waited for its body as long as the write deadline.
THEOREM CutOffHeard == Spec => []CutOffIsHeard
<1>1. Inv => CutOffIsHeard
  BY Zenon DEF Inv, RequestInv, CutOffIsHeard
<1> QED BY <1>1, Invariance, PTL

\* A shutdown longer than a request can take never times out, whatever a request
\* waits for: a connection, a permit or its body.
THEOREM PatienceIsClean == Spec => []PatientShutdownIsClean
<1>1. Inv => PatientShutdownIsClean
  <2> SUFFICES ASSUME Inv, why = "timeout" PROVE PatientShutdownIsClean
    BY DEF PatientShutdownIsClean
  <2>1. cfg \in Config /\ drained \in Nat
    BY ServerAssumption DEF Inv, Typed, TypedRun
  <2>2. cfg.write \in Int /\ cfg.read \in Int /\ cfg.shutdown \in Int
    BY Zenon, <2>1 DEF Config
  <2>3. Ready /\ cfg.shutdown <= drained
    BY DEF Inv, RunInv
  <2>4. cfg.write > 0
    BY <2>3, Zenon DEF Ready, validate
  <2>5. CASE drained = 0
    BY <2>2, <2>3, <2>4, <2>5, ServerAssumption DEF PatientShutdownIsClean
  <2>6. CASE drained > 0
    <3>1. Patience(drained)
      BY Zenon, <2>6 DEF Inv, RunInv
    <3>2. /\ drained <= Short => cfg.shutdown <= cfg.write + MaxLag
          /\ drained <= Long => cfg.shutdown <= 2 * cfg.write + MaxLag
          /\ drained <= cfg.read => cfg.shutdown <= cfg.read
      BY <2>1, <2>2, <2>3, ServerAssumption DEF Short, Long
    <3> QED BY Zenon, <3>1, <3>2 DEF Patience, Awaited, Tardy, PatientShutdownIsClean
  <2> QED BY <2>1, <2>5, <2>6
<1> QED BY <1>1, Invariance, PTL

\* A cross-site request that would mutate never asks for a connection.
THEOREM CrossSiteInert == Spec => []CrossSiteNeverActs
<1>1. Inv => CrossSiteNeverActs
  BY Zenon DEF Inv, RequestInv, CrossSite, CrossSiteNeverActs
<1> QED BY <1>1, Invariance, PTL

-----------------------------------------------------------------------------
(***************************************************************************)
(* What each request is answered with.                                     *)
(***************************************************************************)

\* The middleware before the session refuse r, and the rest of the chain and
\* its handler do without a statement.
Refused(r) == BeforeSession(shape[r], cfg.local)
Settled(r) == FirstRefusal(<< AfterSession(shape[r]), WithoutStatement(shape[r], signedIn[r]) >>)

\* Where a request is that no middleware has refused, and that only a login is.
Past == {"handle", "handling", "permit", "detached", "finishing"}
Late == {"permit", "detached", "finishing"}

\* How far r has come tells what has not refused it, and its answer is that of
\* the first that did, or of a handler that met no fault.
Traced(r) ==
    /\ pc[r] \in {"new", "lookup", "looking"} => ~ signedIn[r]
    /\ pc[r] \in Past \cup {"lookup", "looking", "body"} => Refused(r) = {}
    /\ pc[r] = "body" => ReadsBody(shape[r])
    /\ pc[r] \in Past => Settled(r) = {}
    /\ pc[r] \in Late => shape[r].path = "login"
    /\ pc[r] \in {"answer", "done"} =>
          \/ ans[r] \in Refused(r)
          \/ Refused(r) = {} /\ ans[r] \in Settled(r)
          \/ Refused(r) = {} /\ ReadsBody(shape[r])
          \/ /\ Refused(r) = {} /\ Settled(r) = {}
             /\ shape[r].path = "login" \/ faulted[r] \/ ans[r] \in Handled(shape[r])

\* A request that a step leaves alone stays as it was.
LEMMA LeftAlone ==
    ASSUME NEW r, Traced(r), cfg' = cfg, shape'[r] = shape[r], pc'[r] = pc[r],
           ans'[r] = ans[r], signedIn'[r] = signedIn[r], faulted'[r] = faulted[r]
    PROVE  Traced(r)'
<1>1. Refused(r)' = Refused(r) /\ Settled(r)' = Settled(r)
  BY Zenon DEF Refused, Settled
<1> QED BY Zenon, <1>1 DEF Traced

\* The two outcomes of Decide.
LEMMA DecidedHow ==
    ASSUME Inv, NEW r \in Requests, NEW answers, NEW otherwise, Decide(r, answers, otherwise)
    PROVE  /\ \A s \in Requests \ {r} : pc'[s] = pc[s] /\ ans'[s] = ans[s]
           /\ \/ answers = {} /\ pc'[r] = otherwise
              \/ pc'[r] = "answer" /\ ans'[r] \in answers
<1>1. pc \in [Requests -> Active \cup Ended \cup {"new"}] /\ ans \in [Requests -> Answers \cup {"none"}]
  BY DEF Inv, Typed, TypedRequest
<1>2. CASE answers = {}
  BY <1>1, <1>2 DEF Decide
<1>3. CASE answers # {}
  <2>1. PICK a \in answers : ans' = [ans EXCEPT ![r] = a]
    BY <1>3 DEF Decide
  <2>2. pc' = [pc EXCEPT ![r] = "answer"]
    BY <1>3 DEF Decide
  <2> QED BY <1>1, <2>1, <2>2
<1> QED BY Zenon, <1>2, <1>3

\* A request that is passed on with the User it is resolved to.
LEMMA ServedHow ==
    ASSUME Inv, NEW r \in Requests, NEW user \in BOOLEAN,
           ServeHTTP(r, user) \/ Validated(r, user), cfg' = cfg, shape' = shape, signedIn'[r] = user, Refused(r) = {}
    PROVE  /\ \A s \in Requests \ {r} : pc'[s] = pc[s] /\ ans'[s] = ans[s]
           /\ Traced(r)'
<1>1. Refused(r)' = {} /\ Settled(r)' = FirstRefusal(<< AfterSession(shape[r]), WithoutStatement(shape[r], user) >>)
  BY Zenon DEF Refused, Settled
<1>2. CASE Validated(r, user)
  <2>1. Decide(r, Settled(r)', "handle")
    BY Zenon, <1>1, <1>2 DEF Validated
  <2>2. /\ \A s \in Requests \ {r} : pc'[s] = pc[s] /\ ans'[s] = ans[s]
        /\ \/ Settled(r)' = {} /\ pc'[r] = "handle"
           \/ pc'[r] = "answer" /\ ans'[r] \in Settled(r)'
    BY Zenon, <2>1, DecidedHow
  <2> QED BY Zenon, <1>1, <2>2 DEF Traced, Past, Late
<1>3. CASE ReadsBody(shape[r]) /\ Decide(r, {}, "body")
  <2>1. /\ \A s \in Requests \ {r} : pc'[s] = pc[s] /\ ans'[s] = ans[s]
        /\ pc'[r] = "body"
    BY Zenon, <1>3, DecidedHow
  <2>2. ReadsBody(shape[r])'
    BY Zenon, <1>3
  <2> QED BY Zenon, <1>1, <2>1, <2>2 DEF Traced, Past, Late
<1> QED BY Zenon, <1>2, <1>3 DEF ServeHTTP

\* A step of a request, given what it does to the others.
LEMMA TracedStep ==
    ASSUME \A s \in Requests : Traced(s), NEW r \in Requests, cfg' = cfg, shape' = shape,
           Traced(r)',
           \A s \in Requests \ {r} : /\ pc'[s] = pc[s] /\ ans'[s] = ans[s]
                                     /\ signedIn'[s] = signedIn[s] /\ faulted'[s] = faulted[s]
    PROVE  \A s \in Requests : Traced(s)'
<1> SUFFICES ASSUME NEW s \in Requests, s # r PROVE Traced(s)'
  BY Zenon
<1> QED BY Zenon, LeftAlone

LEMMA AcceptTraced ==
    ASSUME Inv, \A s \in Requests : Traced(s), NEW r \in Requests, NEW lag, Accept(r, lag)
    PROVE  \A s \in Requests : Traced(s)'
<1>1. UNCHANGED <<process, shape, signedIn, faulted>> /\ pc[r] = "new"
  BY Zenon DEF Accept
<1>2. cfg' = cfg
  BY Zenon, <1>1 DEF process
<1>3. signedIn \in [Requests -> BOOLEAN] /\ ~ signedIn[r]
  BY Zenon DEF Inv, Typed, TypedRequest, Traced, Accept
<1>4. IF Refused(r) # {} \/ shape[r].cookie
      THEN Decide(r, Refused(r), "lookup")
      ELSE ServeHTTP(r, FALSE)
  BY Zenon DEF Accept, Refused
<1>5. Refused(r)' = Refused(r)
  BY Zenon, <1>1, <1>2 DEF Refused
<1>6. CASE Decide(r, Refused(r), "lookup")
  <2>1. /\ \A s \in Requests \ {r} : pc'[s] = pc[s] /\ ans'[s] = ans[s]
        /\ \/ Refused(r) = {} /\ pc'[r] = "lookup"
           \/ pc'[r] = "answer" /\ ans'[r] \in Refused(r)
    BY Zenon, <1>6, DecidedHow
  <2>2. Traced(r)'
    BY Zenon, <2>1, <1>1, <1>3, <1>5 DEF Traced, Past, Late
  <2> QED BY Zenon, <1>1, <1>2, <2>1, <2>2, TracedStep
<1>7. CASE Refused(r) = {} /\ ServeHTTP(r, FALSE)
  <2>1. signedIn'[r] = FALSE
    BY Zenon, <1>1, <1>3
  <2>2. /\ \A s \in Requests \ {r} : pc'[s] = pc[s] /\ ans'[s] = ans[s]
        /\ Traced(r)'
    BY Zenon, <1>1, <1>2, <1>7, <2>1, ServedHow
  <2> QED BY Zenon, <1>1, <1>2, <2>2, TracedStep
<1> QED BY Zenon, <1>4, <1>6, <1>7

LEMMA SessionTraced ==
    ASSUME Inv, \A s \in Requests : Traced(s), NEW r \in Requests, SessionMiddleware(r)
    PROVE  \A s \in Requests : Traced(s)'
<1>1. UNCHANGED <<process, shape>> /\ pc[r] \in {"lookup", "looking"}
  BY Zenon DEF SessionMiddleware, Fails
<1>2. cfg' = cfg
  BY Zenon, <1>1 DEF process
<1>3. signedIn \in [Requests -> BOOLEAN] /\ faulted \in [Requests -> BOOLEAN]
  BY DEF Inv, Typed, TypedRequest
<1>4. Traced(r) /\ ~ signedIn[r] /\ Refused(r) = {}
  BY Zenon, <1>1 DEF Traced
<1>5. \E user \in BOOLEAN : ServeHTTP(r, user) /\ signedIn'[r] = user
  BY Zenon, <1>3, <1>4 DEF SessionMiddleware
<1>6. \A s \in Requests \ {r} : signedIn'[s] = signedIn[s] /\ faulted'[s] = faulted[s]
  BY Zenon, <1>3 DEF SessionMiddleware
<1>7. /\ \A s \in Requests \ {r} : pc'[s] = pc[s] /\ ans'[s] = ans[s]
      /\ Traced(r)'
  BY Zenon, <1>1, <1>2, <1>4, <1>5, ServedHow
<1> QED BY Zenon, <1>1, <1>2, <1>6, <1>7, TracedStep

\* A body that is read is judged by the contract; one that is not is refused.
LEMMA BodyTraced ==
    ASSUME Inv, \A s \in Requests : Traced(s), NEW r \in Requests,
           ReadBody(r) \/ ReadBodyFails(r)
    PROVE  \A s \in Requests : Traced(s)'
<1>1. UNCHANGED <<process, shape, signedIn, faulted>> /\ pc[r] \in {"body", "answer"}
  BY Zenon DEF ReadBody, ReadBodyFails, Reading
<1>2. cfg' = cfg
  BY Zenon, <1>1 DEF process
<1>3. signedIn[r] \in BOOLEAN /\ signedIn'[r] = signedIn[r]
  BY Zenon, <1>1 DEF Inv, Typed, TypedRequest
<1>4. CASE pc[r] = "answer"
  <2>1. UNCHANGED <<pc, ans>>
    BY Zenon, <1>4 DEF ReadBody, ReadBodyFails
  <2> QED BY Zenon, <1>1, <1>2, <2>1, LeftAlone
<1>5. CASE pc[r] = "body"
  <2>1. Traced(r) /\ Refused(r) = {} /\ ReadsBody(shape[r])
    BY Zenon, <1>5 DEF Traced
  <2>2. CASE Validated(r, signedIn[r])
    <3>1. /\ \A s \in Requests \ {r} : pc'[s] = pc[s] /\ ans'[s] = ans[s]
          /\ Traced(r)'
      BY Zenon, <1>1, <1>2, <1>3, <2>1, <2>2, ServedHow
    <3> QED BY Zenon, <1>1, <1>2, <3>1, TracedStep
  <2>3. CASE Decide(r, {"400 INVALID_JSON_BODY"}, "body")
    <3>1. /\ \A s \in Requests \ {r} : pc'[s] = pc[s] /\ ans'[s] = ans[s]
          /\ pc'[r] = "answer"
      BY Zenon, <2>3, DecidedHow
    <3>2. Refused(r)' = {} /\ ReadsBody(shape[r])'
      BY Zenon, <1>1, <1>2, <2>1 DEF Refused
    <3>3. Traced(r)'
      BY Zenon, <3>1, <3>2 DEF Traced, Past, Late
    <3> QED BY Zenon, <1>1, <1>2, <3>1, <3>3, TracedStep
  <2> QED BY Zenon, <1>5, <2>2, <2>3 DEF ReadBody, ReadBodyFails
<1> QED BY Zenon, <1>1, <1>4, <1>5

\* The rest of a request's steps: no middleware refused it.
LEMMA HandlerTraced ==
    ASSUME Inv, \A s \in Requests : Traced(s), NEW r \in Requests,
           Handle(r) \/ LeaveQueue(r) \/ Finish(r)
    PROVE  \A s \in Requests : Traced(s)'
<1>1. UNCHANGED <<process, shape, signedIn>> /\ pc[r] \in Past
  BY Zenon DEF Handle, LeaveQueue, Finish, Fails, Past
<1>2. cfg' = cfg
  BY Zenon, <1>1 DEF process
<1>3. faulted \in [Requests -> BOOLEAN]
  BY DEF Inv, Typed, TypedRequest
<1>4. \A s \in Requests \ {r} : faulted'[s] = faulted[s]
  BY Zenon, <1>3 DEF Handle, LeaveQueue, Finish
<1>5. Traced(r) /\ Refused(r) = {} /\ Settled(r) = {}
      /\ (pc[r] \in Late => shape[r].path = "login")
  BY Zenon, <1>1 DEF Traced
<1>6. Refused(r)' = {} /\ Settled(r)' = {}
  BY Zenon, <1>1, <1>2, <1>5 DEF Refused, Settled
<1>7. \E answers, otherwise :
          /\ Decide(r, answers, otherwise)
          /\ \/ shape[r].path = "login" \/ faulted'[r] \/ answers = Handled(shape[r])
          /\ answers = {} => otherwise = "permit" /\ shape[r].path = "login"
  <2>1. CASE Handle(r)
    <3>1. CASE Decide(r, Handled(shape[r]), "handle")
      <4>1. Handled(shape[r]) # {}
        BY Zenon DEF Handled
      <4> QED BY Zenon, <3>1, <4>1
    <3>2. CASE shape[r].path = "login" /\ Decide(r, {}, "permit")
      BY Zenon, <3>2
    <3>3. CASE /\ Decide(r, IF shape[r].path = "health" THEN {"503"} ELSE {"500"}, "handle")
               /\ faulted' = [faulted EXCEPT ![r] = TRUE]
      <4>1. (IF shape[r].path = "health" THEN {"503"} ELSE {"500"}) # {}
        BY Zenon
      <4> QED BY Zenon, <1>3, <3>3, <4>1
    <3> QED BY Zenon, <2>1, <3>1, <3>2, <3>3 DEF Handle
  <2>2. CASE LeaveQueue(r) \/ Finish(r)
    <3>1. pc[r] \in Late
      BY Zenon, <2>2 DEF LeaveQueue, Finish, Fails, Late
    <3>2. \E answers : answers # {} /\ Decide(r, answers, "permit")
      BY Zenon, <2>2 DEF LeaveQueue, Finish
    <3> QED BY Zenon, <1>5, <3>1, <3>2
  <2> QED BY Zenon, <2>1, <2>2
<1>8. PICK answers, otherwise :
          /\ Decide(r, answers, otherwise)
          /\ \/ shape[r].path = "login" \/ faulted'[r] \/ answers = Handled(shape[r])
          /\ answers = {} => otherwise = "permit" /\ shape[r].path = "login"
  BY Zenon, <1>7
<1>9. /\ \A s \in Requests \ {r} : pc'[s] = pc[s] /\ ans'[s] = ans[s]
      /\ \/ answers = {} /\ pc'[r] = otherwise
         \/ pc'[r] = "answer" /\ ans'[r] \in answers
  BY Zenon, <1>8, DecidedHow
<1>10. Handled(shape[r])' = Handled(shape[r])
  BY Zenon, <1>1
<1>11. Traced(r)'
  BY Zenon, <1>1, <1>6, <1>8, <1>9, <1>10 DEF Traced, Past, Late
<1> QED BY Zenon, <1>1, <1>2, <1>4, <1>9, <1>11, TracedStep

\* Waiting for a connection or a permit, and writing the answer.
LEMMA MovesTraced ==
    ASSUME Inv, \A s \in Requests : Traced(s), NEW r \in Requests,
           Acquire(r) \/ TakePermit(r) \/ Respond(r)
    PROVE  \A s \in Requests : Traced(s)'
<1>1. UNCHANGED <<process, shape, signedIn, ans, faulted>>
  BY Zenon DEF Acquire, TakePermit, Respond
<1>2. cfg' = cfg
  BY Zenon, <1>1 DEF process
<1>3. pc \in [Requests -> Active \cup Ended \cup {"new"}]
  BY DEF Inv, Typed, TypedRequest
<1>4. /\ \A s \in Requests \ {r} : pc'[s] = pc[s]
      /\ \/ pc[r] = "lookup" /\ pc'[r] = "looking"
         \/ pc[r] = "handle" /\ pc'[r] = "handling"
         \/ pc[r] \in Late /\ pc'[r] \in Late
         \/ pc[r] = "answer" /\ pc'[r] \in {"done", "lost"}
  <2>1. CASE Acquire(r)
    BY <2>1, <1>3 DEF Acquire, Wanting, Late
  <2>2. CASE TakePermit(r)
    BY <2>2, <1>3 DEF TakePermit, Late
  <2>3. CASE Respond(r)
    BY <2>3, <1>3 DEF Respond
  <2> QED BY Zenon, <2>1, <2>2, <2>3
<1>5. Refused(r)' = Refused(r) /\ Settled(r)' = Settled(r) /\ Handled(shape[r])' = Handled(shape[r])
  BY Zenon, <1>1, <1>2 DEF Refused, Settled
<1>6. Traced(r)'
  BY Zenon, <1>1, <1>4, <1>5 DEF Traced, Past, Late
<1> QED BY Zenon, <1>1, <1>2, <1>4, <1>6, TracedStep

\* The process and the clock answer nobody.
LEMMA RunTraced ==
    ASSUME \A s \in Requests : Traced(s),
           \/ RunStep \/ StopListening \/ Signal \/ Tick \/ Outage \/ Restore \/ UNCHANGED vars
    PROVE  \A s \in Requests : Traced(s)'
<1>1. CASE Exit
  <2>1. UNCHANGED <<cfg, shape, signedIn, ans, faulted>>
    BY Zenon, <1>1 DEF Exit
  <2>2. ASSUME NEW s \in Requests PROVE pc'[s] = "cut" \/ pc'[s] = pc[s]
    BY Zenon, <1>1 DEF Exit
  <2>3. ASSUME NEW s \in Requests, pc'[s] = "cut" PROVE Traced(s)'
    BY Zenon, <2>3 DEF Traced, Past, Late
  <2>4. ASSUME NEW s \in Requests, pc'[s] = pc[s] PROVE Traced(s)'
    BY Zenon, <2>1, <2>4, LeftAlone
  <2> QED BY Zenon, <2>2, <2>3, <2>4
<1>2. CASE UNCHANGED <<cfg, pc, shape, signedIn, ans, faulted>>
  BY Zenon, <1>2, LeftAlone
<1>3. \/ Exit \/ UNCHANGED <<cfg, pc, shape, signedIn, ans, faulted>>
  BY Zenon DEF RunStep, Load, Migrate, MigrateFails, Connect, ConnectFails, Fail, Listen,
        ServeError, Shutdown, Drained, DrainTimeout, StopListening, Signal, Tick,
        Outage, Restore, process, request, vars
<1> QED BY Zenon, <1>1, <1>2, <1>3

\* Every answer has its origin.
LEMMA Tracing == Spec => [](\A r \in Requests : Traced(r))
<1>1. Init => \A r \in Requests : Traced(r)
  BY DEF Init, Traced, Past, Late
<1>2. Inv /\ (\A r \in Requests : Traced(r)) /\ [Next]_vars => (\A r \in Requests : Traced(r))'
  BY Zenon, AcceptTraced, SessionTraced, BodyTraced, HandlerTraced, MovesTraced, RunTraced
     DEF Next, RequestStep
<1> QED BY <1>1, <1>2, Invariance, PTL DEF Spec

\* A client cannot tell a disabled login from a path that was never registered,
\* nor, from the status, a HEAD from its GET, whatever is asked concurrently.
THEOREM TwinsAnsweredAlike == Spec => []AnswersMirror
<1>1. Inv /\ (\A r \in Requests : Traced(r)) => AnswersMirror
  <2> SUFFICES ASSUME Inv, \A r \in Requests : Traced(r) PROVE AnswersMirror
    OBVIOUS
  <2>1. shape \in [Requests -> Requested] /\ cfg.local \in BOOLEAN
    <3>1. shape \in [Requests -> Shapes] /\ cfg \in Config
      BY ServerAssumption DEF Inv, Typed, TypedRun, TypedRequest
    <3>2. cfg.local \in BOOLEAN
      BY Zenon, <3>1 DEF Config
    <3> QED BY <3>1, <3>2, ServerAssumption
  <2>2. ASSUME NEW r \in Requests, NEW s \in Requests,
               ~ cfg.local,
               pc[r] \in {"answer", "done"}, pc[s] \in {"answer", "done"},
               shape[r].path = "login", shape[s].path = "unregistered",
               shape[r].method = shape[s].method,
               shape[s].site \in {"same-origin", "none"}
        PROVE  ans[r] = ans[s]
    <3>1. cfg.local = FALSE
      BY <2>1, <2>2
    <3>2. /\ Refused(r) = IF shape[r].method = "OPTIONS" THEN {"405"} ELSE {"404"}
          /\ Refused(s) = IF shape[r].method = "OPTIONS" THEN {"405"} ELSE {}
          /\ Settled(s) = {"404"}
      <4> DEFINE q == shape[r]  p == shape[s]
      <4>1. q.path = "login" /\ p.path = "unregistered" /\ q.method = p.method
            /\ p.site \in {"same-origin", "none"}
        BY Zenon, <2>2
      <4> HIDE DEF q, p
      <4>2. /\ BeforeSession(q, FALSE) = IF q.method = "OPTIONS" THEN {"405"} ELSE {"404"}
            /\ BeforeSession(p, FALSE) = IF q.method = "OPTIONS" THEN {"405"} ELSE {}
            /\ FirstRefusal(<<AfterSession(p), WithoutStatement(p, signedIn[s])>>) = {"404"}
        BY Zenon, <4>1, DisabledRefusals
      <4> QED BY <3>1, <4>2, Zenon DEF Refused, Settled, q, p
    <3>3. ans[r] \in Refused(r)
      BY Zenon, <2>2, <3>2 DEF Traced
    <3>4. ans[s] \in Refused(s) \/ (Refused(s) = {} /\ ans[s] \in Settled(s))
      <4>1. ~ ReadsBody(shape[s])
        BY Zenon, <2>2, BodyNotRead
      <4> QED BY Zenon, <2>2, <3>2, <4>1 DEF Traced
    <3> QED BY <3>2, <3>3, <3>4
  <2>3. ASSUME NEW r \in Requests, NEW s \in Requests,
               pc[r] \in {"answer", "done"}, pc[s] \in {"answer", "done"},
               shape[r].method = "HEAD", shape[s] = [shape[r] EXCEPT !.method = "GET"],
               signedIn[r] = signedIn[s], ~ faulted[r], ~ faulted[s]
        PROVE  ans[r] = ans[s]
    <3>1. shape[r] \in Requested
      BY <2>1
    <3>2. /\ Refused(r) = Refused(s) /\ Settled(r) = Settled(s)
          /\ Settled(r) = {} => /\ Handled(shape[r]) = {"200"} /\ Handled(shape[s]) = {"200"}
                                /\ shape[r].path # "login"
          /\ shape[s].path = shape[r].path
      <4> DEFINE q == shape[r]  p == shape[s]  user == signedIn[r]
      <4>1. q \in Requested /\ q.method = "HEAD" /\ p = [q EXCEPT !.method = "GET"]
        BY <2>3, <3>1
      <4> HIDE DEF q, p, user
      <4>2. /\ BeforeSession(q, cfg.local) = BeforeSession(p, cfg.local)
            /\ FirstRefusal(<<AfterSession(q), WithoutStatement(q, user)>>)
                 = FirstRefusal(<<AfterSession(p), WithoutStatement(p, user)>>)
            /\ FirstRefusal(<<AfterSession(q), WithoutStatement(q, user)>>) = {}
                 => Handled(q) = {"200"} /\ Handled(p) = {"200"} /\ q.path # "login"
            /\ p.path = q.path
        BY <4>1, HeadIsGet
      <4> QED BY Zenon, <2>3, <4>2 DEF Refused, Settled, q, p, user
    <3>3. /\ \A x, y \in Refused(r) : x = y
          /\ \A x, y \in Settled(r) : x = y
      BY Zenon, OneRefusal DEF Refused, Settled
    <3>4. ~ ReadsBody(shape[r]) /\ ~ ReadsBody(shape[s])
      <4>1. shape[s].method = "GET"
        BY Zenon, <2>3, <3>1 DEF Requested
      <4> QED BY Zenon, <2>3, <4>1, BodyNotRead
    <3>5. \/ ans[r] \in Refused(r)
          \/ Refused(r) = {} /\ ans[r] \in Settled(r)
          \/ Refused(r) = {} /\ Settled(r) = {} /\ ans[r] = "200"
      BY <2>3, <3>2, <3>4 DEF Traced
    <3>6. \/ ans[s] \in Refused(r)
          \/ Refused(r) = {} /\ ans[s] \in Settled(r)
          \/ Refused(r) = {} /\ Settled(r) = {} /\ ans[s] = "200"
      BY Zenon, <2>3, <3>2, <3>4 DEF Traced
    <3> QED BY <3>3, <3>5, <3>6
  <2> QED BY Zenon, <2>2, <2>3 DEF AnswersMirror, DisabledLooksUnregistered, HeadMirrorsGet
<1> QED BY <1>1, Invariance, Tracing, PTL

=============================================================================
