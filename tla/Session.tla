------------------------------ MODULE Session ------------------------------
(***************************************************************************)
(* The life of a session in the Go backend: one User's browser sends       *)
(* overlapping requests through SessionMiddleware and touchIfStale to the  *)
(* login, logout and me handlers, and applies the Set-Cookie headers of    *)
(* the responses in whatever order they arrive.                            *)
(*                                                                         *)
(* The application and the database each have a clock; they tick together  *)
(* and differ by skew.  A statement runs at one instant and fails while    *)
(* the database is down; a write that fails may still have been applied.   *)
(***************************************************************************)
EXTENDS Integers, FiniteSets

CONSTANTS
    Requests,    \* requests the browser may have open at once
    Tokens,      \* session tokens newSessionToken can mint, all distinct
    NoToken,     \* no cookie, no row
    TTL,         \* SESSION_TTL
    MaxLifetime, \* SESSION_MAX_LIFETIME
    Skews,       \* how far the application clock may be ahead
    Ops,         \* what the browser asks for
    MaxNow,      \* bound: the last instant of the database clock
    MaxOutages   \* bound: how many times the database goes away

ASSUME SessionAssumption ==
    /\ NoToken \notin Tokens
    /\ {"keep", "clear"} \cap Tokens = {}
    /\ TTL \in Nat \ {0}
    /\ MaxLifetime \in Nat
    /\ TTL <= MaxLifetime
    /\ Skews \subseteq Int
    /\ Ops \subseteq {"login", "logout", "me"}
    /\ MaxNow \in Nat
    /\ MaxOutages \in Nat

VARIABLES
    rows,    \* the sessions table, by token (it holds the token's hash)
    user,    \* whether the users row is there or soft-deleted
    jar,     \* the browser's cookie
    pc,      \* where each request stands
    op,      \* what it asks for
    sent,    \* the cookie it carries
    expiry,  \* expires_at as looked up, then the new one to write
    auth,    \* whether a User is on the request context
    cookie,  \* the Set-Cookie of the response so far
    now,     \* the database clock
    skew,    \* application clock minus database clock
    db,      \* whether the database answers
    outages, \* outages so far
    born,    \* history: when each token's row was inserted
    revoked, \* history: tokens whose row a logout has deleted
    late     \* history: requests sent with a token already revoked or past the cap

request == <<pc, op, sent, expiry, auth, cookie>>
world   == <<now, skew, db, outages>>
history == <<born, revoked, late>>
vars    == <<rows, user, jar, request, world, history>>

Steps == {"idle", "lookup", "user", "decide", "touch", "handle", "respond"}

\* created_at and last_seen_at are the database's; expires_at the application's.
Row == [created : Int, seen : Int, expires : Int]

NoRow == [created |-> -1, seen |-> -1, expires |-> -1]

Present(t) == rows[t] # NoRow

AppNow == now + skew

\* GetLiveSession's two conditions, on the database clock.
Live(t) ==
    /\ Present(t)
    /\ rows[t].expires > now
    /\ rows[t].created > now - MaxLifetime

\* SESSION_MAX_LIFETIME has passed since the token's row was inserted.
PastCap(t) == now >= born[t] + MaxLifetime

Init ==
    /\ rows = [t \in Tokens |-> NoRow]
    /\ user = "present"
    /\ jar = NoToken
    /\ pc = [q \in Requests |-> "idle"]
    /\ op = [q \in Requests |-> "me"]
    /\ sent = [q \in Requests |-> NoToken]
    /\ expiry = [q \in Requests |-> 0]
    /\ auth = [q \in Requests |-> "no"]
    /\ cookie = [q \in Requests |-> "keep"]
    /\ now = 0
    /\ skew \in Skews
    /\ db = "up"
    /\ outages = 0
    /\ born = [t \in Tokens |-> -1]
    /\ revoked = {}
    /\ late = {}

Goto(q, step) == pc' = [pc EXCEPT ![q] = step]

\* What a response does to the browser's cookie: nothing, clear it, or set it.
Keep == "keep"
Clear == "clear"

-----------------------------------------------------------------------------

\* The browser sends a request with the cookie it holds.  Without one the
\* middleware passes it straight on.
Send(q, o) ==
    /\ pc[q] = "idle"
    /\ Goto(q, IF jar = NoToken THEN "handle" ELSE "lookup")
    /\ op' = [op EXCEPT ![q] = o]
    /\ sent' = [sent EXCEPT ![q] = jar]
    /\ late' = IF jar \in revoked \/ (jar # NoToken /\ PastCap(jar))
                 THEN late \cup {q} ELSE late
    /\ UNCHANGED <<rows, user, jar, expiry, auth, cookie, world, born, revoked>>

\* Mutant: an error reading the session clears the cookie as no row does.
LookUpClearsOnError(q) ==
    /\ pc[q] = "lookup"
    /\ \/ /\ db = "up" /\ Live(sent[q])
          /\ Goto(q, "user")
          /\ expiry' = [expiry EXCEPT ![q] = rows[sent[q]].expires]
          /\ UNCHANGED cookie
       \/ /\ db = "down" \/ ~Live(sent[q])
          /\ Goto(q, "handle")
          /\ cookie' = [cookie EXCEPT ![q] = Clear]
          /\ UNCHANGED expiry
    /\ UNCHANGED <<rows, user, jar, op, sent, auth, world, history>>

\* Mutant: a session that is not live leaves the cookie as it is.
LookUpNeverClears(q) ==
    /\ pc[q] = "lookup"
    /\ IF db = "up" /\ Live(sent[q])
         THEN /\ Goto(q, "user")
              /\ expiry' = [expiry EXCEPT ![q] = rows[sent[q]].expires]
         ELSE Goto(q, "handle") /\ UNCHANGED expiry
    /\ UNCHANGED <<rows, user, jar, op, sent, auth, cookie, world, history>>

\* SessionMiddleware, GetLiveSession: no row clears the cookie, an error
\* leaves it; either way the request goes on unauthenticated.
LookUpSession(q) ==
    /\ pc[q] = "lookup"
    /\ \/ /\ db = "up" /\ Live(sent[q])
          /\ Goto(q, "user")
          /\ expiry' = [expiry EXCEPT ![q] = rows[sent[q]].expires]
          /\ UNCHANGED cookie
       \/ /\ db = "up" /\ ~Live(sent[q])
          /\ Goto(q, "handle")
          /\ cookie' = [cookie EXCEPT ![q] = Clear]
          /\ UNCHANGED expiry
       \/ /\ db = "down"
          /\ Goto(q, "handle")
          /\ UNCHANGED <<cookie, expiry>>
    /\ UNCHANGED <<rows, user, jar, op, sent, auth, world, history>>

\* SessionMiddleware, GetUserByID: likewise.
LookUpUser(q) ==
    /\ pc[q] = "user"
    /\ \/ /\ db = "up" /\ user = "present"
          /\ Goto(q, "decide")
          /\ UNCHANGED cookie
       \/ /\ db = "up" /\ user = "deleted"
          /\ Goto(q, "handle")
          /\ cookie' = [cookie EXCEPT ![q] = Clear]
       \/ /\ db = "down"
          /\ Goto(q, "handle")
          /\ UNCHANGED cookie
    /\ UNCHANGED <<rows, user, jar, op, sent, expiry, auth, world, history>>

\* touchIfStale: past half its life by the application clock, the session gets
\* a new expiry by the application clock.  WithUser follows in every case.
TouchIfStale(q) ==
    /\ pc[q] = "decide"
    /\ auth' = [auth EXCEPT ![q] = "yes"]
    /\ IF expiry[q] - AppNow > TTL \div 2
         THEN Goto(q, "handle") /\ UNCHANGED expiry
         ELSE /\ Goto(q, "touch")
              /\ expiry' = [expiry EXCEPT ![q] = AppNow + TTL]
    /\ UNCHANGED <<rows, user, jar, op, sent, cookie, world, history>>

\* Mutant: an upsert, which brings a deleted row back.
TouchedUpsert(q) ==
    [rows EXCEPT ![sent[q]] =
        [created |-> born[sent[q]], seen |-> now, expires |-> expiry[q]]]

\* Mutant: the touch renews created_at too.
TouchedAnew(q) ==
    IF Present(sent[q])
      THEN [rows EXCEPT ![sent[q]] =
              [created |-> now, seen |-> now, expires |-> expiry[q]]]
      ELSE rows

\* TouchSession: an UPDATE by id, which no row to match is no error to.
Touched(q) ==
    IF Present(sent[q])
      THEN [rows EXCEPT ![sent[q]] =
              [created |-> @.created, seen |-> now, expires |-> expiry[q]]]
      ELSE rows

TouchSession(q) ==
    /\ pc[q] = "touch"
    /\ \/ /\ db = "up"
          /\ rows' = Touched(q)
          /\ cookie' = [cookie EXCEPT ![q] = sent[q]]
       \/ /\ db = "down"
          /\ rows' \in {rows, Touched(q)}
          /\ UNCHANGED cookie
    /\ Goto(q, "handle")
    /\ UNCHANGED <<user, jar, op, sent, expiry, auth, world, history>>

-----------------------------------------------------------------------------

\* GetMe: with a User it reads the Household and answers; it changes nothing.
GetMe(q) ==
    /\ pc[q] = "handle" /\ op[q] = "me"
    /\ Goto(q, "respond")
    /\ UNCHANGED <<rows, user, jar, op, sent, expiry, auth, cookie, world, history>>

\* Mutant: the cookie is cleared and the row left to expire.
LogoutCookieOnly(q) ==
    /\ pc[q] = "handle" /\ op[q] = "logout"
    /\ cookie' = [cookie EXCEPT ![q] = Clear]
    /\ revoked' = IF sent[q] = NoToken THEN revoked ELSE revoked \cup {sent[q]}
    /\ Goto(q, "respond")
    /\ UNCHANGED <<rows, user, jar, op, sent, expiry, auth, world, born, late>>

\* Logout: without a cookie only the clearing; with one the row goes first, and
\* an error answers 500 with the cookie as the middleware left it.
Logout(q) ==
    /\ pc[q] = "handle" /\ op[q] = "logout"
    /\ \/ /\ sent[q] = NoToken
          /\ cookie' = [cookie EXCEPT ![q] = Clear]
          /\ UNCHANGED <<rows, revoked>>
       \/ /\ sent[q] # NoToken /\ db = "up"
          /\ rows' = [rows EXCEPT ![sent[q]] = NoRow]
          /\ revoked' = revoked \cup {sent[q]}
          /\ cookie' = [cookie EXCEPT ![q] = Clear]
       \/ /\ sent[q] # NoToken /\ db = "down"
          /\ \/ /\ rows' = [rows EXCEPT ![sent[q]] = NoRow]
                /\ revoked' = revoked \cup {sent[q]}
             \/ UNCHANGED <<rows, revoked>>
          /\ UNCHANGED cookie
    /\ Goto(q, "respond")
    /\ UNCHANGED <<user, jar, op, sent, expiry, auth, world, born, late>>

\* IssueSession, once the password has matched: the expiry is read off the
\* application clock, created_at and last_seen_at default to the database's.
Issued(t) ==
    [rows EXCEPT ![t] = [created |-> now, seen |-> now, expires |-> AppNow + TTL]]

LocalLogin(q) ==
    /\ pc[q] = "handle" /\ op[q] = "login"
    /\ \/ \E t \in Tokens :
             /\ born[t] = -1
             /\ rows' = Issued(t)
             /\ born' = [born EXCEPT ![t] = now]
             /\ IF db = "up" THEN cookie' = [cookie EXCEPT ![q] = t]
                             ELSE UNCHANGED cookie
       \/ UNCHANGED <<rows, born, cookie>>
    /\ Goto(q, "respond")
    /\ UNCHANGED <<user, jar, op, sent, expiry, auth, world, revoked, late>>

\* The request is over, and what the server held for it is gone.
Over(q) ==
    /\ pc[q] = "respond"
    /\ Goto(q, "idle")
    /\ op' = [op EXCEPT ![q] = "me"]
    /\ sent' = [sent EXCEPT ![q] = NoToken]
    /\ expiry' = [expiry EXCEPT ![q] = 0]
    /\ auth' = [auth EXCEPT ![q] = "no"]
    /\ cookie' = [cookie EXCEPT ![q] = Keep]
    /\ late' = late \ {q}
    /\ UNCHANGED <<rows, user, world, born, revoked>>

\* The response arrives and the browser applies its Set-Cookie, or is lost.
Deliver(q) ==
    /\ Over(q)
    /\ jar' = CASE cookie[q] = Keep  -> jar
                [] cookie[q] = Clear -> NoToken
                [] OTHER             -> cookie[q]

Lose(q) ==
    /\ Over(q)
    /\ UNCHANGED jar

-----------------------------------------------------------------------------

\* The browser drops its cookie: Max-Age passes, or it is cleared by hand.
DropCookie ==
    /\ jar # NoToken
    /\ jar' = NoToken
    /\ UNCHANGED <<rows, user, request, world, history>>

\* The User is soft-deleted.
DeleteUser ==
    /\ user = "present"
    /\ user' = "deleted"
    /\ UNCHANGED <<rows, jar, request, world, history>>

Tick ==
    /\ now < MaxNow
    /\ now' = now + 1
    /\ UNCHANGED <<rows, user, jar, request, skew, db, outages, history>>

Outage ==
    /\ db = "up"
    /\ outages < MaxOutages
    /\ db' = "down"
    /\ outages' = outages + 1
    /\ UNCHANGED <<rows, user, jar, request, now, skew, history>>

Restore ==
    /\ db = "down"
    /\ db' = "up"
    /\ UNCHANGED <<rows, user, jar, request, now, skew, outages, history>>

\* What the server does for a request.
Serve(q) ==
    \/ LookUpSession(q)
    \/ LookUpUser(q)
    \/ TouchIfStale(q)
    \/ TouchSession(q)
    \/ GetMe(q)
    \/ Logout(q)
    \/ LocalLogin(q)

Next ==
    \/ \E q \in Requests :
          (\E o \in Ops : Send(q, o)) \/ Serve(q) \/ Deliver(q) \/ Lose(q)
    \/ DropCookie
    \/ DeleteUser
    \/ Tick
    \/ Outage
    \/ Restore

Spec == Init /\ [][Next]_vars

(***************************************************************************)
(* The server finishes what it has begun, the database comes back, the     *)
(* browser goes on probing GET /me (the client does on every resume), and  *)
(* responses are not lost for ever.                                        *)
(***************************************************************************)
FairSpec ==
    /\ Spec
    /\ \A q \in Requests :
          /\ WF_vars(Serve(q))
          /\ WF_vars(Send(q, "me"))
          /\ WF_vars(Deliver(q) \/ Lose(q))
          /\ SF_vars(Deliver(q))
    /\ WF_vars(Restore)

-----------------------------------------------------------------------------

\* Every variable stays in its type.
TypeOK ==
    /\ rows \in [Tokens -> Row]
    /\ user \in {"present", "deleted"}
    /\ jar \in Tokens \cup {NoToken}
    /\ pc \in [Requests -> Steps]
    /\ op \in [Requests -> Ops \cup {"me"}]
    /\ sent \in [Requests -> Tokens \cup {NoToken}]
    /\ expiry \in [Requests -> Int]
    /\ auth \in [Requests -> {"no", "yes"}]
    /\ cookie \in [Requests -> Tokens \cup {Keep, Clear}]
    /\ now \in Nat
    /\ skew \in Int
    /\ db \in {"up", "down"}
    /\ outages \in Nat
    /\ born \in [Tokens -> Nat \cup {-1}]
    /\ revoked \in SUBSET Tokens
    /\ late \in SUBSET Requests

\* Revocation is the row delete: once a logout has deleted a session's row no
\* touch of a request still in flight brings it back.
LoggedOutStaysOut == \A t \in revoked : ~Present(t)

\* Whatever touches slide its window, no session is live SESSION_MAX_LIFETIME
\* after its row was inserted.
AbsoluteCap == \A t \in Tokens : Live(t) => ~PastCap(t)

\* The window slides with last_seen_at and no further: SESSION_TTL after its last
\* touch, and the clocks' skew, a session is dead, however late the touch of a
\* request that had read the clock earlier was written.
IdleEnds == \A t \in Tokens : Live(t) => now < rows[t].seen + TTL + skew

\* A request sent once its session has been logged out, or has reached
\* SESSION_MAX_LIFETIME, is never given a User, whatever requests sent earlier
\* with the same token are still doing.
LateRequestsAnonymous == \A q \in late : auth[q] = "no"

\* A response clears the cookie only for a logout, or when the database has
\* answered that the session is not live or its User is gone: an outage signs
\* nobody out.
OutageSignsNobodyOut ==
    [][\A q \in Requests :
          (cookie'[q] = Clear /\ cookie[q] # Clear) =>
              \/ op[q] = "logout"
              \/ db = "up" /\ (~Live(sent[q]) \/ user = "deleted")]_vars

\* A browser left holding a logged-out token, by a touch that crossed the logout
\* say, ends up without it for good: "the browser stops presenting a cookie that
\* cannot work".
DeadTokenForgotten == <>[](jar \notin revoked)

\* SessionMiddleware's comment: a cookie is cleared because it "cannot work".  So
\* a token being cleared other than by a logout is not live.
ClearedCookieCannotWork ==
    \A q \in Requests :
        (pc[q] = "respond" /\ op[q] # "logout" /\ cookie[q] = Clear) =>
            ~Live(sent[q]) \/ user = "deleted"

=============================================================================
