--------------------------- MODULE SessionProofs ---------------------------
(***************************************************************************)
(* Proofs about Session, for every set of requests and tokens, every TTL   *)
(* and cap, every clock skew and any number of outages.                    *)
(*                                                                         *)
(* The invariants are not inductive alone.  That a revoked token stays     *)
(* revoked needs every token in a cookie, in a request or in revoked to    *)
(* have been minted, so that a login never mints it again; the cap needs   *)
(* created_at to be the instant of the insert whatever touches did to the  *)
(* row; and a late request needs its token to be dead when it is looked up.*)
(***************************************************************************)
EXTENDS Session, TLAPS

Minted(t) == born[t] # -1

\* Tokens in use were minted; a row keeps the instant of its insert.
TokenInv ==
    /\ jar \in Tokens => Minted(jar)
    /\ \A q \in Requests :
          /\ sent[q] \in Tokens => Minted(sent[q])
          /\ cookie[q] \in Tokens => Minted(cookie[q])
    /\ \A t \in Tokens : Present(t) => Minted(t) /\ rows[t].created = born[t]
    /\ \A t \in revoked : Minted(t) /\ ~Present(t)

\* A request's step and its token.  A token has to be read before it is Live.
RequestInv ==
    \A q \in Requests :
        /\ pc[q] \in {"lookup", "user", "decide", "touch"} => sent[q] \in Tokens
        /\ pc[q] \in {"idle", "lookup", "user", "decide"} => auth[q] = "no"
        /\ op[q] \in {"login", "logout", "me"}

\* A late request never gets past GetLiveSession.
KeptOut(q) ==
    /\ sent[q] \in Tokens
    /\ sent[q] \in revoked \/ PastCap(sent[q])
    /\ pc[q] \in {"lookup", "handle", "respond"}
    /\ auth[q] = "no"

LateInv == \A q \in late : KeptOut(q)

\* The inductive invariant.
IndInv == TypeOK /\ TokenInv /\ RequestInv /\ LateInv

-----------------------------------------------------------------------------

\* A row that is there is live only within the cap.
LEMMA LiveWithinCap ==
    ASSUME TypeOK, TokenInv, NEW t \in Tokens, Live(t)
    PROVE  ~PastCap(t) /\ t \notin revoked
  BY SessionAssumption DEF TypeOK, TokenInv, Live, PastCap, Row

\* The initial states satisfy the invariant.
LEMMA InitIndInv == Init => IndInv
  BY SessionAssumption
     DEF Init, IndInv, TypeOK, TokenInv, RequestInv, LateInv, Row, NoRow,
         Present, Steps, Keep, Clear

\* Every step leaves the state well typed.
LEMMA TypeStep ==
    ASSUME IndInv, [Next]_vars
    PROVE  TypeOK'
<1> USE SessionAssumption DEF IndInv, TypeOK, RequestInv, Goto, Steps, Keep, Clear,
        world, history
<1>1. ASSUME NEW q \in Requests, NEW o \in Ops, Send(q, o)
      PROVE  TypeOK'
  BY <1>1 DEF Send
<1>2. ASSUME NEW q \in Requests, LookUpSession(q) \/ LookUpUser(q)
      PROVE  TypeOK'
  <2>1. CASE LookUpSession(q)
    <3>1. rows[sent[q]].expires \in Int
      BY <2>1 DEF LookUpSession, Row
    <3> QED
      BY <2>1, <3>1 DEF LookUpSession
  <2>2. CASE LookUpUser(q)
    BY <2>2 DEF LookUpUser
  <2> QED
    BY <1>2, <2>1, <2>2
<1>3. ASSUME NEW q \in Requests, TouchIfStale(q)
      PROVE  TypeOK'
  BY <1>3 DEF TouchIfStale, AppNow
<1>4. ASSUME NEW q \in Requests, TouchSession(q)
      PROVE  TypeOK'
  <2>1. sent[q] \in Tokens
    BY <1>4 DEF TouchSession
  <2>2. Touched(q) \in [Tokens -> Row]
    BY <2>1 DEF Touched, Row
  <2>3. rows' \in [Tokens -> Row]
    BY <1>4, <2>2 DEF TouchSession
  <2> QED
    BY <1>4, <2>1, <2>3 DEF TouchSession
<1>5. ASSUME NEW q \in Requests, GetMe(q) \/ Logout(q)
      PROVE  TypeOK'
  <2>1. NoRow \in Row
    BY DEF NoRow, Row
  <2>2. CASE GetMe(q)
    BY <2>2 DEF GetMe
  <2>3. CASE Logout(q)
    <3>1. /\ rows' \in {rows, [rows EXCEPT ![sent[q]] = NoRow]}
          /\ revoked' \in {revoked, revoked \cup ({sent[q]} \cap Tokens)}
          /\ cookie' \in {cookie, [cookie EXCEPT ![q] = "clear"]}
      BY <2>3 DEF Logout
    <3>2. rows' \in [Tokens -> Row]
      BY <2>1, <3>1
    <3> QED
      BY <2>3, <3>1, <3>2 DEF Logout
  <2> QED
    BY <1>5, <2>2, <2>3
<1>6. ASSUME NEW q \in Requests, LocalLogin(q)
      PROVE  TypeOK'
  <2>1. ASSUME NEW t \in Tokens
        PROVE  Issued(t) \in [Tokens -> Row]
    BY DEF Issued, Row, AppNow
  <2>2. /\ rows' = rows \/ \E t \in Tokens : rows' = Issued(t)
        /\ born' = born \/ \E t \in Tokens : born' = [born EXCEPT ![t] = now]
        /\ cookie' = cookie \/ \E t \in Tokens : cookie' = [cookie EXCEPT ![q] = t]
    BY <1>6 DEF LocalLogin
  <2>3. rows' \in [Tokens -> Row]
    BY <2>1, <2>2
  <2>4. /\ born' \in [Tokens -> Nat \cup {-1}]
        /\ cookie' \in [Requests -> Tokens \cup {Keep, Clear}]
    BY <2>2
  <2> QED
    BY Zenon, <1>6, <2>3, <2>4 DEF LocalLogin
<1>7. ASSUME NEW q \in Requests, Deliver(q) \/ Lose(q)
      PROVE  TypeOK'
  <2>1. jar' \in Tokens \cup {NoToken}
    BY <1>7 DEF Deliver, Lose
  <2> QED
    BY <1>7, <2>1 DEF Deliver, Lose, Over
<1>8. CASE DropCookie \/ DeleteUser \/ Tick \/ Outage \/ Restore
  BY <1>8 DEF DropCookie, DeleteUser, Tick, Outage, Restore, request
<1>9. CASE UNCHANGED vars
  BY <1>9 DEF vars, request
<1> QED
  BY <1>1, <1>2, <1>3, <1>4, <1>5, <1>6, <1>7, <1>8, <1>9 DEF Next, Serve

\* Every step keeps tokens minted, rows dated and revoked tokens without a row.
LEMMA TokenStep ==
    ASSUME IndInv, [Next]_vars
    PROVE  TokenInv'
<1> USE SessionAssumption DEF IndInv, TypeOK, TokenInv, RequestInv, Minted, Present,
        Goto, Keep, Clear, world, history
<1>1. ASSUME NEW q \in Requests, NEW o \in Ops, Send(q, o)
      PROVE  TokenInv'
  BY <1>1 DEF Send
<1>2. ASSUME NEW q \in Requests,
             LookUpSession(q) \/ LookUpUser(q) \/ TouchIfStale(q) \/ GetMe(q)
      PROVE  TokenInv'
  <2>1. UNCHANGED <<rows, jar, sent, born, revoked>>
    BY <1>2 DEF LookUpSession, LookUpUser, TouchIfStale, GetMe
  <2>2. cookie' \in {cookie, [cookie EXCEPT ![q] = "clear"]}
    BY <1>2 DEF LookUpSession, LookUpUser, TouchIfStale, GetMe
  <2> QED
    BY <2>1, <2>2
<1>3. ASSUME NEW q \in Requests, TouchSession(q)
      PROVE  TokenInv'
  <2>1. /\ sent[q] \in Tokens
        /\ UNCHANGED <<jar, sent, born, revoked>>
        /\ cookie' \in {cookie, [cookie EXCEPT ![q] = sent[q]]}
        /\ rows' \in {rows, Touched(q)}
    BY <1>3 DEF TouchSession
  <2>2. ASSUME NEW t \in Tokens
        PROVE  /\ rows'[t] = NoRow <=> rows[t] = NoRow
               /\ rows'[t].created = rows[t].created
    BY <2>1 DEF Touched, NoRow, Row
  <2> QED
    BY <2>1, <2>2
<1>4. ASSUME NEW q \in Requests, Logout(q)
      PROVE  TokenInv'
  <2>1. /\ UNCHANGED <<jar, sent, born>>
        /\ cookie' \in {cookie, [cookie EXCEPT ![q] = "clear"]}
        /\ \/ UNCHANGED <<rows, revoked>>
           \/ /\ sent[q] \in Tokens
              /\ rows' = [rows EXCEPT ![sent[q]] = NoRow]
              /\ revoked' = revoked \cup {sent[q]}
    BY <1>4 DEF Logout
  <2> QED
    BY <2>1
<1>5. ASSUME NEW q \in Requests, LocalLogin(q)
      PROVE  TokenInv'
  <2>1. CASE UNCHANGED <<rows, born, cookie>>
    BY <1>5, <2>1 DEF LocalLogin
  <2>2. ASSUME NEW t \in Tokens, born[t] = -1, rows' = Issued(t),
               born' = [born EXCEPT ![t] = now],
               cookie' \in {cookie, [cookie EXCEPT ![q] = t]}
        PROVE  TokenInv'
    <3>1. UNCHANGED <<jar, sent, revoked>>
      BY <1>5 DEF LocalLogin
    <3>2. \A u \in Tokens : Minted(u) => u # t /\ Minted(u)'
      BY <2>2
    <3>3. Minted(t)' /\ rows'[t].created = born'[t]
      BY <2>2 DEF Issued
    <3>4. \A u \in Tokens : u # t => rows'[u] = rows[u] /\ born'[u] = born[u]
      BY <2>2 DEF Issued
    <3> QED
      BY <2>2, <3>1, <3>2, <3>3, <3>4
  <2> QED
    BY <1>5, <2>1, <2>2 DEF LocalLogin
<1>6. ASSUME NEW q \in Requests, Deliver(q) \/ Lose(q)
      PROVE  TokenInv'
  <2>1. jar' \in {jar, NoToken} \/ (jar' = cookie[q] /\ cookie[q] \in Tokens)
    BY <1>6 DEF Deliver, Lose
  <2> QED
    BY <1>6, <2>1 DEF Deliver, Lose, Over
<1>7. CASE DropCookie \/ DeleteUser \/ Tick \/ Outage \/ Restore
  BY <1>7 DEF DropCookie, DeleteUser, Tick, Outage, Restore, request
<1>8. CASE UNCHANGED vars
  BY <1>8 DEF vars, request
<1> QED
  BY SMTT(30), <1>1, <1>2, <1>3, <1>4, <1>5, <1>6, <1>7, <1>8 DEF Next, Serve

\* Every step keeps a request's authentication behind its lookups.
LEMMA RequestStep ==
    ASSUME IndInv, [Next]_vars
    PROVE  RequestInv'
<1> USE SessionAssumption DEF IndInv, TypeOK, RequestInv, Goto, world, history
<1>1. ASSUME NEW q \in Requests, NEW o \in Ops, Send(q, o)
      PROVE  RequestInv'
  BY <1>1 DEF Send
<1>2. ASSUME NEW q \in Requests, LookUpSession(q) \/ LookUpUser(q)
      PROVE  RequestInv'
  BY <1>2 DEF LookUpSession, LookUpUser
<1>3. ASSUME NEW q \in Requests, TouchIfStale(q) \/ TouchSession(q)
      PROVE  RequestInv'
  BY <1>3 DEF TouchIfStale, TouchSession
<1>4. ASSUME NEW q \in Requests, GetMe(q) \/ Logout(q) \/ LocalLogin(q)
      PROVE  RequestInv'
  BY <1>4 DEF GetMe, Logout, LocalLogin
<1>5. ASSUME NEW q \in Requests, Deliver(q) \/ Lose(q)
      PROVE  RequestInv'
  BY <1>5 DEF Deliver, Lose, Over
<1>6. CASE DropCookie \/ DeleteUser \/ Tick \/ Outage \/ Restore
  BY <1>6 DEF DropCookie, DeleteUser, Tick, Outage, Restore, request
<1>7. CASE UNCHANGED vars
  BY <1>7 DEF vars, request
<1> QED
  BY SMTT(30), <1>1, <1>2, <1>3, <1>4, <1>5, <1>6, <1>7 DEF Next, Serve

\* A token that is dead to a late request stays so: revoked only grows, the
\* clock does not run back, and no minted token is minted again.
LEMMA DeadStaysDead ==
    ASSUME IndInv, [Next]_vars, NEW t \in Tokens, Minted(t),
           t \in revoked \/ PastCap(t)
    PROVE  t \in revoked' \/ PastCap(t)'
<1>1. revoked \subseteq revoked' /\ now' \in {now, now + 1}
  BY DEF Next, vars, Serve, Send, LookUpSession, LookUpUser, TouchIfStale,
         TouchSession, GetMe, Logout, LocalLogin, Deliver, Lose, Over,
         DropCookie, DeleteUser, Tick, Outage, Restore, world, history
<1>2. born'[t] = born[t]
  BY DEF Next, vars, Serve, Send, LookUpSession, LookUpUser, TouchIfStale,
         TouchSession, GetMe, Logout, LocalLogin, Deliver, Lose, Over,
         DropCookie, DeleteUser, Tick, Outage, Restore, world, history,
         Minted, IndInv, TypeOK
<1> QED
  BY <1>1, <1>2, SessionAssumption DEF PastCap, IndInv, TypeOK

\* Every step keeps late requests out.
LEMMA LateStep ==
    ASSUME IndInv, [Next]_vars
    PROVE  LateInv'
<1> SUFFICES ASSUME NEW q \in Requests, q \in late'
             PROVE  KeptOut(q)'
  BY TypeStep DEF LateInv, TypeOK
<1> USE DEF Goto, world, history
<1>1. ASSUME NEW o \in Ops, Send(q, o)
      PROVE  KeptOut(q)'
  <2>1. q \notin late
    BY <1>1 DEF Send, IndInv, LateInv, KeptOut
  <2>2. jar \in revoked \/ (jar # NoToken /\ PastCap(jar))
    BY <1>1, <2>1 DEF Send
  <2>3. jar \in Tokens /\ (jar \in revoked \/ PastCap(jar))
    BY <2>2, SessionAssumption DEF IndInv, TypeOK
  <2>4. /\ sent'[q] = jar /\ auth'[q] = "no" /\ pc'[q] = "lookup"
        /\ UNCHANGED <<revoked, now, born>>
    BY <1>1, <2>3, SessionAssumption DEF Send, IndInv, TypeOK, RequestInv
  <2> QED
    BY <2>3, <2>4 DEF KeptOut, PastCap
<1>2. ASSUME \A o \in Ops : ~Send(q, o)
      PROVE  KeptOut(q)'
  <2>1. /\ q \in late /\ sent'[q] = sent[q]
    BY SMTT(30), <1>2 DEF Next, vars, request, Serve, Send, LookUpSession, LookUpUser,
         TouchIfStale, TouchSession, GetMe, Logout, LocalLogin, Deliver, Lose,
         Over, DropCookie, DeleteUser, Tick, Outage, Restore, IndInv, TypeOK
  <2>2. /\ sent[q] \in Tokens /\ Minted(sent[q])
        /\ sent[q] \in revoked \/ PastCap(sent[q])
        /\ pc[q] \in {"lookup", "handle", "respond"}
        /\ auth[q] = "no"
    BY <2>1 DEF IndInv, LateInv, KeptOut, TokenInv
  <2>3. ~Live(sent[q])
    BY <2>2, LiveWithinCap DEF IndInv
  <2>4. /\ pc'[q] \in {"lookup", "handle", "respond"}
        /\ auth'[q] = "no"
    BY SMTT(30), <2>2, <2>3, q \in late' DEF Next, vars, request, Serve, Send, LookUpSession,
         LookUpUser, TouchIfStale, TouchSession, GetMe, Logout, LocalLogin,
         Deliver, Lose, Over, DropCookie, DeleteUser, Tick, Outage, Restore,
         IndInv, TypeOK
  <2>5. \A t \in Tokens : t = sent[q] => t \in revoked' \/ PastCap(t)'
    BY <2>2, DeadStaysDead
  <2> QED
    BY <2>1, <2>2, <2>4, <2>5 DEF KeptOut, PastCap
<1> QED
  BY <1>1, <1>2

\* The inductive invariant holds of every reachable state.
LEMMA Inductive == Spec => []IndInv
<1>1. IndInv /\ [Next]_vars => IndInv'
  BY TypeStep, TokenStep, RequestStep, LateStep DEF IndInv
<1> QED
  BY InitIndInv, <1>1, PTL DEF Spec

-----------------------------------------------------------------------------

\* Every variable of the session model stays in its type.
THEOREM TypeCorrect == Spec => []TypeOK
  BY Inductive, PTL DEF IndInv

\* Logout's row delete is final: no touch, login or outage brings a logged-out
\* session's row back, whatever requests with its token are in flight.
THEOREM LogoutIsFinal == Spec => []LoggedOutStaysOut
<1>1. IndInv => LoggedOutStaysOut
  BY DEF IndInv, TokenInv, LoggedOutStaysOut
<1> QED
  BY Inductive, <1>1, PTL

\* GetLiveSession answers with no session SESSION_MAX_LIFETIME after its insert,
\* however often it is touched and however far the clocks are apart.
THEOREM CapIsAbsolute == Spec => []AbsoluteCap
<1>1. IndInv => AbsoluteCap
  BY LiveWithinCap DEF IndInv, AbsoluteCap
<1> QED
  BY Inductive, <1>1, PTL

\* A row expires SESSION_TTL after it was last seen, give or take the skew; and
\* the expiry a touch is about to write is no later than one computed now.
SlideInv ==
    /\ \A t \in Tokens :
          Present(t) => rows[t].expires <= rows[t].seen + TTL + skew
    /\ \A q \in Requests : pc[q] = "touch" => expiry[q] <= AppNow + TTL

\* Every step keeps expiries within the window of the last touch.
LEMMA SlideStep ==
    ASSUME IndInv, SlideInv, [Next]_vars
    PROVE  SlideInv'
<1> USE SessionAssumption DEF IndInv, TypeOK, RequestInv, SlideInv, Present, AppNow,
        Goto, world, history
<1>1. ASSUME NEW q \in Requests, NEW o \in Ops, Send(q, o)
      PROVE  SlideInv'
  BY <1>1 DEF Send
<1>2. ASSUME NEW q \in Requests, LookUpSession(q) \/ LookUpUser(q) \/ GetMe(q)
      PROVE  SlideInv'
  BY <1>2 DEF LookUpSession, LookUpUser, GetMe
<1>3. ASSUME NEW q \in Requests, TouchIfStale(q)
      PROVE  SlideInv'
  BY <1>3 DEF TouchIfStale
<1>4. ASSUME NEW q \in Requests, TouchSession(q)
      PROVE  SlideInv'
  <2>1. /\ sent[q] \in Tokens /\ expiry[q] <= now + skew + TTL
        /\ rows' \in {rows, Touched(q)}
        /\ UNCHANGED <<expiry, now, skew>>
        /\ pc' = [pc EXCEPT ![q] = "handle"]
    BY <1>4 DEF TouchSession
  <2>2. ASSUME NEW t \in Tokens, rows'[t] # NoRow
        PROVE  rows'[t].expires <= rows'[t].seen + TTL + skew
    <3>1. CASE rows'[t] = rows[t]
      BY <2>2, <3>1
    <3>2. CASE rows'[t] # rows[t]
      <4>1. rows'[t].seen = now /\ rows'[t].expires = expiry[q]
        BY <2>1, <3>2 DEF Touched
      <4> QED
        BY <2>1, <4>1
    <3> QED
      BY <3>1, <3>2
  <2> QED
    BY <2>1, <2>2
<1>5. ASSUME NEW q \in Requests, Logout(q)
      PROVE  SlideInv'
  <2>1. /\ rows' = rows \/ (sent[q] \in Tokens /\ rows' = [rows EXCEPT ![sent[q]] = NoRow])
        /\ UNCHANGED <<expiry, now, skew>>
        /\ pc' = [pc EXCEPT ![q] = "respond"]
    BY <1>5 DEF Logout
  <2> QED
    BY <2>1
<1>6. ASSUME NEW q \in Requests, LocalLogin(q)
      PROVE  SlideInv'
  <2>1. /\ rows' = rows \/ \E t \in Tokens : rows' = Issued(t)
        /\ UNCHANGED <<expiry, now, skew>>
        /\ pc' = [pc EXCEPT ![q] = "respond"]
    BY <1>6 DEF LocalLogin
  <2>2. ASSUME NEW t \in Tokens, rows'[t] # rows[t]
        PROVE  rows'[t].seen = now /\ rows'[t].expires = now + skew + TTL
    BY <2>1, <2>2 DEF Issued
  <2> QED
    BY <2>1, <2>2
<1>7. ASSUME NEW q \in Requests, Deliver(q) \/ Lose(q)
      PROVE  SlideInv'
  BY <1>7 DEF Deliver, Lose, Over
<1>8. CASE Tick
  <2>1. /\ UNCHANGED <<rows, pc, expiry, skew>> /\ now' = now + 1
    BY <1>8 DEF Tick, request
  <2> QED
    BY <2>1
<1>9. CASE DropCookie \/ DeleteUser \/ Outage \/ Restore \/ UNCHANGED vars
  BY <1>9 DEF DropCookie, DeleteUser, Outage, Restore, request, vars
<1> QED
  BY Zenon, <1>1, <1>2, <1>3, <1>4, <1>5, <1>6, <1>7, <1>8, <1>9 DEF Next, Serve

\* A session nobody touches is dead SESSION_TTL after last_seen_at, and the skew,
\* however the touches of overlapping requests were ordered.
THEOREM IdleSessionsEnd == Spec => []IdleEnds
<1>1. Init => SlideInv
  BY DEF Init, SlideInv, Present
<1>2. IndInv /\ SlideInv /\ [Next]_vars => SlideInv'
  BY SlideStep
<1>3. IndInv /\ SlideInv => IdleEnds
  BY SessionAssumption DEF IndInv, TypeOK, SlideInv, IdleEnds, Live, Row
<1> QED
  BY <1>1, <1>2, <1>3, Inductive, PTL DEF Spec

\* A request sent after the logout or the cap is served without a User.
THEOREM LateIsAnonymous == Spec => []LateRequestsAnonymous
<1>1. IndInv => LateRequestsAnonymous
  BY DEF IndInv, LateInv, KeptOut, LateRequestsAnonymous
<1> QED
  BY Inductive, <1>1, PTL

\* Only a logout, or an answer of the database that the session or its User is
\* gone, makes a response clear the cookie.
THEOREM OutagesKeepCookies == Spec => OutageSignsNobodyOut
<1> DEFINE Justified ==
      \A q \in Requests :
          (cookie'[q] = Clear /\ cookie[q] # Clear) =>
              \/ op[q] = "logout"
              \/ db = "up" /\ (~Live(sent[q]) \/ user = "deleted")
<1>1. IndInv /\ [Next]_vars => [Justified]_vars
  <2> SUFFICES ASSUME IndInv, Next, NEW q \in Requests,
                      cookie'[q] = Clear, cookie[q] # Clear,
                      op[q] # "logout"
               PROVE  db = "up" /\ (~Live(sent[q]) \/ user = "deleted")
    OBVIOUS
  <2>1. PICK p \in Requests :
           \/ \E o \in Ops : Send(p, o)
           \/ Serve(p) \/ Deliver(p) \/ Lose(p)
    BY DEF Next, DropCookie, DeleteUser, Tick, Outage, Restore, request
  <2>2. LookUpSession(q) \/ LookUpUser(q)
    BY <2>1, SessionAssumption DEF Send, Serve, LookUpSession, LookUpUser,
       TouchIfStale, TouchSession, GetMe, Logout, LocalLogin, Deliver, Lose, Over,
       IndInv, TypeOK, RequestInv, Keep, Clear
  <2> QED
    BY <2>2 DEF LookUpSession, LookUpUser
<1> QED
  BY Inductive, <1>1, PTL DEF Spec, OutageSignsNobodyOut
=============================================================================
