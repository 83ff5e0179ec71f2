------------------------------- MODULE Login -------------------------------
(***************************************************************************)
(* POST /auth/local/login of the Go backend: any number of concurrent      *)
(* LocalLogin calls over the Argon2 permits, the login_attempts table and  *)
(* the sessions table.  One action per statement the handler sends to the  *)
(* database and per step it takes at the permits, so that two logins       *)
(* interleave wherever the code lets them.                                 *)
(*                                                                         *)
(* A statement takes effect at one instant.  It fails when the database is *)
(* down or the context it runs under has ended; a write that fails may     *)
(* still have been applied, its acknowledgement lost.  RecordLoginFailure  *)
(* is two steps: its now() is fixed as it begins, and it then waits for    *)
(* the row's lock, while other logins write the row and the clock moves.   *)
(***************************************************************************)
EXTENDS LoginBackoff, Sequences

CONSTANTS
    FirstBackoff, MaxBackoff, LogError,   \* the backoff's settings
    Requests,   \* the logins that may arrive
    Emails,     \* addresses, already lower-cased and trimmed
    Ips,        \* client addresses
    NoIp,       \* no client address in the request context
    Account,    \* what the users and credentials tables hold for an address
    Passwords,  \* how a submitted password relates to the hashes, see Matches
    NoUser,     \* db.User{}: no User was resolved
    Cap,        \* argonConcurrencyCap
    MaxGone,    \* bound: how many request contexts end early
    MaxSpent,   \* bound: how many budgets after the permit run out
    MaxOutages, \* bound: how many times the database goes away
    MaxNow      \* bound: the last instant of the database clock

Settings == [first |-> FirstBackoff, max |-> MaxBackoff, error |-> LogError]

ASSUME BackoffAssumption == Settings \in ValidSettings

AccountKinds == {"unknown", "dormant", "active", "corrupt"}

PasswordKinds == {"own", "phrase", "other"}

\* No failure statement is under way.
NotBegun == -1

HashKinds == {"stored", "corrupt", "dummy"}

(***************************************************************************)
(* The email: and ip: prefixes keep the two kinds of key apart, so a key   *)
(* is tagged with its kind.                                                *)
(***************************************************************************)
Keys == ({"email"} \X Emails) \cup ({"ip"} \X Ips)

ASSUME LoginAssumption ==
    /\ NoIp \notin Ips
    /\ NoUser \notin Emails
    /\ Account \in [Emails -> AccountKinds]
    /\ Passwords \subseteq PasswordKinds
    /\ Cap \in Nat \ {0}
    /\ MaxGone \in Nat
    /\ MaxSpent \in Nat
    /\ MaxOutages \in Nat
    /\ MaxNow \in Nat

VARIABLES
    pc,       \* where each login stands
    request,  \* the submitted address, client address and password
    found,    \* what resolve answered: the User and the hash to check
    todo,     \* the keys recordFailure has still to write
    verdict,  \* what verifyHoldingPermit answered
    answer,   \* the response, once decided
    permits,  \* occupancy of argonSem
    gone,     \* logins whose request context has ended
    spent,    \* logins whose budget after the permit has run out
    attempts, \* login_attempts
    sessions, \* sessions, as the login that created each and its user_id
    began,    \* now() of the failure each login is writing, or NotBegun
    db,       \* whether the database answers
    outages,  \* outages so far
    now,      \* the database clock
    wrote,    \* history: keys whose failure a login wrote
    missed,   \* history: keys whose write the database or the budget refused
    late      \* history: passwords checked on a key inside its open window

loginVars == <<pc, request, found, todo, verdict, answer>>
database  == <<attempts, sessions, began>>
contexts  == <<gone, spent>>
world     == <<db, outages, now>>
history   == <<wrote, missed, late>>
vars      == <<loginVars, permits, database, contexts, world, history>>

Steps == {"new", "throttled", "user", "credential", "acquire", "queued",
          "check", "verify", "record", "release", "clear", "issue", "done"}

Answers == {"none", "204", "401", "429", "500"}

\* A login holds its permit from the queue until releasePermit.
Holding == {"check", "verify", "record", "release"}

\* The steps that run on the context afterPermit made.
Detached == Holding \cup {"clear", "issue"}

RequestType == [email : Emails, ip : Ips \cup {NoIp}, password : Passwords]

FoundType == [user : Emails \cup {NoUser}, hash : HashKinds]

\* backoffKeys: the email key first, then the ip key when there is an address.
BackoffKeys(q) ==
    IF q.ip = NoIp
      THEN << <<"email", q.email>> >>
      ELSE << <<"email", q.email>>, <<"ip", q.ip>> >>

KeySet(q) == 
    {<<"email", q.email>>} \cup (IF q.ip = NoIp THEN {} ELSE {<<"ip", q.ip>>})

\* Mutant: a hash that cannot be parsed is let through.
MatchesUnparsed(password, hash) ==
    \/ hash = "stored" /\ password = "own"
    \/ hash = "corrupt"

(***************************************************************************)
(* verifyHoldingPermit.  A stored hash is matched by the account's own     *)
(* password, the dummy hash by the phrase it was built from, and a hash    *)
(* that does not parse by nothing.                                         *)
(***************************************************************************)
Matches(password, hash) ==
    \/ hash = "stored" /\ password = "own"
    \/ hash = "dummy" /\ password = "phrase"

\* resolve with no credential to check: db.User{} and the dummy hash.
NotFound == [user |-> NoUser, hash |-> "dummy"]

\* resolve with a credential: the User and the hash the credentials row holds.
Credential(e) ==
    [user |-> e, hash |-> IF Account[e] = "corrupt" THEN "corrupt" ELSE "stored"]

\* The context of a statement before the permit, and after it: afterPermit
\* detaches from the request's and gives the handler timeout again.
RequestEnded(r) == r \in gone

\* Mutant: the work after the permit stays on the request's own context.
WorkEndsWithRequest(r) == r \in gone \/ r \in spent

WorkEnded(r) == r \in spent

\* Before the permit a statement answers only on a live request context.
Answered(r) == db = "up" /\ ~RequestEnded(r)
AnsweredDetached(r) == db = "up" /\ ~WorkEnded(r)

-----------------------------------------------------------------------------

Init ==
    /\ pc = [r \in Requests |-> "new"]
    /\ request \in [Requests -> RequestType]
    /\ found = [r \in Requests |-> NotFound]
    /\ todo = [r \in Requests |-> <<>>]
    /\ verdict = [r \in Requests |-> "none"]
    /\ answer = [r \in Requests |-> "none"]
    /\ permits = 0
    /\ gone = {}
    /\ spent = {}
    /\ attempts = [k \in Keys |-> NoRow]
    /\ sessions = {}
    /\ began = [r \in Requests |-> NotBegun]
    /\ db = "up"
    /\ outages = 0
    /\ now = 0
    /\ wrote = [r \in Requests |-> {}]
    /\ missed = [r \in Requests |-> {}]
    /\ late = [k \in Keys |-> 0]

Goto(r, step) == pc' = [pc EXCEPT ![r] = step]

\* Answer before the permit is taken: the handler returns.
Return(r, status) ==
    /\ Goto(r, "done")
    /\ answer' = [answer EXCEPT ![r] = status]

\* LocalLogin is entered: the keys and the budget are read from the request.
LocalLogin(r) ==
    /\ pc[r] = "new"
    /\ Goto(r, "throttled")
    /\ UNCHANGED <<request, found, todo, verdict, answer, permits, database,
                   contexts, world, history>>

\* throttled, before the queue: 500 when unreadable, 429 inside a window.
Throttled(r) ==
    /\ pc[r] = "throttled"
    /\ \/ /\ ~Answered(r)
          /\ Return(r, "500")
       \/ /\ Answered(r)
          /\ Throttles(attempts, KeySet(request[r]), now)
          /\ Return(r, "429")
       \/ /\ Answered(r)
          /\ ~Throttles(attempts, KeySet(request[r]), now)
          /\ Goto(r, "user")
          /\ UNCHANGED answer
    /\ UNCHANGED <<request, found, todo, verdict, permits, database, contexts,
                   world, history>>

\* resolve, GetUserByEmail: no row means the dummy hash and no User.
LookUpUser(r) ==
    /\ pc[r] = "user"
    /\ \/ /\ ~Answered(r)
          /\ Return(r, "500")
          /\ UNCHANGED found
       \/ /\ Answered(r)
          /\ Account[request[r].email] = "unknown"
          /\ Goto(r, "acquire")
          /\ found' = [found EXCEPT ![r] = NotFound]
          /\ UNCHANGED answer
       \/ /\ Answered(r)
          /\ Account[request[r].email] # "unknown"
          /\ Goto(r, "credential")
          /\ UNCHANGED <<found, answer>>
    /\ UNCHANGED <<request, todo, verdict, permits, database, contexts, world,
                   history>>

\* resolve, GetCredentialByUserID: a dormant User has no row, and is answered
\* as an unknown address is.
LookUpCredential(r) ==
    /\ pc[r] = "credential"
    /\ \/ /\ ~Answered(r)
          /\ Return(r, "500")
          /\ UNCHANGED found
       \/ /\ Answered(r)
          /\ Goto(r, "acquire")
          /\ found' = [found EXCEPT ![r] =
               IF Account[request[r].email] = "dormant"
                 THEN NotFound ELSE Credential(request[r].email)]
          /\ UNCHANGED answer
    /\ UNCHANGED <<request, todo, verdict, permits, database, contexts, world,
                   history>>

\* acquireArgonPermit, its first check: an ended context never joins the queue.
AcquireArgonPermit(r) ==
    /\ pc[r] = "acquire"
    /\ \/ /\ RequestEnded(r)
          /\ Return(r, "500")
       \/ /\ ~RequestEnded(r)
          /\ Goto(r, "queued")
          /\ UNCHANGED answer
    /\ UNCHANGED <<request, found, todo, verdict, permits, database, contexts,
                   world, history>>

\* acquireArgonPermit, the select: a permit is free, or the context has ended.
\* With both ready either may be picked.
TakePermit(r) ==
    /\ pc[r] = "queued"
    /\ permits < Cap
    /\ permits' = permits + 1
    /\ Goto(r, "check")
    /\ UNCHANGED <<request, found, todo, verdict, answer, database, contexts,
                   world, history>>

\* Mutant: giving up in the queue counts as a failure of the address.
LeaveQueueCounted(r) ==
    /\ pc[r] = "queued"
    /\ RequestEnded(r)
    /\ Return(r, "500")
    /\ attempts' = [attempts EXCEPT ![<<"email", request[r].email>>] =
                       RecordLoginFailure(Settings, @, now)]
    /\ UNCHANGED <<request, found, todo, verdict, permits, sessions, began,
                   contexts, world, history>>

LeaveQueue(r) ==
    /\ pc[r] = "queued"
    /\ RequestEnded(r)
    /\ Return(r, "500")
    /\ UNCHANGED <<request, found, todo, verdict, permits, database, contexts,
                   world, history>>

\* Mutant: the backoff is not read again under the permit.
ThrottledOnlyOnce(r) ==
    /\ pc[r] = "check"
    /\ Goto(r, "verify")
    /\ UNCHANGED <<request, found, todo, verdict, answer, permits, database,
                   contexts, world, history>>

\* Mutant: a refusal under the permit returns with the permit kept.
ThrottledKeepsPermit(r) ==
    /\ pc[r] = "check"
    /\ \/ /\ ~AnsweredDetached(r) \/ Throttles(attempts, KeySet(request[r]), now)
          /\ Return(r, "429")
       \/ /\ AnsweredDetached(r)
          /\ ~Throttles(attempts, KeySet(request[r]), now)
          /\ Goto(r, "verify")
          /\ UNCHANGED answer
    /\ UNCHANGED <<request, found, todo, verdict, permits, database, contexts,
                   world, history>>

\* checkPassword, the backoff read again under the permit.
ThrottledHoldingPermit(r) ==
    /\ pc[r] = "check"
    /\ \/ /\ ~AnsweredDetached(r)
          /\ Goto(r, "release")
          /\ answer' = [answer EXCEPT ![r] = "500"]
       \/ /\ AnsweredDetached(r)
          /\ Throttles(attempts, KeySet(request[r]), now)
          /\ Goto(r, "release")
          /\ answer' = [answer EXCEPT ![r] = "429"]
       \/ /\ AnsweredDetached(r)
          /\ ~Throttles(attempts, KeySet(request[r]), now)
          /\ Goto(r, "verify")
          /\ UNCHANGED answer
    /\ UNCHANGED <<request, found, todo, verdict, permits, database, contexts,
                   world, history>>

\* checkPassword, the hash: it runs whatever became of the context.
VerifyHoldingPermit(r) ==
    /\ pc[r] = "verify"
    /\ IF Matches(request[r].password, found[r].hash)
         THEN /\ Goto(r, "release")
              /\ verdict' = [verdict EXCEPT ![r] = "match"]
              /\ UNCHANGED todo
         ELSE /\ Goto(r, "record")
              /\ verdict' = [verdict EXCEPT ![r] = "mismatch"]
              /\ todo' = [todo EXCEPT ![r] = BackoffKeys(request[r])]
    /\ late' = [k \in Keys |->
                  IF k \in KeySet(request[r]) /\ Active(attempts[k], now)
                    THEN late[k] + 1 ELSE late[k]]
    /\ UNCHANGED <<request, found, answer, permits, database, contexts, world,
                   wrote, missed>>

\* recordFailure, one turn of its loop: the statement begins, and now() is this
\* instant however long it then waits for the row.
BeginFailure(r) ==
    /\ pc[r] = "record"
    /\ todo[r] # <<>>
    /\ began[r] = NotBegun
    /\ began' = [began EXCEPT ![r] = now]
    /\ UNCHANGED <<loginVars, permits, attempts, sessions, contexts, world,
                   history>>

\* The row of k after one more failure, its statement begun at t.  A write over a
\* closed window starts that window's count of late checks.
WriteFailure(k, t) ==
    /\ attempts' = [attempts EXCEPT ![k] = RecordLoginFailure(Settings, attempts[k], t)]
    /\ late' = [late EXCEPT ![k] = IF Active(attempts[k], now) THEN @ ELSE 0]

\* The rest of that turn: the row is locked and written as it is by then.  An
\* error is logged and the loop goes on.
RecordFailure(r) ==
    /\ pc[r] = "record"
    /\ todo[r] # <<>>
    /\ began[r] # NotBegun
    /\ LET k == Head(todo[r])
       IN  \/ /\ AnsweredDetached(r)
              /\ WriteFailure(k, began[r])
              /\ wrote' = [wrote EXCEPT ![r] = @ \cup {k}]
              /\ UNCHANGED missed
           \/ /\ ~AnsweredDetached(r)
              /\ WriteFailure(k, began[r]) \/ UNCHANGED <<attempts, late>>
              /\ missed' = [missed EXCEPT ![r] =
                   IF db = "down" \/ r \in spent THEN @ \cup {k} ELSE @]
              /\ UNCHANGED wrote
    /\ todo' = [todo EXCEPT ![r] = Tail(@)]
    /\ began' = [began EXCEPT ![r] = NotBegun]
    /\ UNCHANGED <<pc, request, found, verdict, answer, permits, sessions,
                   contexts, world>>

\* recordFailure returns, and the login will be answered INVALID_CREDENTIALS.
FailureRecorded(r) ==
    /\ pc[r] = "record"
    /\ todo[r] = <<>>
    /\ Goto(r, "release")
    /\ answer' = [answer EXCEPT ![r] = "401"]
    /\ UNCHANGED <<request, found, todo, verdict, permits, database, contexts,
                   world, history>>

\* Mutant: releasePermit is the plain release, run early and deferred.
releaseEveryTime(r) == permits - 1

\* The permits after releasePermit, a sync.OnceFunc: the first call of a login,
\* which ends its holding, gives the permit back and a later one does nothing.
releasePermit(r) == IF pc[r] \in Holding THEN permits - 1 ELSE permits

\* Mutant: the permit is never given back.
ReleaseNever(r) ==
    /\ pc[r] = "release"
    /\ Goto(r, IF answer[r] = "none" THEN "clear" ELSE "done")
    /\ UNCHANGED <<request, found, todo, verdict, answer, permits, database,
                   contexts, world, history>>

\* Mutant: the attempts are cleared before the password's verdict is looked at.
ReleaseThenClear(r) ==
    /\ pc[r] = "release"
    /\ permits' = permits - 1
    /\ Goto(r, IF answer[r] \in {"none", "401"} THEN "clear" ELSE "done")
    /\ UNCHANGED <<request, found, todo, verdict, answer, database, contexts,
                   world, history>>

\* releasePermit, then the refusal or the answer checkPassword decided on.
ReleasePermit(r) ==
    /\ pc[r] = "release"
    /\ permits' = releasePermit(r)
    /\ Goto(r, IF answer[r] = "none" THEN "clear" ELSE "done")
    /\ UNCHANGED <<request, found, todo, verdict, answer, database, contexts,
                   world, history>>

\* ClearLoginAttempts: its failure is only logged.
ClearAttempts(r) ==
    /\ pc[r] = "clear"
    /\ \/ attempts' = ClearLoginAttempts(attempts, KeySet(request[r]))
       \/ ~AnsweredDetached(r) /\ UNCHANGED attempts
    /\ Goto(r, "issue")
    /\ UNCHANGED <<request, found, todo, verdict, answer, permits, sessions,
                   began, contexts, world, history>>

\* IssueSession: the insert fails without a User, user_id being NOT NULL.  Then
\* LocalLogin returns, and its deferred releasePermit runs.
IssueSession(r) ==
    /\ pc[r] = "issue"
    /\ \/ /\ AnsweredDetached(r)
          /\ found[r].user # NoUser
          /\ sessions' = sessions \cup {<<r, found[r].user>>}
          /\ Return(r, "204")
       \/ /\ ~AnsweredDetached(r)
          /\ found[r].user # NoUser
          /\ sessions' = sessions \cup {<<r, found[r].user>>}
          /\ Return(r, "500")
       \/ /\ ~AnsweredDetached(r) \/ found[r].user = NoUser
          /\ UNCHANGED sessions
          /\ Return(r, "500")
    /\ permits' = releasePermit(r)
    /\ UNCHANGED <<request, found, todo, verdict, attempts, began, contexts,
                   world, history>>

-----------------------------------------------------------------------------

\* The client leaves, or the handler timeout passes.
EndRequest(r) ==
    /\ pc[r] \notin {"new", "done"}
    /\ Cardinality(gone) < MaxGone
    /\ gone' = gone \cup {r}
    /\ UNCHANGED <<loginVars, permits, database, spent, world, history>>

\* The budget a login was given again with its permit runs out.
SpendBudget(r) ==
    /\ pc[r] \in Detached
    /\ Cardinality(spent) < MaxSpent
    /\ spent' = spent \cup {r}
    /\ UNCHANGED <<loginVars, permits, database, gone, world, history>>

\* The database clock moves on.
Tick ==
    /\ now < MaxNow
    /\ now' = now + 1
    /\ UNCHANGED <<loginVars, permits, database, contexts, db, outages, history>>

\* The database goes away, and comes back with its tables.
Outage ==
    /\ db = "up"
    /\ outages < MaxOutages
    /\ db' = "down"
    /\ outages' = outages + 1
    /\ UNCHANGED <<loginVars, permits, database, contexts, now, history>>

Restore ==
    /\ db = "down"
    /\ db' = "up"
    /\ UNCHANGED <<loginVars, permits, database, contexts, outages, now, history>>

-----------------------------------------------------------------------------

\* What one LocalLogin call does next, whatever its environment does.
Step(r) ==
    \/ Throttled(r)
    \/ LookUpUser(r)
    \/ LookUpCredential(r)
    \/ AcquireArgonPermit(r)
    \/ TakePermit(r)
    \/ LeaveQueue(r)
    \/ ThrottledHoldingPermit(r)
    \/ VerifyHoldingPermit(r)
    \/ BeginFailure(r)
    \/ RecordFailure(r)
    \/ FailureRecorded(r)
    \/ ReleasePermit(r)
    \/ ClearAttempts(r)
    \/ IssueSession(r)

Next ==
    \/ \E r \in Requests :
          LocalLogin(r) \/ Step(r) \/ EndRequest(r) \/ SpendBudget(r)
    \/ Tick
    \/ Outage
    \/ Restore

Spec == Init /\ [][Next]_vars

(***************************************************************************)
(* A call that has arrived keeps running: the scheduler runs its           *)
(* goroutine, and a statement that does not come back is ended by its      *)
(* context.  Nothing makes a client arrive, leave or the clock pass.       *)
(***************************************************************************)
FairSpec == Spec /\ \A r \in Requests : WF_vars(Step(r))

-----------------------------------------------------------------------------

\* Every variable stays in its type.
TypeOK ==
    /\ pc \in [Requests -> Steps]
    /\ request \in [Requests -> RequestType]
    /\ found \in [Requests -> FoundType]
    /\ todo \in [Requests -> Seq(Keys)]
    /\ verdict \in [Requests -> {"none", "match", "mismatch"}]
    /\ answer \in [Requests -> Answers]
    /\ permits \in Nat
    /\ gone \in SUBSET Requests
    /\ spent \in SUBSET Requests
    /\ attempts \in [Keys -> Row]
    /\ sessions \in SUBSET (Requests \X Emails)
    /\ db \in {"up", "down"}
    /\ outages \in Nat
    /\ now \in Nat
    /\ began \in [Requests -> NotBegun .. now]
    /\ wrote \in [Requests -> SUBSET Keys]
    /\ missed \in [Requests -> SUBSET Keys]
    /\ late \in [Keys -> Nat]

Holders == {r \in Requests : pc[r] \in Holding}

\* The semaphore's occupancy is exactly the logins between acquireArgonPermit
\* and releasePermit, and never more than argonConcurrencyCap: no path of
\* LocalLogin keeps a permit, and none gives one back twice.
PermitsMatchHolders ==
    /\ permits = Cardinality(Holders)
    /\ permits <= Cap

\* Once a failure has opened a key's window, at most Cap - 1 more passwords are
\* checked on that key before the window closes: the logins that had already
\* read the backoff under a permit, and none of the queue behind them
\* (checkPassword, "a burst gets that many guesses, not the whole queue").
LateChecksBounded ==
    \A k \in Keys : Active(attempts[k], now) => late[k] <= Cap - 1

\* A login answered 401 has written a failure for each of its keys, save those
\* whose write the database refused or the fresh budget cut short: neither the
\* client leaving, nor the request deadline passing in the queue, nor the other
\* key's write failing loses one (afterPermit, recordFailure).
RefusedGuessIsCounted ==
    \A r \in Requests :
        answer[r] = "401" => KeySet(request[r]) = wrote[r] \cup missed[r]

\* A key never holds more failures than passwords were checked and refused on
\* it: an outage, a throttled login or one that gave up in the queue adds none.
FailuresWereChecked ==
    \A k \in Keys :
        attempts[k].count <=
            Cardinality({r \in Requests : /\ verdict[r] = "mismatch"
                                          /\ k \in KeySet(request[r])})

\* r's failure of k has begun at t and waits for the row.
Waits(r, k, t) ==
    /\ pc[r] = "record"
    /\ todo[r] # <<>> /\ Head(todo[r]) = k
    /\ began[r] = t

\* A failure stands, and the window it opened with it, until a login on that key
\* whose password matched clears the key: no order of concurrent failures, of
\* failures inside an open window or of failed writes takes one off a key.  The
\* end of a window is brought forward only by a failure whose statement began
\* before it could lock the row, and by no more than it waited.
FailuresStand ==
    [][\A k \in Keys :
          \/ /\ attempts'[k].count >= attempts[k].count
             /\ \/ attempts'[k].until >= attempts[k].until
                \/ \E r \in Requests, t \in 0 .. now :
                      /\ Waits(r, k, t)
                      /\ attempts[k].until - attempts'[k].until <= now - t
          \/ \E r \in Requests : /\ pc[r] = "clear" /\ k \in KeySet(request[r])
                                 /\ Matches(request[r].password, found[r].hash)]_vars

\* A session row belongs to the User whose own stored password was submitted,
\* and a 204 is only answered with its row in the table, however the logins
\* around it interleave and whichever statements fail.
SessionsAreEarned ==
    /\ \A s \in sessions :
          /\ s[2] = request[s[1]].email
          /\ Account[s[2]] = "active"
          /\ request[s[1]].password = "own"
    /\ \A r \in Requests :
          answer[r] = "204" => <<r, request[r].email>> \in sessions

\* Backoff, never a lockout: no key is ever refused for longer than
\* LOGIN_MAX_BACKOFF from now.
NeverLockedOut ==
    \A k \in Keys : attempts[k].until <= now + MaxBackoff

\* Every login that arrives is answered, and so gives its permit back, even
\* when it queues behind a full set of permits during an outage.
EveryLoginAnswered ==
    \A r \in Requests : pc[r] # "new" ~> pc[r] = "done"

\* LocalLogin's comment: "Every failure mode - unknown email, a User holding no
\* credential, a wrong password - returns one INVALID_CREDENTIALS".  So a login
\* whose address resolved to no User, its password checked with no statement
\* failing, is answered 401.
UnresolvedIsInvalidCredentials ==
    \A r \in Requests :
        (/\ pc[r] = "done"
         /\ verdict[r] # "none"
         /\ found[r].user = NoUser
         /\ outages = 0
         /\ r \notin spent)
        => answer[r] = "401"
=============================================================================
