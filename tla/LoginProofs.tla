---------------------------- MODULE LoginProofs ----------------------------
(***************************************************************************)
(* Proofs about Login, for any set of requests, addresses and clients, any *)
(* number of permits and any backoff configuration.                        *)
(***************************************************************************)
EXTENDS Login, WindowProofs

(***************************************************************************)
(* The inductive invariant.                                                *)
(***************************************************************************)

\* The semaphore's occupancy counts the holders, who are finitely many.
HoldersInv ==
    /\ IsFiniteSet(Holders)
    /\ permits = Cardinality(Holders)
    /\ permits <= Cap

\* The logins that have read the backoff of k under a permit and are about to
\* check a password on it.
Pending(k) == {r \in Requests : pc[r] = "verify" /\ k \in KeySet(request[r])}

\* While the window of k is open, the checks made late and the checks still to
\* come together fit the permits besides the one that opened it.
WindowInv ==
    \A k \in Keys :
        Active(attempts[k], now) => late[k] + Cardinality(Pending(k)) <= Cap - 1

-----------------------------------------------------------------------------
(***************************************************************************)
(* The backoff row.                                                        *)
(***************************************************************************)

\* The settings are those config.validate lets through.
LEMMA MaxType == MaxBackoff \in Nat
  BY BackoffAssumption DEF Settings, ValidSettings

\* The window of this server's settings is bounded, and one failure more never
\* shortens it.
LEMMA OwnWindow ==
    ASSUME NEW n \in Nat
    PROVE  /\ Window(Settings, n) \in Nat
           /\ Window(Settings, n) <= MaxBackoff
           /\ Window(Settings, n) <= Window(Settings, n + 1)
<1>1. Settings.max = MaxBackoff
  BY DEF Settings
<1> QED
  BY Zenon, <1>1, BackoffAssumption, WindowBounded, WindowGrows

\* The keys of a request are keys of the table.
LEMMA KeysOfRequest ==
    ASSUME NEW q \in RequestType
    PROVE  /\ KeySet(q) \subseteq Keys
           /\ BackoffKeys(q) \in Seq(Keys)
  BY DEF RequestType, KeySet, BackoffKeys, Keys

-----------------------------------------------------------------------------
(***************************************************************************)
(* Types.                                                                  *)
(***************************************************************************)

\* What resolve answers has its type.
LEMMA ResolvedTypes ==
    /\ NotFound \in FoundType
    /\ \A e \in Emails : Credential(e) \in FoundType
  BY DEF NotFound, Credential, FoundType, HashKinds

\* The initial states are well typed.
LEMMA TypeInit == Init => TypeOK
  BY ResolvedTypes DEF Init, TypeOK, Steps, Answers, Row, NoRow, NotBegun

\* Steps before the permit.
LEMMA TypeBefore ==
    ASSUME TypeOK, NEW r \in Requests,
           \/ LocalLogin(r) \/ Throttled(r) \/ LookUpUser(r)
           \/ LookUpCredential(r) \/ AcquireArgonPermit(r)
           \/ TakePermit(r) \/ LeaveQueue(r)
    PROVE  TypeOK'
<1> USE DEF TypeOK, Goto, Return, Steps, Answers, database, contexts, world,
            history
<1>1. CASE LocalLogin(r)
  BY <1>1 DEF LocalLogin
<1>2. CASE Throttled(r)
  BY Zenon, <1>2 DEF Throttled
<1>3. CASE LookUpUser(r)
  <2>1. found' \in [Requests -> FoundType]
    BY Zenon, <1>3, ResolvedTypes DEF LookUpUser
  <2>2. pc' \in [Requests -> Steps] /\ answer' \in [Requests -> Answers]
    BY Zenon, <1>3 DEF LookUpUser
  <2> QED
    BY <1>3, <2>1, <2>2 DEF LookUpUser
<1>4. CASE LookUpCredential(r)
  <2>1. request[r].email \in Emails
    BY DEF RequestType
  <2>2. \E f \in FoundType : found' \in {found, [found EXCEPT ![r] = f]}
    BY <1>4, <2>1, ResolvedTypes DEF LookUpCredential
  <2>3. found' \in [Requests -> FoundType]
    BY Zenon, <2>2
  <2>4. pc' \in [Requests -> Steps] /\ answer' \in [Requests -> Answers]
    BY Zenon, <1>4 DEF LookUpCredential
  <2> QED
    BY <1>4, <2>3, <2>4 DEF LookUpCredential
<1>5. CASE AcquireArgonPermit(r)
  BY Zenon, <1>5 DEF AcquireArgonPermit
<1>6. CASE TakePermit(r)
  BY <1>6 DEF TakePermit
<1>7. CASE LeaveQueue(r)
  BY <1>7 DEF LeaveQueue
<1> QED
  BY Zenon, <1>1, <1>2, <1>3, <1>4, <1>5, <1>6, <1>7

\* The deferred releasePermit finds the permit given back already.
LEMMA IssueKeeps ==
    ASSUME NEW r \in Requests, IssueSession(r)
    PROVE  permits' = permits
<1>1. pc[r] \notin Holding
  BY DEF IssueSession, Holding
<1> QED
  BY Zenon, <1>1 DEF IssueSession, releasePermit

\* Steps that hold the permit, and the two after it.
LEMMA TypeAfter ==
    ASSUME TypeOK, NEW r \in Requests,
           \/ ThrottledHoldingPermit(r) \/ VerifyHoldingPermit(r)
           \/ BeginFailure(r) \/ RecordFailure(r) \/ FailureRecorded(r)
           \/ ReleasePermit(r) \/ ClearAttempts(r) \/ IssueSession(r),
           HoldersInv
    PROVE  TypeOK'
<1> USE DEF TypeOK, Goto, Return, Steps, Answers, database, contexts, world,
            history
<1>1. CASE ThrottledHoldingPermit(r)
  BY Zenon, <1>1 DEF ThrottledHoldingPermit
<1>2. CASE VerifyHoldingPermit(r)
  <2>1. late' \in [Keys -> Nat]
    BY <1>2 DEF VerifyHoldingPermit
  <2>2. todo' \in [Requests -> Seq(Keys)]
    <3>1. BackoffKeys(request[r]) \in Seq(Keys)
      BY KeysOfRequest
    <3>2. todo' \in {todo, [todo EXCEPT ![r] = BackoffKeys(request[r])]}
      BY <1>2 DEF VerifyHoldingPermit
    <3> QED
      BY Zenon, <3>1, <3>2
  <2>3. /\ pc' \in [Requests -> Steps]
        /\ verdict' \in [Requests -> {"none", "match", "mismatch"}]
    BY Zenon, <1>2 DEF VerifyHoldingPermit
  <2> QED
    BY <1>2, <2>1, <2>2, <2>3 DEF VerifyHoldingPermit
<1>3. CASE RecordFailure(r)
  <2> DEFINE k == Head(todo[r])
  <2>1. k \in Keys /\ Tail(todo[r]) \in Seq(Keys)
    BY <1>3 DEF RecordFailure
  <2>2. attempts' \in [Keys -> Row] /\ late' \in [Keys -> Nat]
    <3>0. began[r] \in Nat
      BY <1>3 DEF RecordFailure, NotBegun
    <3>1. CASE WriteFailure(k, began[r])
      BY Zenon, <2>1, <3>0, <3>1, BackoffAssumption, RecordedRow DEF WriteFailure
    <3>2. CASE UNCHANGED <<attempts, late>>
      BY <3>2
    <3> QED
      BY <1>3, <3>1, <3>2 DEF RecordFailure
  <2>3. todo' \in [Requests -> Seq(Keys)]
    BY <1>3, <2>1 DEF RecordFailure
  <2>4. wrote' \in {wrote, [wrote EXCEPT ![r] = @ \cup {k}]}
    BY <1>3 DEF RecordFailure
  <2>5. missed' \in {missed, [missed EXCEPT ![r] = @ \cup {k}]}
    BY <1>3 DEF RecordFailure
  <2> HIDE DEF k
  <2>6. wrote' \in [Requests -> SUBSET Keys]
    <3>1. wrote[r] \cup {k} \in SUBSET Keys
      BY <2>1
    <3> QED
      BY Zenon, <2>4, <3>1
  <2>7. missed' \in [Requests -> SUBSET Keys]
    <3>1. missed[r] \cup {k} \in SUBSET Keys
      BY <2>1
    <3> QED
      BY Zenon, <2>5, <3>1
  <2>8. now' = now /\ began' \in [Requests -> NotBegun .. now]
    <3>1. NotBegun \in NotBegun .. now
      BY DEF NotBegun
    <3> QED
      BY Zenon, <1>3, <3>1 DEF RecordFailure
  <2> QED
    BY SMTT(30), <1>3, <2>2, <2>3, <2>6, <2>7, <2>8 DEF RecordFailure
<1>4. CASE FailureRecorded(r)
  BY <1>4 DEF FailureRecorded
<1>5. CASE ReleasePermit(r)
  <2>1. r \in Holders /\ Holders # {}
    BY <1>5 DEF ReleasePermit, Holders, Holding
  <2>2. permits > 0
    BY <2>1, FS_EmptySet DEF HoldersInv
  <2>3. permits' \in Nat
    BY <1>5, <2>2 DEF ReleasePermit, releasePermit
  <2> QED
    BY <1>5, <2>3 DEF ReleasePermit
<1>6. CASE ClearAttempts(r)
  <2>1. attempts' \in [Keys -> Row]
    BY SMTT(30), <1>6 DEF ClearAttempts, ClearLoginAttempts, Row, NoRow
  <2> QED
    BY <1>6, <2>1 DEF ClearAttempts
<1>7. CASE IssueSession(r)
  <2>1. found[r].user # NoUser => <<r, found[r].user>> \in Requests \X Emails
    BY DEF FoundType
  <2>2. permits' = permits
    BY Zenon, <1>7, IssueKeeps
  <2> QED
    BY Zenon, <1>7, <2>1, <2>2 DEF IssueSession
<1>8. CASE BeginFailure(r)
  <2>1. now \in NotBegun .. now
    BY DEF NotBegun
  <2>2. now' = now /\ began' \in [Requests -> NotBegun .. now]
    BY Zenon, <1>8, <2>1 DEF BeginFailure
  <2> QED
    BY <1>8, <2>2 DEF BeginFailure, loginVars
<1> QED
  BY Zenon, <1>1, <1>2, <1>3, <1>4, <1>5, <1>6, <1>7, <1>8

\* The environment.
LEMMA TypeWorld ==
    ASSUME TypeOK,
           \/ \E r \in Requests : EndRequest(r) \/ SpendBudget(r)
           \/ Tick \/ Outage \/ Restore \/ UNCHANGED vars
    PROVE  TypeOK'
<1> USE DEF TypeOK, loginVars, database, contexts, world, history
<1>1. CASE Tick
  <2>1. NotBegun .. now \subseteq NotBegun .. now'
    BY <1>1 DEF Tick, NotBegun
  <2>2. began' \in [Requests -> NotBegun .. now']
    BY Zenon, <1>1, <2>1 DEF Tick
  <2> QED
    BY <1>1, <2>2 DEF Tick
<1>2. CASE ~ Tick
  BY <1>2 DEF EndRequest, SpendBudget, Outage, Restore, vars
<1> QED
  BY <1>1, <1>2

-----------------------------------------------------------------------------
(***************************************************************************)
(* Permits.                                                                *)
(***************************************************************************)

\* A login that moves between two steps on the same side of the permit leaves
\* the set of holders as it is.
LEMMA SameHolders ==
    ASSUME TypeOK, NEW r \in Requests, NEW s,
           pc' = [pc EXCEPT ![r] = s],
           pc[r] \in Holding <=> s \in Holding
    PROVE  Holders' = Holders
  BY DEF TypeOK, Holders

\* TakePermit is the only way in and ReleasePermit the only way out; each moves
\* the semaphore by one.
LEMMA HoldersStep ==
    ASSUME TypeOK, HoldersInv, [Next]_vars
    PROVE  HoldersInv'
<1>1. CASE Holders' = Holders /\ permits' = permits
  BY <1>1 DEF HoldersInv
<1>2. ASSUME NEW r \in Requests, TakePermit(r)
      PROVE  HoldersInv'
  <2>1. r \notin Holders /\ Holders' = Holders \cup {r}
    BY <1>2 DEF TakePermit, Goto, Holders, Holding, TypeOK
  <2>2. /\ IsFiniteSet(Holders')
        /\ Cardinality(Holders') = Cardinality(Holders) + 1
    BY <2>1, FS_AddElement DEF HoldersInv
  <2> QED
    BY <1>2, <2>2, LoginAssumption DEF TakePermit, HoldersInv, TypeOK
<1>3. ASSUME NEW r \in Requests, ReleasePermit(r)
      PROVE  HoldersInv'
  <2>1. r \in Holders /\ Holders' = Holders \ {r}
    BY <1>3 DEF ReleasePermit, Goto, Holders, Holding, TypeOK
  <2>2. /\ IsFiniteSet(Holders')
        /\ Cardinality(Holders') = Cardinality(Holders) - 1
    BY <2>1, FS_RemoveElement DEF HoldersInv
  <2> QED
    BY <1>3, <2>1, <2>2, LoginAssumption
       DEF ReleasePermit, releasePermit, Holders, HoldersInv, TypeOK
<1>4. ASSUME NEW r \in Requests,
             \/ LocalLogin(r) \/ Throttled(r) \/ LookUpUser(r)
             \/ LookUpCredential(r) \/ AcquireArgonPermit(r) \/ LeaveQueue(r)
      PROVE  Holders' = Holders /\ permits' = permits
  <2>1. /\ permits' = permits
        /\ pc[r] \in {"new", "throttled", "user", "credential", "acquire", "queued"}
    BY Zenon, <1>4 DEF LocalLogin, Throttled, LookUpUser, LookUpCredential,
                AcquireArgonPermit, LeaveQueue
  <2>2. \/ Goto(r, "throttled") \/ Goto(r, "user") \/ Goto(r, "credential")
        \/ Goto(r, "acquire") \/ Goto(r, "queued") \/ Goto(r, "done")
    BY Zenon, <1>4 DEF LocalLogin, Throttled, LookUpUser, LookUpCredential,
                AcquireArgonPermit, LeaveQueue, Return
  <2>3. \E s \in Steps \ Holding : pc' = [pc EXCEPT ![r] = s]
    BY <2>2 DEF Goto, Steps, Holding
  <2>4. pc[r] \notin Holding
    BY <2>1 DEF Holding
  <2> QED
    BY Zenon, <2>1, <2>3, <2>4, SameHolders
<1>5. ASSUME NEW r \in Requests,
             \/ ThrottledHoldingPermit(r) \/ VerifyHoldingPermit(r)
             \/ FailureRecorded(r)
      PROVE  Holders' = Holders /\ permits' = permits
  <2>1. /\ permits' = permits
        /\ pc[r] \in Holding
        /\ \E s \in Holding : pc' = [pc EXCEPT ![r] = s]
    BY Zenon, <1>5 DEF ThrottledHoldingPermit, VerifyHoldingPermit, FailureRecorded,
                Goto, Holding
  <2> QED
    BY Zenon, <2>1, SameHolders
<1>6. ASSUME NEW r \in Requests, ClearAttempts(r) \/ IssueSession(r)
      PROVE  Holders' = Holders /\ permits' = permits
  <2>1. /\ pc[r] \notin Holding
        /\ \E s \in Steps \ Holding : pc' = [pc EXCEPT ![r] = s]
    BY SMTT(30), <1>6 DEF ClearAttempts, IssueSession, Goto, Return, Steps, Holding
  <2>2. permits' = permits
    BY Zenon, <1>6, IssueKeeps DEF ClearAttempts
  <2> QED
    BY Zenon, <2>1, <2>2, SameHolders
<1>7. ASSUME \/ \E r \in Requests : \/ BeginFailure(r) \/ RecordFailure(r)
                                   \/ EndRequest(r) \/ SpendBudget(r)
             \/ Tick \/ Outage \/ Restore \/ UNCHANGED vars
      PROVE  Holders' = Holders /\ permits' = permits
  <2>1. pc' = pc /\ permits' = permits
    BY <1>7 DEF BeginFailure, RecordFailure, EndRequest, SpendBudget, Tick,
                Outage, Restore, vars, loginVars
  <2> QED
    BY <2>1 DEF Holders
<1> QED
  BY <1>1, <1>2, <1>3, <1>4, <1>5, <1>6, <1>7 DEF Next, Step

-----------------------------------------------------------------------------
(***************************************************************************)
(* The open window.                                                        *)
(***************************************************************************)

\* The logins about to check a password hold a permit each.
LEMMA PendingHold ==
    ASSUME TypeOK, HoldersInv, NEW k \in Keys
    PROVE  /\ Pending(k) \subseteq Holders
           /\ IsFiniteSet(Pending(k))
           /\ Cardinality(Pending(k)) \in Nat
<1>1. Pending(k) \subseteq Holders
  BY DEF Pending, Holders, Holding
<1>2. IsFiniteSet(Pending(k))
  BY <1>1, FS_Subset DEF HoldersInv
<1> QED
  BY <1>1, <1>2, FS_CardinalityType

\* A failure written for k0 by a login holding its permit: if it opens the
\* window, every other holder may still check, and nobody has checked late.
LEMMA WindowWrite ==
    ASSUME TypeOK, HoldersInv, WindowInv, NEW r \in Requests, NEW k0 \in Keys,
           NEW t, pc[r] = "record", WriteFailure(k0, t), UNCHANGED <<pc, request, now>>
    PROVE  WindowInv'
<1> SUFFICES ASSUME NEW k \in Keys, Active(attempts[k], now)'
             PROVE  (late[k] + Cardinality(Pending(k)) <= Cap - 1)'
  BY DEF WindowInv
<1>1. Pending(k)' = Pending(k)
  BY DEF Pending
<1>2. CASE Active(attempts[k], now)
  <2>1. late'[k] = late[k]
    BY SMTT(30), <1>2 DEF WriteFailure, TypeOK
  <2> QED
    BY <1>1, <1>2, <2>1 DEF WindowInv
<1>3. CASE ~Active(attempts[k], now)
  <2>1. k = k0
    BY SMTT(30), <1>3 DEF WriteFailure, Active, TypeOK
  <2>2. late'[k] = 0
    BY <1>3, <2>1 DEF WriteFailure, TypeOK
  <2>3. r \in Holders /\ Pending(k) \in SUBSET (Holders \ {r})
    BY Zenon, PendingHold DEF Holders, Holding, Pending
  <2>4. /\ IsFiniteSet(Holders \ {r})
        /\ Cardinality(Holders \ {r}) = Cardinality(Holders) - 1
    BY SMTT(30), <2>3, FS_RemoveElement DEF HoldersInv
  <2>5. Cardinality(Pending(k)) <= Cardinality(Holders) - 1
    BY <2>3, <2>4, FS_Subset
  <2>6. Cardinality(Pending(k)) \in Nat
    BY PendingHold
  <2> QED
    BY SMTT(30), <1>1, <2>2, <2>5, <2>6, LoginAssumption DEF HoldersInv, TypeOK
<1> QED
  BY <1>2, <1>3

\* The read under the permit lets a login through only while every window it
\* is counted against is closed.
LEMMA WindowRead ==
    ASSUME TypeOK, HoldersInv, WindowInv, NEW r \in Requests,
           ThrottledHoldingPermit(r)
    PROVE  WindowInv'
<1> SUFFICES ASSUME NEW k \in Keys, Active(attempts[k], now)'
             PROVE  (late[k] + Cardinality(Pending(k)) <= Cap - 1)'
  BY DEF WindowInv
<1>1. Active(attempts[k], now) /\ late'[k] = late[k]
  BY DEF ThrottledHoldingPermit, database, world, history
<1>2. Pending(k)' = Pending(k)
  <2>1. CASE pc' = [pc EXCEPT ![r] = "release"]
    BY SMTT(30), <2>1 DEF ThrottledHoldingPermit, Pending, TypeOK
  <2>2. CASE pc' = [pc EXCEPT ![r] = "verify"]
    <3>1. k \notin KeySet(request[r])
      BY Zenon, <1>1, <2>2 DEF ThrottledHoldingPermit, Throttles, Goto, TypeOK
    <3> QED
      BY <2>2, <3>1 DEF ThrottledHoldingPermit, Pending, TypeOK
  <2> QED
    BY <2>1, <2>2 DEF ThrottledHoldingPermit, Goto
<1> QED
  BY <1>1, <1>2 DEF WindowInv

\* A check turns one pending login into at most one late check.
LEMMA WindowCheck ==
    ASSUME TypeOK, HoldersInv, WindowInv, NEW r \in Requests,
           VerifyHoldingPermit(r)
    PROVE  WindowInv'
<1> SUFFICES ASSUME NEW k \in Keys, Active(attempts[k], now)'
             PROVE  (late[k] + Cardinality(Pending(k)) <= Cap - 1)'
  BY DEF WindowInv
<1>1. Active(attempts[k], now)
  BY Zenon DEF VerifyHoldingPermit, database, world
<1>2. late[k] + Cardinality(Pending(k)) <= Cap - 1
  BY <1>1 DEF WindowInv
<1>3. Pending(k)' = Pending(k) \ {r}
  BY DEF VerifyHoldingPermit, Goto, Pending, TypeOK
<1>4. /\ IsFiniteSet(Pending(k))
      /\ Cardinality(Pending(k)) \in Nat
      /\ late[k] \in Nat
  BY PendingHold DEF TypeOK
<1>5. CASE k \in KeySet(request[r])
  <2>1. r \in Pending(k)
    BY Zenon, <1>5 DEF VerifyHoldingPermit, Pending
  <2>2. Cardinality(Pending(k)') = Cardinality(Pending(k)) - 1
    BY Zenon, <1>3, <1>4, <2>1, FS_RemoveElement
  <2>3. late'[k] = late[k] + 1
    BY Zenon, <1>1, <1>5 DEF VerifyHoldingPermit
  <2> QED
    BY SMTT(30), <1>2, <1>4, <2>2, <2>3, LoginAssumption
<1>6. CASE k \notin KeySet(request[r])
  <2>1. Pending(k)' = Pending(k)
    BY <1>3, <1>6 DEF Pending
  <2>2. late'[k] = late[k]
    BY Zenon, <1>6 DEF VerifyHoldingPermit
  <2> QED
    BY <1>2, <2>1, <2>2
<1> QED
  BY Zenon, <1>5, <1>6

\* A step that starts no check and writes no failure.
LEMMA WindowKept ==
    ASSUME TypeOK, WindowInv, UNCHANGED <<request, late>>,
           \A r \in Requests : pc[r] = "verify" <=> pc'[r] = "verify",
           \A k \in Keys : Active(attempts[k], now)' => Active(attempts[k], now)
    PROVE  WindowInv'
<1> SUFFICES ASSUME NEW k \in Keys, Active(attempts[k], now)'
             PROVE  (late[k] + Cardinality(Pending(k)) <= Cap - 1)'
  BY DEF WindowInv
<1>1. Pending(k)' = Pending(k)
  BY DEF Pending
<1> QED
  BY <1>1 DEF WindowInv

\* Every step keeps the count of late checks below what the other permits allow.
LEMMA WindowStep ==
    ASSUME TypeOK, HoldersInv, WindowInv, [Next]_vars
    PROVE  WindowInv'
<1>1. ASSUME NEW r \in Requests, RecordFailure(r)
      PROVE  WindowInv'
  <2>1. Head(todo[r]) \in Keys
    BY <1>1 DEF RecordFailure, TypeOK
  <2>2. CASE WriteFailure(Head(todo[r]), began[r])
    BY Zenon, <1>1, <2>1, <2>2, WindowWrite DEF RecordFailure, world
  <2>3. CASE UNCHANGED <<attempts, late>>
    <3>1. UNCHANGED <<pc, request, now>>
      BY Zenon, <1>1 DEF RecordFailure, world
    <3> QED
      BY <2>3, <3>1, WindowKept
  <2> QED
    BY Zenon, <1>1, <2>2, <2>3 DEF RecordFailure
<1>2. ASSUME NEW r \in Requests, ClearAttempts(r)
      PROVE  WindowInv'
  <2>1. /\ UNCHANGED <<request, late, now>>
        /\ \A s \in Requests : pc[s] = "verify" <=> pc'[s] = "verify"
    BY <1>2 DEF ClearAttempts, Goto, world, history, TypeOK
  <2>2. \A k \in Keys :
           Active(attempts[k], now)' => Active(attempts[k], now)
    <3> SUFFICES ASSUME NEW k \in Keys
                 PROVE  Active(attempts[k], now)' => Active(attempts[k], now)
      OBVIOUS
    <3>1. attempts'[k] \in {attempts[k], NoRow}
      BY <1>2 DEF ClearAttempts, ClearLoginAttempts, TypeOK
    <3>2. ~Active(NoRow, now)
      BY DEF Active, NoRow, TypeOK
    <3> QED
      BY <2>1, <3>1, <3>2
  <2> QED
    BY <2>1, <2>2, WindowKept
<1>3. ASSUME NEW r \in Requests,
             \/ LocalLogin(r) \/ Throttled(r) \/ LookUpUser(r)
             \/ LookUpCredential(r) \/ AcquireArgonPermit(r) \/ TakePermit(r)
             \/ LeaveQueue(r) \/ FailureRecorded(r) \/ ReleasePermit(r)
             \/ IssueSession(r)
      PROVE  WindowInv'
  <2>1. /\ UNCHANGED <<request, late, attempts, now>>
        /\ pc[r] # "verify"
        /\ \E s \in Steps \ {"verify"} : pc' = [pc EXCEPT ![r] = s]
    BY Zenon, <1>3 DEF LocalLogin, Throttled, LookUpUser, LookUpCredential,
                AcquireArgonPermit, TakePermit, LeaveQueue, FailureRecorded,
                ReleasePermit, IssueSession, Goto, Return, Steps, database,
                world, history
  <2>2. \A s \in Requests : pc[s] = "verify" <=> pc'[s] = "verify"
    BY <2>1 DEF TypeOK
  <2> QED
    BY <2>1, <2>2, WindowKept
<1>4. ASSUME \/ \E r \in Requests :
                   BeginFailure(r) \/ EndRequest(r) \/ SpendBudget(r)
             \/ Outage \/ Restore \/ UNCHANGED vars
      PROVE  WindowInv'
  <2>1. UNCHANGED <<pc, request, late, attempts, now>>
    BY Zenon, <1>4 DEF BeginFailure, EndRequest, SpendBudget, Outage, Restore, vars, loginVars,
                database, world, history
  <2> QED
    BY <2>1, WindowKept
<1>5. ASSUME Tick
      PROVE  WindowInv'
  <2>1. UNCHANGED <<pc, request, late, attempts>> /\ now' = now + 1
    BY <1>5 DEF Tick, loginVars, database, history
  <2>2. \A k \in Keys :
           Active(attempts[k], now)' => Active(attempts[k], now)
    BY <2>1 DEF Active, TypeOK, Row
  <2> QED
    BY <2>1, <2>2, WindowKept
<1> QED
  BY <1>1, <1>2, <1>3, <1>4, <1>5, WindowRead, WindowCheck DEF Next, Step

-----------------------------------------------------------------------------
(***************************************************************************)
(* The theorems.                                                           *)
(***************************************************************************)

IndInv == TypeOK /\ HoldersInv /\ WindowInv

\* The inductive invariant holds initially.
LEMMA InitIndInv == Init => IndInv
<1> SUFFICES ASSUME Init PROVE IndInv
  OBVIOUS
<1>1. Holders = {}
  BY DEF Init, Holders, Holding
<1>2. HoldersInv
  BY <1>1, FS_EmptySet, LoginAssumption DEF Init, HoldersInv
<1>3. WindowInv
  BY DEF Init, WindowInv, Active, NoRow
<1> QED
  BY <1>2, <1>3, TypeInit DEF IndInv

\* Every step preserves the inductive invariant.
LEMMA NextIndInv == IndInv /\ [Next]_vars => IndInv'
<1> SUFFICES ASSUME IndInv, [Next]_vars PROVE IndInv'
  OBVIOUS
<1>1. TypeOK'
  BY TypeBefore, TypeAfter, TypeWorld DEF IndInv, Next, Step
<1> QED
  BY <1>1, HoldersStep, WindowStep DEF IndInv

\* The inductive invariant holds of every reachable state.
LEMMA Inductive == Spec => []IndInv
  BY InitIndInv, NextIndInv, PTL DEF Spec

\* Every variable of the login model stays in its type.
THEOREM TypeCorrect == Spec => []TypeOK
<1>1. IndInv => TypeOK
  BY DEF IndInv
<1> QED
  BY <1>1, Inductive, PTL

\* Whatever logins arrive, leave, fail or are refused, the Argon2 semaphore's
\* occupancy is the number of logins holding a permit, and at most the cap.
THEOREM PermitsConserved == Spec => []PermitsMatchHolders
<1>1. IndInv => PermitsMatchHolders
  BY DEF IndInv, HoldersInv, PermitsMatchHolders
<1> QED
  BY <1>1, Inductive, PTL

\* However many logins queue on a key, a window opened on it lets at most the
\* cap less one more of them check a password.
THEOREM BurstBounded == Spec => []LateChecksBounded
<1>1. IndInv => LateChecksBounded
  <2> SUFFICES ASSUME IndInv, NEW k \in Keys, Active(attempts[k], now)
               PROVE  late[k] <= Cap - 1
    BY Zenon DEF LateChecksBounded
  <2>1. late[k] + Cardinality(Pending(k)) <= Cap - 1
    BY SMTT(30) DEF IndInv, WindowInv
  <2>2. Cardinality(Pending(k)) \in Nat /\ late[k] \in Nat
    BY PendingHold DEF IndInv, TypeOK
  <2> QED
    BY SMTT(30), <2>1, <2>2, LoginAssumption
<1> QED
  BY <1>1, Inductive, PTL

-----------------------------------------------------------------------------
(***************************************************************************)
(* The end of a window.                                                    *)
(***************************************************************************)

\* What a step may do to a row: leave it, record a failure over it whose
\* statement began some time ago, or delete it for a login that has come to its
\* clear.
LEMMA RowsStep ==
    ASSUME TypeOK, [Next]_vars, NEW k \in Keys
    PROVE  \/ attempts'[k] = attempts[k] /\ now' \in {now, now + 1}
           \/ \E r \in Requests, t \in 0 .. now :
                 /\ Waits(r, k, t)
                 /\ attempts'[k] = RecordLoginFailure(Settings, attempts[k], t)
                 /\ now' = now
           \/ /\ attempts'[k] = NoRow /\ now' = now
              /\ \E r \in Requests : pc[r] = "clear" /\ k \in KeySet(request[r])
<1>1. ASSUME NEW r \in Requests, RecordFailure(r)
      PROVE  /\ \/ attempts'[k] = attempts[k]
                \/ \E t \in 0 .. now :
                      /\ Waits(r, k, t)
                      /\ attempts'[k] = RecordLoginFailure(Settings, attempts[k], t)
             /\ now' = now
  <2>1. now' = now /\ pc[r] = "record" /\ todo[r] # <<>>
    BY Zenon, <1>1 DEF RecordFailure, world
  <2>2. began[r] \in 0 .. now
    BY <1>1 DEF RecordFailure, TypeOK, NotBegun
  <2>3. \/ attempts' = attempts
        \/ attempts' = [attempts EXCEPT ![Head(todo[r])] =
             RecordLoginFailure(Settings, attempts[Head(todo[r])], began[r])]
    BY Zenon, <1>1 DEF RecordFailure, WriteFailure
  <2>4. \/ attempts'[k] = attempts[k]
        \/ /\ Head(todo[r]) = k
           /\ attempts'[k] = RecordLoginFailure(Settings, attempts[k], began[r])
    BY Zenon, <2>3 DEF TypeOK
  <2> QED
    BY Zenon, <2>1, <2>2, <2>4 DEF Waits
<1>2. ASSUME NEW r \in Requests, ClearAttempts(r)
      PROVE  /\ \/ attempts'[k] = attempts[k]
                \/ attempts'[k] = NoRow /\ pc[r] = "clear" /\ k \in KeySet(request[r])
             /\ now' = now
  BY Zenon, <1>2 DEF ClearAttempts, ClearLoginAttempts, TypeOK, world
<1>3. ASSUME \/ \E r \in Requests :
                   \/ LocalLogin(r) \/ Throttled(r) \/ LookUpUser(r)
                   \/ LookUpCredential(r) \/ AcquireArgonPermit(r)
                   \/ TakePermit(r) \/ LeaveQueue(r)
                   \/ ThrottledHoldingPermit(r) \/ VerifyHoldingPermit(r)
                   \/ BeginFailure(r) \/ FailureRecorded(r) \/ ReleasePermit(r)
                   \/ IssueSession(r) \/ EndRequest(r) \/ SpendBudget(r)
             \/ Tick \/ Outage \/ Restore \/ UNCHANGED vars
      PROVE  attempts' = attempts /\ now' \in {now, now + 1}
  BY Zenon, <1>3 DEF LocalLogin, Throttled, LookUpUser, LookUpCredential,
              AcquireArgonPermit, TakePermit, LeaveQueue,
              ThrottledHoldingPermit, VerifyHoldingPermit, BeginFailure,
              FailureRecorded, ReleasePermit, IssueSession, EndRequest,
              SpendBudget, Tick, Outage, Restore, vars, database, world
<1> QED
  BY Zenon, <1>1, <1>2, <1>3 DEF Next, Step

\* At time t the window of a row ends no later than if its last failure had just
\* been recorded.
EndsBy(row, t) ==
    row.until <= IF row.count = 0 THEN 0 ELSE t + Window(Settings, row.count - 1)

\* So does every key's.
EndInv == \A k \in Keys : EndsBy(attempts[k], now)

\* Time only brings the end of a window nearer.
LEMMA EndsLater ==
    ASSUME NEW row \in Row, NEW t \in Nat, EndsBy(row, t)
    PROVE  EndsBy(row, t + 1)
<1>1. CASE row.count = 0
  BY <1>1 DEF EndsBy
<1>2. CASE row.count # 0
  <2>1. row.until \in Nat /\ row.count - 1 \in Nat
    BY <1>2 DEF Row
  <2>2. Window(Settings, row.count - 1) \in Nat
    BY Zenon, <2>1, OwnWindow
  <2> QED
    BY <1>2, <2>1, <2>2 DEF EndsBy
<1> QED
  BY <1>1, <1>2

\* A failure begun at b and recorded at t ends its window on the curve, and
\* sooner than the window that was there by no more than it waited.
LEMMA EndsOfRecorded ==
    ASSUME NEW row \in Row, NEW t \in Nat, NEW b \in 0 .. t, EndsBy(row, t)
    PROVE  /\ EndsBy(RecordLoginFailure(Settings, row, b), t)
           /\ RecordLoginFailure(Settings, row, b).count >= row.count
           /\ row.until - RecordLoginFailure(Settings, row, b).until <= t - b
<1> DEFINE new == RecordLoginFailure(Settings, row, b)
<1>1. row.count \in Nat /\ row.until \in Nat
  BY DEF Row
<1>2. new.count = row.count + 1 /\ new.until = b + Window(Settings, row.count)
  BY DEF RecordLoginFailure
<1>3. Window(Settings, row.count) \in Nat
  BY Zenon, <1>1, OwnWindow
<1> HIDE DEF new
<1>4. EndsBy(new, t)
  <2>1. new.count # 0 /\ new.count - 1 = row.count
    BY <1>1, <1>2
  <2> QED
    BY <1>2, <1>3, <2>1 DEF EndsBy
<1>5. row.until - new.until <= t - b
  <2>1. CASE row.count = 0
    BY <1>1, <1>2, <1>3, <2>1 DEF EndsBy
  <2>2. CASE row.count # 0
    <3>1. row.count - 1 \in Nat /\ (row.count - 1) + 1 = row.count
      BY <1>1, <2>2
    <3>2. /\ Window(Settings, row.count - 1) \in Nat
          /\ Window(Settings, row.count - 1) <= Window(Settings, row.count)
      BY Zenon, <3>1, OwnWindow
    <3>3. row.until <= t + Window(Settings, row.count - 1)
      BY Zenon, <2>2 DEF EndsBy
    <3> QED
      BY <1>1, <1>2, <1>3, <3>2, <3>3
  <2> QED
    BY <2>1, <2>2
<1> QED
  BY <1>1, <1>2, <1>4, <1>5 DEF new

\* Every step keeps the ends of the windows on the curve.
LEMMA EndStep ==
    ASSUME TypeOK, EndInv, [Next]_vars
    PROVE  EndInv'
<1> SUFFICES ASSUME NEW k \in Keys
             PROVE  EndsBy(attempts'[k], now')
  BY Zenon DEF EndInv
<1>1. attempts[k] \in Row /\ now \in Nat
  BY DEF TypeOK
<1>2. EndsBy(attempts[k], now)
  BY Zenon DEF EndInv
<1>3. EndsBy(NoRow, now)
  BY DEF EndsBy, NoRow
<1> QED
  BY Zenon, <1>1, <1>2, <1>3, RowsStep, EndsLater, EndsOfRecorded

\* The ends of the windows are on the curve in every reachable state.
LEMMA EndsInductive == Spec => []EndInv
<1>1. Init => EndInv
  BY DEF Init, EndInv, EndsBy, NoRow
<1>2. TypeOK /\ EndInv /\ [Next]_vars => EndInv'
  BY EndStep
<1> QED
  BY <1>1, <1>2, TypeCorrect, PTL DEF Spec

\* Backoff, never a lockout, for every configuration the server accepts: a key
\* is never refused for longer than LOGIN_MAX_BACKOFF from now.
THEOREM NoLockout == Spec => []NeverLockedOut
<1>1. TypeOK /\ EndInv => NeverLockedOut
  <2> SUFFICES ASSUME TypeOK, EndInv, NEW k \in Keys
               PROVE  attempts[k].until <= now + MaxBackoff
    BY Zenon DEF NeverLockedOut
  <2>1. attempts[k].count \in Nat /\ attempts[k].until \in Nat /\ now \in Nat
    BY DEF TypeOK, Row
  <2>2. CASE attempts[k].count = 0
    <3>1. attempts[k].until <= 0
      BY Zenon, <2>2 DEF EndInv, EndsBy
    <3> QED
      BY <2>1, <3>1, MaxType
  <2>3. CASE attempts[k].count # 0
    <3>1. attempts[k].until <= now + Window(Settings, attempts[k].count - 1)
      BY Zenon, <2>3 DEF EndInv, EndsBy
    <3>2. attempts[k].count - 1 \in Nat
      BY <2>1, <2>3
    <3>3. /\ Window(Settings, attempts[k].count - 1) \in Nat
          /\ Window(Settings, attempts[k].count - 1) <= MaxBackoff
      BY Zenon, <3>2, OwnWindow
    <3> QED
      BY <2>1, <3>1, <3>3, MaxType
  <2> QED
    BY <2>2, <2>3
<1> QED
  BY <1>1, TypeCorrect, EndsInductive, PTL

-----------------------------------------------------------------------------
(***************************************************************************)
(* One login's own state, and what it leaves in the tables.                *)
(***************************************************************************)

\* The steps up to the password check.
Unchecked == {"new", "throttled", "user", "credential", "acquire", "queued",
              "check", "verify"}

Remaining(r) == {todo[r][i] : i \in DOMAIN todo[r]}

\* resolve answered no User and the dummy hash, or the account's own row; it
\* looks for a credential only of a User it found.
ResolvedInv(r) ==
    /\ \/ found[r] = NotFound
       \/ /\ found[r] = Credential(request[r].email)
          /\ Account[request[r].email] \in {"active", "corrupt"}
    /\ pc[r] = "credential" => Account[request[r].email] # "unknown"

\* An answer is decided at the release at the earliest.
AnswerInv(r) == pc[r] \notin {"release", "done"} => answer[r] = "none"

\* Nothing is recorded before the check; then every key is written, was missed
\* or is still to do, and a 401 leaves none to do.
LedgerInv(r) ==
    /\ pc[r] \in Unchecked => wrote[r] = {} /\ missed[r] = {}
    /\ pc[r] = "record" =>
         KeySet(request[r]) = wrote[r] \cup missed[r] \cup Remaining(r)
    /\ answer[r] = "401" => KeySet(request[r]) = wrote[r] \cup missed[r]

\* Only a password that matched goes on to a session.
VerdictInv(r) ==
    /\ pc[r] \in Unchecked => verdict[r] = "none"
    /\ pc[r] = "record" => verdict[r] = "mismatch"
    /\ pc[r] \in {"clear", "issue"} => verdict[r] = "match"
    /\ pc[r] = "release" /\ answer[r] = "none" => verdict[r] = "match"
    /\ verdict[r] = "match" => Matches(request[r].password, found[r].hash)

LoginInv(r) == ResolvedInv(r) /\ AnswerInv(r) /\ LedgerInv(r) /\ VerdictInv(r)

\* The keys recordFailure walks are the keys the login was throttled on.
LEMMA WalksEveryKey ==
    ASSUME NEW q \in RequestType
    PROVE  {BackoffKeys(q)[i] : i \in DOMAIN BackoffKeys(q)} = KeySet(q)
<1>1. CASE q.ip = NoIp
  <2>1. DOMAIN BackoffKeys(q) = {1}
    BY <1>1 DEF BackoffKeys
  <2>2. BackoffKeys(q)[1] = <<"email", q.email>>
    BY <1>1 DEF BackoffKeys
  <2> QED
    BY <1>1, <2>1, <2>2 DEF KeySet
<1>2. CASE q.ip # NoIp
  <2>1. DOMAIN BackoffKeys(q) = {1, 2}
    BY <1>2 DEF BackoffKeys
  <2>2. /\ BackoffKeys(q)[1] = <<"email", q.email>>
        /\ BackoffKeys(q)[2] = <<"ip", q.ip>>
    BY <1>2 DEF BackoffKeys
  <2> QED
    BY <1>2, <2>1, <2>2 DEF KeySet
<1> QED
  BY <1>1, <1>2

\* One turn of recordFailure's loop takes its key off what remains.
LEMMA HeadAndTail ==
    ASSUME NEW S, NEW q \in Seq(S), q # <<>>
    PROVE  {q[i] : i \in DOMAIN q} =
             {Head(q)} \cup {Tail(q)[i] : i \in DOMAIN Tail(q)}
<1>1. /\ Len(q) \in Nat /\ Len(q) > 0 /\ DOMAIN q = 1 .. Len(q)
      /\ DOMAIN Tail(q) = 1 .. Len(q) - 1
      /\ Head(q) = q[1]
      /\ \A i \in 1 .. Len(q) - 1 : Tail(q)[i] = q[i + 1]
  OBVIOUS
<1>2. ASSUME NEW i \in DOMAIN q
      PROVE  q[i] = Head(q) \/ \E j \in DOMAIN Tail(q) : q[i] = Tail(q)[j]
  <2>1. CASE i = 1
    BY <1>1, <2>1
  <2>2. CASE i # 1
    <3>1. i - 1 \in DOMAIN Tail(q) /\ Tail(q)[i - 1] = q[i]
      BY <1>1, <1>2, <2>2
    <3> QED
      BY <3>1
  <2> QED
    BY <2>1, <2>2
<1>3. ASSUME NEW j \in DOMAIN Tail(q)
      PROVE  \E i \in DOMAIN q : Tail(q)[j] = q[i]
  <2>1. j + 1 \in DOMAIN q /\ q[j + 1] = Tail(q)[j]
    BY <1>1, <1>3
  <2> QED
    BY <2>1
<1>4. 1 \in DOMAIN q /\ Head(q) = q[1]
  BY <1>1
<1>5. ASSUME NEW x
      PROVE  x \in {q[i] : i \in DOMAIN q} <=>
               x \in {Head(q)} \cup {Tail(q)[i] : i \in DOMAIN Tail(q)}
  <2>1. ASSUME x \in {q[i] : i \in DOMAIN q}
        PROVE  x \in {Head(q)} \cup {Tail(q)[i] : i \in DOMAIN Tail(q)}
    BY <1>2, <2>1
  <2>2. ASSUME x \in {Tail(q)[i] : i \in DOMAIN Tail(q)}
        PROVE  x \in {q[i] : i \in DOMAIN q}
    BY <1>3, <2>2
  <2> QED
    BY <1>4, <2>1, <2>2
<1> QED
  BY <1>5

\* s's own state, all LoginInv(s) speaks of.
Untouched(s) ==
    /\ request' = request
    /\ pc'[s] = pc[s] /\ found'[s] = found[s] /\ todo'[s] = todo[s]
    /\ verdict'[s] = verdict[s] /\ answer'[s] = answer[s]
    /\ wrote'[s] = wrote[s] /\ missed'[s] = missed[s]

\* A step that leaves a login's own state alone keeps what is known of it.
LEMMA UntouchedInv ==
    ASSUME NEW s \in Requests, LoginInv(s), Untouched(s)
    PROVE  LoginInv(s)'
  BY Zenon DEF LoginInv, ResolvedInv, AnswerInv, LedgerInv, VerdictInv, Remaining,
         Untouched

\* A failure's statement that begins changes nothing else.
LEMMA BeginsOnly ==
    ASSUME NEW r \in Requests, BeginFailure(r), NEW s \in Requests
    PROVE  Untouched(s)
  BY Zenon DEF BeginFailure, Untouched, loginVars, history

\* A step of one login leaves the others' own state alone.
LEMMA OthersUntouched ==
    ASSUME TypeOK, NEW r \in Requests, LocalLogin(r) \/ Step(r),
           NEW s \in Requests, s # r
    PROVE  Untouched(s)
<1> USE DEF TypeOK, Untouched, Goto, Return, history
<1>1. CASE LocalLogin(r) \/ Throttled(r)
  BY Zenon, <1>1 DEF LocalLogin, Throttled
<1>2. CASE LookUpUser(r)
  BY Zenon, <1>2 DEF LookUpUser
<1>3. CASE LookUpCredential(r)
  BY Zenon, <1>3 DEF LookUpCredential
<1>4. CASE AcquireArgonPermit(r) \/ TakePermit(r) \/ LeaveQueue(r)
  BY Zenon, <1>4 DEF AcquireArgonPermit, TakePermit, LeaveQueue
<1>5. CASE ThrottledHoldingPermit(r) \/ FailureRecorded(r) \/ ReleasePermit(r)
  BY Zenon, <1>5 DEF ThrottledHoldingPermit, FailureRecorded, ReleasePermit
<1>6. CASE VerifyHoldingPermit(r)
  BY Zenon, <1>6 DEF VerifyHoldingPermit
<1>7. CASE RecordFailure(r)
  BY Zenon, <1>7 DEF RecordFailure
<1>8. CASE ClearAttempts(r) \/ IssueSession(r)
  BY Zenon, <1>8 DEF ClearAttempts, IssueSession
<1>9. CASE BeginFailure(r)
  BY Zenon, <1>9, BeginsOnly
<1> QED
  BY Zenon, <1>1, <1>2, <1>3, <1>4, <1>5, <1>6, <1>7, <1>8, <1>9 DEF Step

\* Before the check a login only learns what its password is checked against.
LEMMA OwnBefore ==
    ASSUME TypeOK, NEW r \in Requests, LoginInv(r),
           \/ LocalLogin(r) \/ Throttled(r) \/ LookUpUser(r)
           \/ LookUpCredential(r) \/ AcquireArgonPermit(r)
           \/ TakePermit(r) \/ LeaveQueue(r) \/ ThrottledHoldingPermit(r)
    PROVE  LoginInv(r)'
<1>1. /\ pc[r] \in Unchecked
      /\ request' = request /\ todo' = todo /\ verdict' = verdict
      /\ wrote' = wrote /\ missed' = missed
      /\ \/ \E p \in Unchecked : UNCHANGED answer /\ pc' = [pc EXCEPT ![r] = p]
         \/ \E p \in {"release", "done"}, a \in {"429", "500"} :
               /\ pc' = [pc EXCEPT ![r] = p]
               /\ answer' = [answer EXCEPT ![r] = a]
  BY Zenon DEF LocalLogin, Throttled, LookUpUser, LookUpCredential,
         AcquireArgonPermit, TakePermit, LeaveQueue, ThrottledHoldingPermit,
         Goto, Return, history, Unchecked
<1>2. ResolvedInv(r)'
  <2>1. CASE LookUpCredential(r)
    <3>1. \/ found'[r] = found[r]
          \/ found'[r] = NotFound
          \/ /\ found'[r] = Credential(request[r].email)
             /\ Account[request[r].email] # "dormant"
      BY Zenon, <2>1 DEF LookUpCredential, TypeOK
    <3>2. /\ Account[request[r].email] \in AccountKinds
          /\ Account[request[r].email] # "unknown"
      BY Zenon, <2>1, LoginAssumption
         DEF LookUpCredential, TypeOK, RequestType, LoginInv, ResolvedInv
    <3> QED
      BY Zenon, <1>1, <3>1, <3>2 DEF LoginInv, ResolvedInv, AccountKinds
  <2>2. CASE LookUpUser(r)
    <3>1. /\ found'[r] \in {found[r], NotFound}
          /\ pc'[r] = "credential" => Account[request[r].email] # "unknown"
      BY Zenon, <2>2 DEF LookUpUser, Goto, Return, TypeOK
    <3> QED
      BY Zenon, <1>1, <3>1 DEF LoginInv, ResolvedInv
  <2>3. CASE ~LookUpUser(r) /\ ~LookUpCredential(r)
    <3>1. found' = found /\ pc'[r] # "credential"
      BY Zenon, <2>3 DEF LocalLogin, Throttled, AcquireArgonPermit, TakePermit,
                  LeaveQueue, ThrottledHoldingPermit, Goto, Return, TypeOK
    <3> QED
      BY Zenon, <1>1, <3>1 DEF LoginInv, ResolvedInv
  <2> QED
    BY <2>1, <2>2, <2>3
<1>3. verdict'[r] = "none" /\ wrote'[r] = {} /\ missed'[r] = {}
  BY Zenon, <1>1 DEF LoginInv, LedgerInv, VerdictInv
<1>4. \/ pc'[r] \in Unchecked /\ answer'[r] = "none"
      \/ pc'[r] \in {"release", "done"} /\ answer'[r] \in {"429", "500"}
  BY Zenon, <1>1 DEF LoginInv, AnswerInv, TypeOK, Unchecked
<1> QED
  BY Zenon, <1>2, <1>3, <1>4
     DEF LoginInv, AnswerInv, LedgerInv, VerdictInv, Unchecked

\* The check starts the walk over the keys, or lets the login go on.
LEMMA OwnCheck ==
    ASSUME TypeOK, NEW r \in Requests, LoginInv(r), VerifyHoldingPermit(r)
    PROVE  LoginInv(r)'
<1>1. /\ UNCHANGED <<request, found, answer, wrote, missed>>
      /\ pc[r] = "verify"
  BY Zenon DEF VerifyHoldingPermit
<1>2. answer[r] = "none" /\ wrote[r] = {} /\ missed[r] = {}
  BY Zenon, <1>1 DEF LoginInv, AnswerInv, LedgerInv, Unchecked
<1>3. CASE Matches(request[r].password, found[r].hash)
  <2>1. pc'[r] = "release" /\ verdict'[r] = "match"
    BY Zenon, <1>3 DEF VerifyHoldingPermit, Goto, TypeOK
  <2> QED
    BY Zenon, <1>1, <1>2, <1>3, <2>1
       DEF LoginInv, ResolvedInv, AnswerInv, LedgerInv, VerdictInv, Unchecked
<1>4. CASE ~Matches(request[r].password, found[r].hash)
  <2>1. /\ pc'[r] = "record" /\ verdict'[r] = "mismatch"
        /\ todo'[r] = BackoffKeys(request[r])
    BY Zenon, <1>4 DEF VerifyHoldingPermit, Goto, TypeOK
  <2>2. Remaining(r)' = KeySet(request[r])
    <3> DEFINE walk == BackoffKeys(request[r])
    <3>1. request[r] \in RequestType
      BY SMTT(30) DEF TypeOK
    <3>2. {walk[i] : i \in DOMAIN walk} = KeySet(request[r])
      BY Zenon, <3>1, WalksEveryKey
    <3>3. todo'[r] = walk
      BY SMTT(30), <2>1
    <3> HIDE DEF walk
    <3> QED
      BY Zenon, <3>2, <3>3 DEF Remaining
  <2> QED
    BY Zenon, <1>1, <1>2, <2>1, <2>2
       DEF LoginInv, ResolvedInv, AnswerInv, LedgerInv, VerdictInv, Unchecked
<1> QED
  BY Zenon, <1>3, <1>4

\* A turn of the loop moves its key from what remains to wrote or to missed.
LEMMA OwnRecord ==
    ASSUME TypeOK, NEW r \in Requests, LoginInv(r), RecordFailure(r)
    PROVE  LoginInv(r)'
<1>1. /\ UNCHANGED <<pc, request, found, verdict, answer>>
      /\ pc[r] = "record" /\ todo[r] # <<>>
      /\ todo' = [todo EXCEPT ![r] = Tail(@)]
  BY SMTT(30) DEF RecordFailure
<1>2. wrote'[r] \cup missed'[r] = wrote[r] \cup missed[r] \cup {Head(todo[r])}
  <2>1. CASE AnsweredDetached(r)
    BY Zenon, <2>1 DEF RecordFailure, TypeOK
  <2>2. CASE ~AnsweredDetached(r)
    <3>1. db = "down" \/ r \in spent
      BY Zenon, <2>2 DEF AnsweredDetached, WorkEnded, TypeOK
    <3> QED
      BY SMTT(30), <2>2, <3>1 DEF RecordFailure, TypeOK
  <2> QED
    BY Zenon, <2>1, <2>2
<1>3. todo[r] \in Seq(Keys) /\ todo'[r] = Tail(todo[r])
  BY Zenon, <1>1 DEF TypeOK
<1>4. Remaining(r) = {Head(todo[r])} \cup Remaining(r)'
  <2>1. Remaining(r)' =
          {Tail(todo[r])[i] : i \in DOMAIN Tail(todo[r])}
    BY Zenon, <1>3 DEF Remaining
  <2>2. {todo[r][i] : i \in DOMAIN todo[r]} =
          {Head(todo[r])} \cup {Tail(todo[r])[i] : i \in DOMAIN Tail(todo[r])}
    BY Zenon, <1>1, <1>3, HeadAndTail
  <2> QED
    BY Zenon, <2>1, <2>2 DEF Remaining
<1>5. /\ KeySet(request[r]) = wrote[r] \cup missed[r] \cup Remaining(r)
      /\ answer[r] = "none"
  BY Zenon, <1>1 DEF LoginInv, LedgerInv, AnswerInv
<1>6. KeySet(request[r]) = wrote'[r] \cup missed'[r] \cup Remaining(r)'
  BY Zenon, <1>2, <1>4, <1>5
<1> QED
  BY Zenon, <1>1, <1>5, <1>6
     DEF LoginInv, ResolvedInv, AnswerInv, LedgerInv, VerdictInv, Unchecked

\* Nothing remains of an empty list of keys.
LEMMA NothingLeft ==
    ASSUME NEW r \in Requests, todo[r] = <<>>
    PROVE  Remaining(r) = {}
<1>1. DOMAIN todo[r] = {}
  OBVIOUS
<1> QED
  BY Zenon, <1>1 DEF Remaining

\* The answer after the walk, the release, and the two statements after it.
LEMMA OwnAfter ==
    ASSUME TypeOK, NEW r \in Requests, LoginInv(r),
           \/ FailureRecorded(r) \/ ReleasePermit(r)
           \/ ClearAttempts(r) \/ IssueSession(r)
    PROVE  LoginInv(r)'
<1> USE DEF LoginInv, ResolvedInv, AnswerInv, LedgerInv, VerdictInv, Unchecked
<1>1. CASE FailureRecorded(r)
  <2>1. /\ UNCHANGED <<request, found, todo, verdict, wrote, missed>>
        /\ pc[r] = "record" /\ pc'[r] = "release" /\ answer'[r] = "401"
        /\ todo[r] = <<>>
    BY Zenon, <1>1 DEF FailureRecorded, Goto, history, TypeOK
  <2>2. Remaining(r) = {}
    BY Zenon, <2>1, NothingLeft
  <2> QED
    BY Zenon, <2>1, <2>2
<1>2. CASE ReleasePermit(r)
  <2>1. /\ UNCHANGED <<request, found, todo, verdict, answer, wrote, missed>>
        /\ pc[r] = "release"
        /\ pc'[r] = IF answer[r] = "none" THEN "clear" ELSE "done"
    BY Zenon, <1>2 DEF ReleasePermit, Goto, history, TypeOK
  <2> QED
    BY Zenon, <2>1
<1>3. CASE ClearAttempts(r)
  <2>1. /\ UNCHANGED <<request, found, todo, verdict, answer, wrote, missed>>
        /\ pc[r] = "clear" /\ pc'[r] = "issue"
    BY Zenon, <1>3 DEF ClearAttempts, Goto, history, TypeOK
  <2> QED
    BY Zenon, <2>1
<1>4. CASE IssueSession(r)
  <2>1. /\ UNCHANGED <<request, found, todo, verdict, wrote, missed>>
        /\ pc[r] = "issue" /\ pc'[r] = "done" /\ answer'[r] \in {"204", "500"}
    BY Zenon, <1>4 DEF IssueSession, Goto, Return, history, TypeOK
  <2> QED
    BY Zenon, <2>1
<1> QED
  BY Zenon, <1>1, <1>2, <1>3, <1>4

\* Every step keeps what is known of each login's own progress.
LEMMA LoginStep ==
    ASSUME TypeOK, \A r \in Requests : LoginInv(r), [Next]_vars
    PROVE  \A s \in Requests : LoginInv(s)'
<1> SUFFICES ASSUME NEW s \in Requests PROVE LoginInv(s)'
  OBVIOUS
<1>1. ASSUME NEW r \in Requests, LocalLogin(r) \/ Step(r)
      PROVE  LoginInv(s)'
  <2>1. CASE s = r
    BY Zenon, <1>1, <2>1, OwnBefore, OwnCheck, BeginsOnly, UntouchedInv, OwnRecord,
       OwnAfter DEF Step
  <2>2. CASE s # r
    BY Zenon, <1>1, <2>2, OthersUntouched, UntouchedInv
  <2> QED
    BY <2>1, <2>2
<1>2. ASSUME \/ \E r \in Requests : EndRequest(r) \/ SpendBudget(r)
             \/ Tick \/ Outage \/ Restore \/ UNCHANGED vars
      PROVE  LoginInv(s)'
  <2>1. Untouched(s)
    BY Zenon, <1>2 DEF EndRequest, SpendBudget, Tick, Outage, Restore, vars,
                loginVars, history, Untouched
  <2> QED
    BY <2>1, UntouchedInv
<1> QED
  BY SMTT(30), <1>1, <1>2 DEF Next

\* What a resolved credential and an unresolved one hold.
LEMMA ResolvedFields ==
    /\ NotFound.user = NoUser
    /\ \A e : /\ Credential(e).user = e
              /\ Credential(e).hash = IF Account[e] = "corrupt" THEN "corrupt" ELSE "stored"
  BY DEF NotFound, Credential

\* Sessions are added by IssueSession alone, after a password that matched the
\* hash of the address's own account.
LEMMA SessionStep ==
    ASSUME TypeOK, \A r \in Requests : LoginInv(r), SessionsAreEarned,
           [Next]_vars
    PROVE  SessionsAreEarned'
<1>1. request' = request
  BY ZenonT(40) DEF Next, Step, LocalLogin, Throttled, LookUpUser, LookUpCredential,
         AcquireArgonPermit, TakePermit, LeaveQueue, ThrottledHoldingPermit,
         VerifyHoldingPermit, BeginFailure, RecordFailure, FailureRecorded,
         ReleasePermit, ClearAttempts, IssueSession, EndRequest, SpendBudget, Tick, Outage,
         Restore, vars, loginVars
<1>2. ASSUME NEW r \in Requests, IssueSession(r)
      PROVE  SessionsAreEarned'
  <2>1. /\ pc[r] = "issue"
        /\ Matches(request[r].password, found[r].hash)
    BY Zenon, <1>2 DEF IssueSession, LoginInv, VerdictInv
  <2>2. ASSUME found[r].user # NoUser
        PROVE  /\ found[r].user = request[r].email
               /\ Account[request[r].email] = "active"
               /\ request[r].password = "own"
    <3>1. /\ found[r] = Credential(request[r].email)
          /\ Account[request[r].email] \in {"active", "corrupt"}
      BY Zenon, <2>2, ResolvedFields DEF LoginInv, ResolvedInv
    <3>2. /\ found[r].user = request[r].email
          /\ found[r].hash =
               IF Account[request[r].email] = "corrupt" THEN "corrupt" ELSE "stored"
      BY Zenon, <3>1, ResolvedFields
    <3> QED
      BY Zenon, <2>1, <3>1, <3>2 DEF Matches
  <2>3. \A t \in sessions' :
           \/ t \in sessions
           \/ t = <<r, found[r].user>> /\ found[r].user # NoUser
    <3>1. \/ sessions' = sessions
          \/ /\ found[r].user # NoUser
             /\ sessions' = sessions \cup {<<r, found[r].user>>}
      BY Zenon, <1>2 DEF IssueSession
    <3> QED
      BY <3>1
  <2>4. \A t \in Requests :
           answer'[t] = "204" =>
              \/ answer[t] = "204"
              \/ /\ t = r /\ found[r].user # NoUser
                 /\ <<r, found[r].user>> \in sessions'
    BY Zenon, <1>2 DEF IssueSession, Return, TypeOK
  <2>5. sessions \subseteq sessions'
    BY Zenon, <1>2 DEF IssueSession
  <2>6. ASSUME NEW t \in sessions'
        PROVE  /\ t[2] = request'[t[1]].email
               /\ Account[t[2]] = "active"
               /\ request'[t[1]].password = "own"
    <3>1. CASE t \in sessions
      BY Zenon, <1>1, <3>1 DEF SessionsAreEarned
    <3>2. CASE t = <<r, found[r].user>> /\ found[r].user # NoUser
      <4>1. t[1] = r /\ t[2] = found[r].user
        BY Zenon, <3>2
      <4> QED
        BY Zenon, <1>1, <2>2, <3>2, <4>1
    <3> QED
      BY Zenon, <2>3, <3>1, <3>2
  <2>7. ASSUME NEW t \in Requests, answer'[t] = "204"
        PROVE  <<t, request'[t].email>> \in sessions'
    BY Zenon, <1>1, <2>2, <2>4, <2>5, <2>7 DEF SessionsAreEarned
  <2> QED
    BY Zenon, <2>6, <2>7 DEF SessionsAreEarned
<1>3. ASSUME NEW r \in Requests,
             \/ LocalLogin(r) \/ Throttled(r) \/ LookUpUser(r)
             \/ LookUpCredential(r) \/ AcquireArgonPermit(r)
             \/ TakePermit(r) \/ LeaveQueue(r) \/ ThrottledHoldingPermit(r)
             \/ VerifyHoldingPermit(r) \/ BeginFailure(r) \/ RecordFailure(r)
             \/ FailureRecorded(r) \/ ReleasePermit(r) \/ ClearAttempts(r)
      PROVE  SessionsAreEarned'
  <2>1. sessions' = sessions
    BY Zenon, <1>3 DEF LocalLogin, Throttled, LookUpUser, LookUpCredential,
         AcquireArgonPermit, TakePermit, LeaveQueue, ThrottledHoldingPermit,
         VerifyHoldingPermit, BeginFailure, RecordFailure, FailureRecorded,
         ReleasePermit, ClearAttempts, database
  <2>2. \A t \in Requests : answer'[t] = "204" => answer[t] = "204"
    <3>1. \/ answer' = answer
          \/ answer' = [answer EXCEPT ![r] = "401"]
          \/ answer' = [answer EXCEPT ![r] = "429"]
          \/ answer' = [answer EXCEPT ![r] = "500"]
      BY Zenon, <1>3 DEF LocalLogin, Throttled, LookUpUser, LookUpCredential,
           AcquireArgonPermit, TakePermit, LeaveQueue, ThrottledHoldingPermit,
           VerifyHoldingPermit, BeginFailure, RecordFailure, FailureRecorded,
           ReleasePermit, ClearAttempts, Return, loginVars
    <3> QED
      BY Zenon, <3>1 DEF TypeOK
  <2> QED
    BY Zenon, <1>1, <2>1, <2>2 DEF SessionsAreEarned
<1>4. ASSUME \/ \E r \in Requests : EndRequest(r) \/ SpendBudget(r)
             \/ Tick \/ Outage \/ Restore \/ UNCHANGED vars
      PROVE  SessionsAreEarned'
  <2>1. sessions' = sessions /\ answer' = answer
    BY Zenon, <1>4 DEF EndRequest, SpendBudget, Tick, Outage, Restore, vars,
                loginVars, database
  <2> QED
    BY Zenon, <1>1, <2>1 DEF SessionsAreEarned
<1> QED
  BY Zenon, <1>2, <1>3, <1>4 DEF Next, Step

LoginsInv == (\A r \in Requests : LoginInv(r)) /\ SessionsAreEarned

\* What is known of each login's own progress holds of every reachable state.
LEMMA LoginsInductive == Spec => []LoginsInv
<1>1. Init => LoginsInv
  <2> SUFFICES ASSUME Init PROVE LoginsInv
    OBVIOUS
  <2>1. ASSUME NEW r \in Requests
        PROVE  LoginInv(r)
    <3>1. /\ pc[r] = "new" /\ found[r] = NotFound /\ verdict[r] = "none"
          /\ answer[r] = "none" /\ wrote[r] = {} /\ missed[r] = {}
      BY Zenon DEF Init
    <3>2. ResolvedInv(r) /\ AnswerInv(r)
      BY Zenon, <3>1 DEF ResolvedInv, AnswerInv
    <3>3. LedgerInv(r) /\ VerdictInv(r)
      BY Zenon, <3>1 DEF LedgerInv, VerdictInv
    <3> QED
      BY Zenon, <3>2, <3>3 DEF LoginInv
  <2>2. SessionsAreEarned
    BY Zenon DEF Init, SessionsAreEarned
  <2> QED
    BY Zenon, <2>1, <2>2 DEF LoginsInv
<1>2. TypeOK /\ LoginsInv /\ [Next]_vars => LoginsInv'
  <2> SUFFICES ASSUME TypeOK, LoginsInv, [Next]_vars PROVE LoginsInv'
    OBVIOUS
  <2>1. \A r \in Requests : LoginInv(r)'
    BY LoginStep DEF LoginsInv
  <2>2. SessionsAreEarned'
    BY SessionStep DEF LoginsInv
  <2> QED
    BY <2>1, <2>2 DEF LoginsInv
<1> QED
  BY <1>1, <1>2, TypeCorrect, PTL DEF Spec

\* Every checked and refused password is counted on each of its keys, save a
\* write the database or the fresh budget refused, for any number of logins.
THEOREM GuessesCounted == Spec => []RefusedGuessIsCounted
<1>1. LoginsInv => RefusedGuessIsCounted
  BY Zenon DEF LoginsInv, LoginInv, LedgerInv, RefusedGuessIsCounted
<1> QED
  BY <1>1, LoginsInductive, PTL

\* A session row belongs to the User whose own password was submitted, and a 204
\* has its row, for any number of logins and any accounts.
THEOREM SessionsEarned == Spec => []SessionsAreEarned
<1>1. LoginsInv => SessionsAreEarned
  BY DEF LoginsInv
<1> QED
  BY <1>1, LoginsInductive, PTL

\* A failure stands until a login on its key whose password matched clears it, in
\* whatever order the failures of a burst begin and are written.  The next window
\* is at least as long as the last, so it ends sooner only by as much as its
\* statement began before the row was its own.
THEOREM FailuresKept == Spec => FailuresStand
<1> DEFINE Stands(k) ==
      \/ /\ attempts'[k].count >= attempts[k].count
         /\ \/ attempts'[k].until >= attempts[k].until
            \/ \E r \in Requests, t \in 0 .. now :
                  /\ Waits(r, k, t)
                  /\ attempts[k].until - attempts'[k].until <= now - t
      \/ \E r \in Requests : /\ pc[r] = "clear" /\ k \in KeySet(request[r])
                             /\ Matches(request[r].password, found[r].hash)
<1>1. TypeOK /\ EndInv /\ LoginsInv /\ [Next]_vars => [\A k \in Keys : Stands(k)]_vars
  <2> SUFFICES ASSUME TypeOK, EndInv, LoginsInv, [Next]_vars, NEW k \in Keys
               PROVE  Stands(k)
    BY Zenon
  <2>1. attempts[k] \in Row /\ now \in Nat /\ EndsBy(attempts[k], now)
    BY Zenon DEF TypeOK, EndInv
  <2>2. attempts[k].count >= attempts[k].count /\ attempts[k].until >= attempts[k].until
    BY <2>1 DEF Row
  <2>3. \A r \in Requests : pc[r] = "clear" => Matches(request[r].password, found[r].hash)
    BY Zenon DEF LoginsInv, LoginInv, VerdictInv
  <2> QED
    BY Zenon, <2>1, <2>2, <2>3, RowsStep, EndsOfRecorded
<1> QED
  BY <1>1, TypeCorrect, EndsInductive, LoginsInductive, PTL DEF Spec, FailuresStand

-----------------------------------------------------------------------------
(***************************************************************************)
(* The logins as callers of the permits.                                   *)
(***************************************************************************)

\* The logins waiting in acquireArgonPermit's select.
Queued == {r \in Requests : pc[r] = "queued"}

\* The abstract pool that ArgonPermits implements, as the logins use it.
Pool == INSTANCE PermitPool WITH Callers <- Requests, asking <- Queued, holding <- Holders

\* A login that moves between two steps off the queue leaves it as it is.
LEMMA SameQueued ==
    ASSUME TypeOK, NEW r \in Requests, NEW s, s # "queued", pc[r] # "queued",
           pc' = [pc EXCEPT ![r] = s]
    PROVE  Queued' = Queued
  BY DEF TypeOK, Queued

\* Joining the queue asks for a permit, leaving it gives up or is granted one,
\* releasePermit returns it, and nothing else touches the pool.
LEMMA PoolStep ==
    ASSUME TypeOK, HoldersInv, [Next]_vars
    PROVE  [Pool!Next]_(Pool!pool)
<1>0. /\ "acquire" # "queued" /\ "clear" # "queued" /\ "done" # "queued"
      /\ "release" # "queued"
      /\ {"acquire", "queued", "done"} \cap Holding = {}
  BY DEF Holding
<1>1. CASE Queued' = Queued /\ Holders' = Holders
  BY <1>1 DEF Pool!pool
<1>2. ASSUME NEW r \in Requests, AcquireArgonPermit(r)
      PROVE  \/ Queued' = Queued /\ Holders' = Holders
             \/ Pool!Ask(r)
  <2>1. pc[r] = "acquire" /\ (Goto(r, "done") \/ Goto(r, "queued"))
    BY Zenon, <1>2 DEF AcquireArgonPermit, Return
  <2>2. r \notin Queued /\ r \notin Holders
    BY <2>1 DEF Queued, Holders, Holding
  <2>3. Holders' = Holders
    BY Zenon, <1>0, <2>1, SameHolders DEF Goto
  <2>4. CASE Goto(r, "done")
    BY Zenon, <1>0, <2>1, <2>3, <2>4, SameQueued DEF Goto
  <2>5. CASE Goto(r, "queued")
    <3>1. Queued' = Queued \cup {r}
      BY <2>5 DEF Goto, Queued, TypeOK
    <3> QED
      BY Zenon, <2>2, <2>3, <3>1 DEF Pool!Ask
  <2> QED
    BY Zenon, <2>1, <2>4, <2>5
<1>3. ASSUME NEW r \in Requests, TakePermit(r)
      PROVE  Pool!Grant(r)
  <2>1. r \in Queued /\ Queued' = Queued \ {r}
    BY <1>3 DEF TakePermit, Goto, Queued, TypeOK
  <2>2. Holders' = Holders \cup {r}
    BY <1>3 DEF TakePermit, Goto, Holders, Holding, TypeOK
  <2>3. Cardinality(Holders) < Cap
    BY Zenon, <1>3 DEF TakePermit, HoldersInv
  <2> QED
    BY Zenon, <2>1, <2>2, <2>3 DEF Pool!Grant, Pool!Cardinality, Cardinality
<1>4. ASSUME NEW r \in Requests, LeaveQueue(r)
      PROVE  Pool!GiveUp(r)
  <2>1. r \in Queued /\ Queued' = Queued \ {r}
    BY <1>4 DEF LeaveQueue, Return, Goto, Queued, TypeOK
  <2>2. Holders' = Holders
    BY Zenon, <1>0, <1>4, SameHolders DEF LeaveQueue, Return, Goto
  <2> QED
    BY Zenon, <2>1, <2>2 DEF Pool!GiveUp
<1>5. ASSUME NEW r \in Requests, ReleasePermit(r)
      PROVE  Pool!Release(r)
  <2>1. r \in Holders /\ Holders' = Holders \ {r}
    BY <1>5 DEF ReleasePermit, Goto, Holders, Holding, TypeOK
  <2>2. Queued' = Queued
    <3>1. pc[r] # "queued" /\ (Goto(r, "clear") \/ Goto(r, "done"))
      BY Zenon, <1>0, <1>5 DEF ReleasePermit
    <3> QED
      BY Zenon, <1>0, <3>1, SameQueued DEF Goto
  <2> QED
    BY Zenon, <2>1, <2>2 DEF Pool!Release
<1>6. ASSUME NEW r \in Requests,
             \/ LocalLogin(r) \/ Throttled(r) \/ LookUpUser(r)
             \/ LookUpCredential(r) \/ ClearAttempts(r) \/ IssueSession(r)
      PROVE  Queued' = Queued /\ Holders' = Holders
  <2> DEFINE Outside == {"new", "throttled", "user", "credential", "acquire",
                         "clear", "issue", "done"}
  <2>1. pc[r] \in Outside
    BY Zenon, <1>6 DEF LocalLogin, Throttled, LookUpUser, LookUpCredential,
                ClearAttempts, IssueSession
  <2>2. \E s \in Outside : pc' = [pc EXCEPT ![r] = s]
    BY Zenon, <1>6 DEF LocalLogin, Throttled, LookUpUser, LookUpCredential,
                ClearAttempts, IssueSession, Return, Goto
  <2>3. \A s \in Outside : s # "queued" /\ s \notin Holding
    BY DEF Holding
  <2> HIDE DEF Outside
  <2> QED
    BY Zenon, <2>1, <2>2, <2>3, SameQueued, SameHolders
<1>7. ASSUME NEW r \in Requests,
             \/ ThrottledHoldingPermit(r) \/ VerifyHoldingPermit(r)
             \/ FailureRecorded(r)
      PROVE  Queued' = Queued /\ Holders' = Holders
  <2>1. /\ pc[r] \in Holding
        /\ \E s \in Holding : pc' = [pc EXCEPT ![r] = s]
    BY Zenon, <1>7 DEF ThrottledHoldingPermit, VerifyHoldingPermit, FailureRecorded,
                Goto, Holding
  <2>2. "queued" \notin Holding
    BY DEF Holding
  <2> QED
    BY Zenon, <2>1, <2>2, SameQueued, SameHolders
<1>8. ASSUME \/ \E r \in Requests : \/ BeginFailure(r) \/ RecordFailure(r)
                                   \/ EndRequest(r) \/ SpendBudget(r)
             \/ Tick \/ Outage \/ Restore \/ UNCHANGED vars
      PROVE  Queued' = Queued /\ Holders' = Holders
  <2>1. pc' = pc
    BY Zenon, <1>8 DEF BeginFailure, RecordFailure, EndRequest, SpendBudget, Tick,
                Outage, Restore, vars, loginVars
  <2> QED
    BY Zenon, <2>1 DEF Queued, Holders
<1> QED
  BY Zenon, <1>1, <1>2, <1>3, <1>4, <1>5, <1>6, <1>7, <1>8 DEF Next, Step, Pool!Next

\* The logins use the Argon2 permits as the pool allows: for any number of them,
\* one holds a permit only after queueing for it, never beyond the cap, and
\* leaves the pool by giving up or by one release.
THEOREM LoginsUseThePool == Spec => Pool!Spec
<1>1. Init => Pool!Init
  BY DEF Init, Pool!Init, Queued, Holders, Holding
<1>2. IndInv /\ [Next]_vars => [Pool!Next]_(Pool!pool)
  BY PoolStep DEF IndInv
<1> QED
  BY <1>1, <1>2, Inductive, PTL DEF Spec, Pool!Spec

-----------------------------------------------------------------------------
(***************************************************************************)
(* That only a checked password counts: the proof that a key never holds   *)
(* more failures than passwords were checked and refused on it.            *)
(*                                                                         *)
(* It is not inductive: a refused login half way through its keys has not  *)
(* counted on the rest.  So a key's failures are bounded by the refused    *)
(* logins whose walk over their keys has passed it.                        *)
(***************************************************************************)

Mismatched == {r \in Requests : verdict[r] = "mismatch"}

\* The refused logins whose walk has passed k.
Walked(k) ==
    {r \in Mismatched : /\ k \in KeySet(request[r])
                        /\ ~ (pc[r] = "record" /\ k \in Remaining(r))}

\* A walk meets no key twice.
WalksOnce == \A r \in Requests : \A i, j \in DOMAIN todo[r] : todo[r][i] = todo[r][j] => i = j

\* A row's failures are walks that passed it: each login adds at most one.
CountInv ==
    /\ IsFiniteSet(Mismatched)
    /\ WalksOnce
    /\ \A k \in Keys : attempts[k].count <= Cardinality(Walked(k))

\* The keys of one request are distinct.
LEMMA KeysDistinct ==
    ASSUME NEW q \in RequestType
    PROVE  \A i, j \in DOMAIN BackoffKeys(q) :
               BackoffKeys(q)[i] = BackoffKeys(q)[j] => i = j
  BY DEF BackoffKeys

\* The rest of a walk that meets no key twice does not meet its first again.
LEMMA TailDistinct ==
    ASSUME NEW S, NEW q \in Seq(S), q # <<>>,
           \A i, j \in DOMAIN q : q[i] = q[j] => i = j
    PROVE  /\ \A i, j \in DOMAIN Tail(q) : Tail(q)[i] = Tail(q)[j] => i = j
           /\ Head(q) \notin {Tail(q)[i] : i \in DOMAIN Tail(q)}
<1>1. /\ Len(q) \in Nat /\ Len(q) > 0 /\ DOMAIN q = 1 .. Len(q)
      /\ DOMAIN Tail(q) = 1 .. Len(q) - 1
      /\ Head(q) = q[1]
      /\ \A i \in 1 .. Len(q) - 1 : Tail(q)[i] = q[i + 1]
  OBVIOUS
<1>2. ASSUME NEW i \in DOMAIN Tail(q), NEW j \in DOMAIN Tail(q), Tail(q)[i] = Tail(q)[j]
      PROVE  i = j
  <2>1. /\ i + 1 \in DOMAIN q /\ j + 1 \in DOMAIN q /\ q[i + 1] = q[j + 1]
    BY <1>1, <1>2
  <2> QED
    BY <1>1, <2>1
<1>3. ASSUME NEW i \in DOMAIN Tail(q) PROVE Tail(q)[i] # Head(q)
  <2>1. i + 1 \in DOMAIN q /\ 1 \in DOMAIN q /\ Tail(q)[i] = q[i + 1] /\ i + 1 # 1
    BY <1>1
  <2> QED
    BY <1>1, <2>1
<1> QED
  BY <1>2, <1>3

\* One more failure at most, and one more login past the key.
LEMMA OneEach ==
    ASSUME NEW n \in Nat, NEW m \in Nat, n <= m, NEW n2, n2 = n \/ n2 = n + 1,
           NEW m2, m2 = m + 1
    PROVE  n2 <= m2
  OBVIOUS

\* A step that moves no login into or out of its walk passes no key, and one
\* that adds no failure keeps the count.
LEMMA WalkAlone ==
    ASSUME TypeOK, CountInv, UNCHANGED <<request, verdict, todo>>,
           \A s \in Requests :
               pc'[s] = "record" <=> pc[s] = "record",
           \A k \in Keys : attempts'[k].count \in Nat /\ attempts'[k].count <= attempts[k].count
    PROVE  CountInv'
<1>1. Mismatched' = Mismatched /\ \A k : Walked(k)' = Walked(k)
  BY Zenon DEF Mismatched, Walked, Remaining
<1>2. WalksOnce'
  BY Zenon DEF CountInv, WalksOnce
<1>3. ASSUME NEW k \in Keys PROVE attempts'[k].count <= Cardinality(Walked(k)')
  <2>1. IsFiniteSet(Walked(k)) /\ attempts[k].count <= Cardinality(Walked(k))
    BY Zenon, FS_Subset DEF CountInv, Walked
  <2>2. Cardinality(Walked(k)) \in Nat
    BY Zenon, <2>1, FS_CardinalityType
  <2>3. attempts[k].count \in Nat
    BY Zenon DEF TypeOK, Row
  <2>4. Walked(k)' = Walked(k)
    BY Zenon, <1>1
  <2> QED
    BY SMTT(30), <2>1, <2>2, <2>3, <2>4
<1> QED
  BY Zenon, <1>1, <1>2, <1>3 DEF CountInv

\* The check begins a walk that has passed no key.
LEMMA CountCheck ==
    ASSUME TypeOK, CountInv, NEW r \in Requests, LoginInv(r), VerifyHoldingPermit(r)
    PROVE  CountInv'
<1>1. /\ pc[r] = "verify" /\ verdict[r] = "none"
      /\ request' = request /\ attempts' = attempts
  BY Zenon DEF VerifyHoldingPermit, database, LoginInv, VerdictInv, Unchecked
<1>2. CASE Matches(request[r].password, found[r].hash)
  <2>1. /\ pc' = [pc EXCEPT ![r] = "release"] /\ todo' = todo
        /\ verdict' = [verdict EXCEPT ![r] = "match"]
    BY Zenon, <1>2 DEF VerifyHoldingPermit, Goto
  <2>2. /\ \A s \in Requests : verdict'[s] = "mismatch" <=> verdict[s] = "mismatch"
        /\ \A s \in Requests : pc'[s] = "record" <=> pc[s] = "record"
    BY Zenon, <1>1, <2>1 DEF TypeOK
  <2>3. Mismatched' = Mismatched /\ \A k : Walked(k)' = Walked(k)
    <3>1. todo' = todo
      BY Zenon, <2>1
    <3>2. request' = request
      BY Zenon, <1>1
    <3> QED
      BY Zenon, <2>2, <3>1, <3>2 DEF Mismatched, Walked, Remaining
  <2> QED
    BY Zenon, <1>1, <2>1, <2>3 DEF CountInv, WalksOnce
<1>3. CASE ~ Matches(request[r].password, found[r].hash)
  <2>1. /\ pc' = [pc EXCEPT ![r] = "record"]
        /\ verdict' = [verdict EXCEPT ![r] = "mismatch"]
        /\ todo' = [todo EXCEPT ![r] = BackoffKeys(request[r])]
    BY Zenon, <1>3 DEF VerifyHoldingPermit, Goto
  <2>2. /\ pc'[r] = "record" /\ verdict'[r] = "mismatch"
        /\ todo'[r] = BackoffKeys(request[r])
        /\ \A s \in Requests \ {r} :
               pc'[s] = pc[s] /\ verdict'[s] = verdict[s] /\ todo'[s] = todo[s]
    BY Zenon, <2>1 DEF TypeOK
  <2>3. Mismatched' = Mismatched \cup {r}
    BY Zenon, <2>2 DEF Mismatched
  <2>4. IsFiniteSet(Mismatched')
    BY Zenon, <2>3, FS_AddElement DEF CountInv
  <2>5. request[r] \in RequestType
    BY Zenon DEF TypeOK
  <2>6. Remaining(r)' = KeySet(request[r])
    <3> DEFINE walk == BackoffKeys(request[r])
    <3>1. {walk[i] : i \in DOMAIN walk} = KeySet(request[r])
      BY Zenon, <2>5, WalksEveryKey
    <3>2. todo'[r] = walk
      BY Zenon, <2>2
    <3> HIDE DEF walk
    <3> QED
      BY Zenon, <3>1, <3>2 DEF Remaining
  <2>7. ASSUME NEW k \in Keys PROVE Walked(k)' = Walked(k)
    <3>1. \A s \in Requests \ {r} : s \in Walked(k)' <=> s \in Walked(k)
      <4>1. ASSUME NEW s \in Requests \ {r}
            PROVE  /\ pc'[s] = pc[s] /\ verdict'[s] = verdict[s]
                   /\ request'[s] = request[s] /\ Remaining(s)' = Remaining(s)
        BY Zenon, <1>1, <2>2 DEF Remaining
      <4> QED
        BY Zenon, <4>1 DEF Walked, Mismatched
    <3>2. r \notin Walked(k)' /\ r \notin Walked(k)
      <4>1. r \notin Walked(k)
        BY Zenon, <1>1 DEF Walked, Mismatched
      <4>2. r \notin Walked(k)'
        BY Zenon, <1>1, <2>2, <2>6 DEF Walked
      <4> QED
        BY <4>1, <4>2
    <3>3. Walked(k)' \subseteq Requests /\ Walked(k) \subseteq Requests
      BY Zenon DEF Walked, Mismatched
    <3> QED
      BY SMTT(30), <3>1, <3>2, <3>3
  <2>8. WalksOnce'
    <3>1. \A i, j \in DOMAIN BackoffKeys(request[r]) :
              BackoffKeys(request[r])[i] = BackoffKeys(request[r])[j] => i = j
      BY Zenon, <2>5, KeysDistinct
    <3> QED
      BY Zenon, <2>2, <3>1 DEF WalksOnce, CountInv
  <2> QED
    BY Zenon, <1>1, <2>4, <2>7, <2>8 DEF CountInv
<1> QED
  BY Zenon, <1>2, <1>3

\* A turn of the walk passes one key, and adds at most one failure to it.
LEMMA CountRecord ==
    ASSUME TypeOK, CountInv, NEW r \in Requests, LoginInv(r), RecordFailure(r)
    PROVE  CountInv'
<1>0. PICK key : key = Head(todo[r])
  OBVIOUS
<1>1. /\ UNCHANGED <<pc, request, verdict>>
      /\ pc[r] = "record" /\ todo[r] # <<>> /\ verdict[r] = "mismatch"
      /\ todo' = [todo EXCEPT ![r] = Tail(@)]
  BY Zenon DEF RecordFailure, LoginInv, VerdictInv
<1>2. /\ todo[r] \in Seq(Keys) /\ todo'[r] = Tail(todo[r])
      /\ \A s \in Requests \ {r} : todo'[s] = todo[s]
  BY SMTT(30), <1>1 DEF TypeOK
<1>3. /\ \A i, j \in DOMAIN Tail(todo[r]) : Tail(todo[r])[i] = Tail(todo[r])[j] => i = j
      /\ key \notin {Tail(todo[r])[i] : i \in DOMAIN Tail(todo[r])}
  <2>1. \A i, j \in DOMAIN todo[r] : todo[r][i] = todo[r][j] => i = j
    BY Zenon DEF CountInv, WalksOnce
  <2> QED
    BY Zenon, <1>0, <1>1, <1>2, <2>1, TailDistinct
<1>4. Remaining(r) = {key} \cup Remaining(r)' /\ key \notin Remaining(r)'
  <2>1. Remaining(r)' = {Tail(todo[r])[i] : i \in DOMAIN Tail(todo[r])}
    BY Zenon, <1>2 DEF Remaining
  <2>2. {todo[r][i] : i \in DOMAIN todo[r]} =
          {key} \cup {Tail(todo[r])[i] : i \in DOMAIN Tail(todo[r])}
    BY ZenonT(40), <1>0, <1>1, <1>2, HeadAndTail
  <2> QED
    BY Zenon, <1>3, <2>1, <2>2 DEF Remaining
<1>5. key \in KeySet(request[r]) /\ key \in Keys
  <2>1. KeySet(request[r]) = wrote[r] \cup missed[r] \cup Remaining(r)
    BY Zenon, <1>1 DEF LoginInv, LedgerInv
  <2>2. KeySet(request[r]) \subseteq Keys
    BY Zenon, KeysOfRequest DEF TypeOK
  <2> QED
    BY Zenon, <1>4, <2>1, <2>2
<1>6. \/ attempts' = attempts
      \/ attempts' = [attempts EXCEPT ![key] =
                         RecordLoginFailure(Settings, attempts[key], began[r])]
  BY Zenon, <1>0 DEF RecordFailure, WriteFailure
<1>7. /\ \A k \in Keys : attempts[k].count \in Nat
      /\ \A k \in Keys \ {key} : attempts'[k] = attempts[k]
      /\ attempts'[key].count = attempts[key].count
         \/ attempts'[key].count = attempts[key].count + 1
  <2>1. RecordLoginFailure(Settings, attempts[key], began[r]).count = attempts[key].count + 1
    BY Zenon DEF RecordLoginFailure
  <2> QED
    BY Zenon, <1>5, <1>6, <2>1 DEF TypeOK, Row
<1>8. \A s \in Requests \ {r} : Remaining(s)' = Remaining(s)
  BY Zenon, <1>2 DEF Remaining
<1>9. Mismatched' = Mismatched /\ r \in Mismatched
  BY Zenon, <1>1 DEF Mismatched
<1>10. \A k \in Keys \ {key} : Walked(k)' = Walked(k)
  <2> SUFFICES ASSUME NEW k \in Keys, k # key PROVE Walked(k)' = Walked(k)
    BY Zenon
  <2>1. k \in Remaining(r)' <=> k \in Remaining(r)
    BY Zenon, <1>4
  <2>2. \A s \in Requests : k \in Remaining(s)' <=> k \in Remaining(s)
    BY Zenon, <1>8, <2>1
  <2> QED
    BY Zenon, <1>1, <1>9, <2>2 DEF Walked, Mismatched
<1>11. Walked(key)' = Walked(key) \cup {r} /\ r \notin Walked(key)
  <2>1. r \notin Walked(key)
    BY Zenon, <1>1, <1>4 DEF Walked
  <2>2. r \in Walked(key)'
    BY Zenon, <1>1, <1>4, <1>5, <1>9 DEF Walked
  <2>3. \A s \in Requests \ {r} : s \in Walked(key)' <=> s \in Walked(key)
    BY Zenon, <1>1, <1>8, <1>9 DEF Walked
  <2>4. Walked(key)' \subseteq Requests /\ Walked(key) \subseteq Requests
    BY Zenon DEF Walked, Mismatched
  <2> QED
    BY Zenon, <2>1, <2>2, <2>3, <2>4
<1>12. ASSUME NEW k \in Keys PROVE attempts'[k].count <= Cardinality(Walked(k)')
  <2>1. IsFiniteSet(Walked(k)) /\ attempts[k].count <= Cardinality(Walked(k))
    BY Zenon, FS_Subset DEF CountInv, Walked
  <2>2. CASE k # key
    BY Zenon, <1>7, <1>10, <2>1, <2>2
  <2>3. CASE k = key
    <3>1. Cardinality(Walked(key)') = Cardinality(Walked(key)) + 1
      BY Zenon, <1>11, <2>1, <2>3, FS_AddElement
    <3>2. Cardinality(Walked(key)) \in Nat
      BY Zenon, <2>1, <2>3, FS_CardinalityType
    <3>3. attempts[key].count \in Nat /\ attempts[key].count <= Cardinality(Walked(key))
      BY Zenon, <1>5, <1>7, <2>1, <2>3
    <3>4. \/ attempts'[key].count = attempts[key].count
          \/ attempts'[key].count = attempts[key].count + 1
      BY Zenon, <1>7
    <3>5. attempts'[key].count <= Cardinality(Walked(key)')
      BY Zenon, <3>1, <3>2, <3>3, <3>4, OneEach
    <3> QED
      BY Zenon, <2>3, <3>5
  <2> QED
    BY Zenon, <2>2, <2>3
<1>13. WalksOnce'
  BY Zenon, <1>2, <1>3 DEF WalksOnce, CountInv
<1> QED
  BY Zenon, <1>9, <1>12, <1>13 DEF CountInv

\* A login that goes from one step outside the walk to another.
LEMMA OutsideWalk ==
    ASSUME TypeOK, NEW r \in Requests, NEW p, pc[r] # "record", p # "record",
           pc' = [pc EXCEPT ![r] = p]
    PROVE  \A s \in Requests : pc'[s] = "record" <=> pc[s] = "record"
<1>1. pc'[r] = p
  BY SMTT(30) DEF TypeOK
<1>2. \A s \in Requests \ {r} : pc'[s] = pc[s]
  BY SMTT(30) DEF TypeOK
<1> QED
  BY Zenon, <1>1, <1>2

\* Zero and the number itself are at most a natural number.
LEMMA AtMost == \A n \in Nat : 0 <= n /\ n <= n
  OBVIOUS

\* Every other step passes no key.
LEMMA CountStep ==
    ASSUME TypeOK, TypeOK', CountInv, \A r \in Requests : LoginInv(r), [Next]_vars
    PROVE  CountInv'
<1>0. /\ \A k \in Keys : attempts[k].count \in Nat
      /\ \A k \in Keys : attempts'[k].count \in Nat
  BY Zenon DEF TypeOK, Row
<1>a. ASSUME attempts' = attempts
      PROVE  \A k \in Keys : attempts'[k].count \in Nat /\ attempts'[k].count <= attempts[k].count
  BY Zenon, <1>0, <1>a, AtMost
<1>1. ASSUME NEW r \in Requests,
             \/ LocalLogin(r) \/ Throttled(r) \/ LookUpUser(r)
             \/ LookUpCredential(r) \/ AcquireArgonPermit(r) \/ TakePermit(r)
             \/ LeaveQueue(r) \/ ThrottledHoldingPermit(r)
      PROVE  CountInv'
  <2>1. /\ UNCHANGED <<request, verdict, todo, attempts>> /\ pc[r] # "record"
        /\ \E p \in Unchecked \cup {"release", "done"} : pc' = [pc EXCEPT ![r] = p]
    BY Zenon, <1>1 DEF LocalLogin, Throttled, LookUpUser, LookUpCredential,
         AcquireArgonPermit, TakePermit, LeaveQueue, ThrottledHoldingPermit,
         Goto, Return, history, database, Unchecked
  <2>2. \A s \in Requests : pc'[s] = "record" <=> pc[s] = "record"
    <3>1. PICK p \in Unchecked \cup {"release", "done"} : pc' = [pc EXCEPT ![r] = p]
      BY Zenon, <2>1
    <3>2. p # "record" /\ pc[r] # "record"
      BY SMTT(30), <2>1 DEF Unchecked
    <3> QED
      BY Zenon, <3>1, <3>2, OutsideWalk
  <2> QED
    BY Zenon, <1>a, <2>1, <2>2, WalkAlone
<1>2. ASSUME NEW r \in Requests, FailureRecorded(r) PROVE CountInv'
  <2>1. /\ UNCHANGED <<request, verdict, todo, attempts>>
        /\ pc[r] = "record" /\ pc' = [pc EXCEPT ![r] = "release"] /\ todo[r] = <<>>
    BY Zenon, <1>2 DEF FailureRecorded, Goto, history, database
  <2>2. pc'[r] = "release" /\ \A s \in Requests \ {r} : pc'[s] = pc[s]
    <3>1. pc \in [Requests -> Steps]
      BY Zenon DEF TypeOK
    <3> QED
      BY Zenon, <2>1, <3>1
  <2>3. Remaining(r) = {}
    BY Zenon, <2>1, NothingLeft
  <2>4. Mismatched' = Mismatched /\ \A k : Walked(k)' = Walked(k)
    <3>1. \A s \in Requests : Remaining(s)' = Remaining(s)
      BY Zenon, <2>1 DEF Remaining
    <3>2. Mismatched' = Mismatched
      BY Zenon, <2>1 DEF Mismatched
    <3>3. request' = request
      BY Zenon, <2>1
    <3>4. \A s \in Requests : \A k :
              pc'[s] = "record" /\ k \in Remaining(s) <=> pc[s] = "record" /\ k \in Remaining(s)
      BY Zenon, <2>2, <2>3
    <3> QED
      BY Zenon, <3>1, <3>2, <3>3, <3>4 DEF Mismatched, Walked
  <2> QED
    BY Zenon, <2>1, <2>4 DEF CountInv, WalksOnce
<1>3. ASSUME NEW r \in Requests, ReleasePermit(r) \/ IssueSession(r) PROVE CountInv'
  <2>1. /\ UNCHANGED <<request, verdict, todo, attempts>> /\ pc[r] # "record"
        /\ \E p \in {"clear", "done"} : pc' = [pc EXCEPT ![r] = p]
    BY Zenon, <1>3 DEF ReleasePermit, IssueSession, Goto, Return, history, database
  <2>2. \A s \in Requests : pc'[s] = "record" <=> pc[s] = "record"
    <3>1. PICK p \in {"clear", "done"} : pc' = [pc EXCEPT ![r] = p]
      BY Zenon, <2>1
    <3>2. p # "record"
      OBVIOUS
    <3> QED
      BY Zenon, <2>1, <3>1, <3>2, OutsideWalk
  <2> QED
    BY Zenon, <1>a, <2>1, <2>2, WalkAlone
<1>4. ASSUME NEW r \in Requests, ClearAttempts(r) PROVE CountInv'
  <2>1. /\ UNCHANGED <<request, verdict, todo>>
        /\ pc[r] = "clear" /\ pc' = [pc EXCEPT ![r] = "issue"]
    BY Zenon, <1>4 DEF ClearAttempts, Goto, history, database
  <2>2. \A s \in Requests : pc'[s] = "record" <=> pc[s] = "record"
    <3>1. pc[r] # "record" /\ "issue" # "record"
      BY Zenon, <2>1
    <3> QED
      BY Zenon, <2>1, <3>1, OutsideWalk
  <2>3. \A k \in Keys : attempts'[k] = attempts[k] \/ attempts'[k].count = 0
    <3>1. CASE attempts' = attempts
      BY Zenon, <3>1
    <3>2. CASE attempts' = ClearLoginAttempts(attempts, KeySet(request[r]))
      BY Zenon, <3>2 DEF ClearLoginAttempts, NoRow, TypeOK
    <3> QED
      BY Zenon, <1>4, <3>1, <3>2 DEF ClearAttempts
  <2>4. \A k \in Keys : attempts'[k].count \in Nat /\ attempts'[k].count <= attempts[k].count
    BY Zenon, <1>0, <2>3, AtMost
  <2> QED
    BY Zenon, <2>1, <2>2, <2>4, WalkAlone
<1>5. ASSUME \/ \E r \in Requests :
                   BeginFailure(r) \/ EndRequest(r) \/ SpendBudget(r)
             \/ Tick \/ Outage \/ Restore \/ UNCHANGED vars
      PROVE  CountInv'
  <2>1. UNCHANGED <<request, verdict, todo, attempts, pc>>
    BY Zenon, <1>5 DEF BeginFailure, EndRequest, SpendBudget, Tick, Outage, Restore, vars,
                loginVars, database
  <2> QED
    BY Zenon, <1>a, <2>1, WalkAlone
<1> QED
  BY SMTT(30), <1>1, <1>2, <1>3, <1>4, <1>5, CountCheck, CountRecord DEF Next, Step

\* No key ever holds more failures than passwords were checked and refused on
\* it, for any number of logins, outages and departures.
THEOREM FailuresChecked == Spec => []FailuresWereChecked
<1>1. Init => CountInv
  <2> SUFFICES ASSUME Init PROVE CountInv
    OBVIOUS
  <2>1. Mismatched = {} /\ \A k : Walked(k) = {}
    BY SMTT(30) DEF Init, Mismatched, Walked
  <2>2. IsFiniteSet({}) /\ Cardinality({}) = 0
    BY FS_EmptySet
  <2>3. WalksOnce
    BY SMTT(30) DEF Init, WalksOnce
  <2>4. \A k \in Keys : attempts[k].count <= 0
    BY SMTT(30) DEF Init, NoRow
  <2> QED
    BY Zenon, <2>1, <2>2, <2>3, <2>4 DEF CountInv
<1>2. TypeOK /\ TypeOK' /\ CountInv /\ LoginsInv /\ [Next]_vars => CountInv'
  BY CountStep DEF LoginsInv
<1>3. TypeOK /\ CountInv => FailuresWereChecked
  <2> SUFFICES ASSUME TypeOK, CountInv, NEW k \in Keys
               PROVE  attempts[k].count <=
                        Cardinality({r \in Requests : /\ verdict[r] = "mismatch"
                                                      /\ k \in KeySet(request[r])})
    BY Zenon DEF FailuresWereChecked
  <2> DEFINE all == {r \in Requests : verdict[r] = "mismatch" /\ k \in KeySet(request[r])}
  <2>1. Walked(k) \subseteq all /\ all \subseteq Mismatched
    BY DEF Walked, Mismatched
  <2> HIDE DEF all
  <2>2. IsFiniteSet(all)
    BY <2>1, FS_Subset DEF CountInv
  <2>3. Cardinality(Walked(k)) <= Cardinality(all) /\ IsFiniteSet(Walked(k))
    BY <2>1, <2>2, FS_Subset
  <2>4. Cardinality(Walked(k)) \in Nat /\ Cardinality(all) \in Nat
    BY <2>2, <2>3, FS_CardinalityType
  <2>5. attempts[k].count \in Nat /\ attempts[k].count <= Cardinality(Walked(k))
    BY Zenon DEF CountInv, TypeOK, Row
  <2>6. attempts[k].count <= Cardinality(all)
    BY SMTT(30), <2>3, <2>4, <2>5
  <2> QED
    BY Zenon, <2>6 DEF all
<1> QED
  BY <1>1, <1>2, <1>3, TypeCorrect, LoginsInductive, PTL DEF Spec
=============================================================================
