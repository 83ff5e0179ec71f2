---------------------------- MODULE ArgonPermits ----------------------------
(***************************************************************************)
(* acquireArgonPermit and releaseArgonPermit of password.go, one atomic    *)
(* operation at a time: the buffered channel argonSem with its queue of    *)
(* blocked senders, and the three counters beside it.  The callers are     *)
(* whatever hashes: logins, HashPassword, the dummy hash at startup.       *)
(***************************************************************************)
EXTENDS Integers, Sequences, FiniteSets

CONSTANTS
    Callers, \* goroutines that hash
    Cap      \* argonConcurrencyCap

ASSUME PermitsAssumption == Cap \in Nat \ {0}

VARIABLES
    pc,       \* where each caller stands
    ended,    \* callers whose context has ended
    sem,      \* elements in argonSem's buffer
    queue,    \* senders blocked on argonSem, the runtime's FIFO
    inFlight, \* argonInFlight
    peak,     \* argonPeakInFlight
    waiting,  \* argonWaiting
    count,    \* n of acquireArgonPermit
    loaded,   \* peak of acquireArgonPermit
    highest   \* history: the largest value inFlight has had

vars == <<pc, ended, sem, queue, inFlight, peak, waiting, count, loaded, highest>>

Steps == {"idle", "select", "parked", "taken", "load", "cas", "held", "leaving"}

Init ==
    /\ pc = [c \in Callers |-> "idle"]
    /\ ended = {}
    /\ sem = 0
    /\ queue = <<>>
    /\ inFlight = 0
    /\ peak = 0
    /\ waiting = 0
    /\ count = [c \in Callers |-> 0]
    /\ loaded = [c \in Callers |-> 0]
    /\ highest = 0

Goto(c, step) == pc' = [pc EXCEPT ![c] = step]

\* A call whose context is live at the first check.  One whose context has ended
\* by then returns having touched nothing; it may still end right after.
Enter(c) ==
    /\ pc[c] = "idle"
    /\ Goto(c, "select")
    /\ ended' = ended \ {c}
    /\ waiting' = waiting + 1
    /\ UNCHANGED <<sem, queue, inFlight, peak, count, loaded, highest>>

\* The context ends: deadline, or the client leaves.
EndContext(c) ==
    /\ pc[c] # "idle"
    /\ ended' = ended \cup {c}
    /\ UNCHANGED <<pc, sem, queue, inFlight, peak, waiting, count, loaded, highest>>

\* Mutant: one caller too many.
SendOneTooMany(c) ==
    /\ pc[c] = "select"
    /\ sem <= Cap
    /\ sem' = sem + 1
    /\ Goto(c, "taken")
    /\ UNCHANGED <<ended, queue, inFlight, peak, waiting, count, loaded, highest>>

\* select: the buffer has room and the send goes through, or it is full and
\* the sender parks; an ended context is the other ready case.
SendNow(c) ==
    /\ pc[c] = "select"
    /\ sem < Cap
    /\ sem' = sem + 1
    /\ Goto(c, "taken")
    /\ UNCHANGED <<ended, queue, inFlight, peak, waiting, count, loaded, highest>>

Park(c) ==
    /\ pc[c] = "select"
    /\ sem = Cap
    /\ c \notin ended
    /\ queue' = Append(queue, c)
    /\ Goto(c, "parked")
    /\ UNCHANGED <<ended, sem, inFlight, peak, waiting, count, loaded, highest>>

\* A sender that gives up leaves the queue from wherever it stands.
Unqueued(i) == [k \in 1 .. Len(queue) - 1 |-> queue[IF k < i THEN k ELSE k + 1]]

Unqueue(c) ==
    \/ pc[c] = "select" /\ UNCHANGED queue
    \/ /\ pc[c] = "parked"
       /\ \E i \in DOMAIN queue : queue[i] = c /\ queue' = Unqueued(i)

\* Mutant: no deferred argonWaiting.Add(-1) on the way out.
GiveUpUncounted(c) ==
    /\ c \in ended
    /\ Unqueue(c)
    /\ Goto(c, "idle")
    /\ UNCHANGED <<ended, sem, inFlight, peak, waiting, count, loaded, highest>>

\* case <-ctx.Done(): the deferred argonWaiting.Add(-1) runs, no permit is held.
GiveUp(c) ==
    /\ c \in ended
    /\ Unqueue(c)
    /\ waiting' = waiting - 1
    /\ Goto(c, "idle")
    /\ UNCHANGED <<ended, sem, inFlight, peak, count, loaded, highest>>

\* n := argonInFlight.Add(1)
CountIn(c) ==
    /\ pc[c] = "taken"
    /\ inFlight' = inFlight + 1
    /\ count' = [count EXCEPT ![c] = inFlight + 1]
    /\ highest' = IF inFlight + 1 > highest THEN inFlight + 1 ELSE highest
    /\ Goto(c, "load")
    /\ UNCHANGED <<ended, sem, queue, peak, waiting, loaded>>

\* peak := argonPeakInFlight.Load()
LoadPeak(c) ==
    /\ pc[c] = "load"
    /\ loaded' = [loaded EXCEPT ![c] = peak]
    /\ Goto(c, "cas")
    /\ UNCHANGED <<ended, sem, queue, inFlight, peak, waiting, count, highest>>

\* Mutant: a plain store of n, another caller's larger peak overwritten.
StorePeak(c) ==
    /\ pc[c] = "cas"
    /\ peak' = IF count[c] > loaded[c] THEN count[c] ELSE peak
    /\ waiting' = waiting - 1
    /\ Goto(c, "held")
    /\ UNCHANGED <<ended, sem, queue, inFlight, count, loaded, highest>>

\* n <= peak, or the compare-and-swap succeeds: return, waiting no more.
\* Otherwise round the loop again.
SwapPeak(c) ==
    /\ pc[c] = "cas"
    /\ IF count[c] <= loaded[c] \/ peak = loaded[c]
         THEN /\ peak' = IF count[c] <= loaded[c] THEN peak ELSE count[c]
              /\ waiting' = waiting - 1
              /\ Goto(c, "held")
         ELSE /\ Goto(c, "load")
              /\ UNCHANGED <<peak, waiting>>
    /\ UNCHANGED <<ended, sem, queue, inFlight, count, loaded, highest>>

\* releaseArgonPermit: argonInFlight.Add(-1) ...
CountOut(c) ==
    /\ pc[c] = "held"
    /\ inFlight' = inFlight - 1
    /\ Goto(c, "leaving")
    /\ UNCHANGED <<ended, sem, queue, peak, waiting, count, loaded, highest>>

\* Mutant: the slot is freed and the parked are not woken.
ReceiveWakesNobody(c) ==
    /\ pc[c] = "leaving"
    /\ sem' = sem - 1
    /\ Goto(c, "idle")
    /\ UNCHANGED <<ended, queue, inFlight, peak, waiting, count, loaded, highest>>

\* ... then <-argonSem: the longest-parked sender, if any, takes the slot.
Receive(c) ==
    /\ pc[c] = "leaving"
    /\ IF queue = <<>>
         THEN /\ sem' = sem - 1
              /\ Goto(c, "idle")
              /\ UNCHANGED queue
         ELSE /\ pc' = [pc EXCEPT ![c] = "idle", ![Head(queue)] = "taken"]
              /\ queue' = Tail(queue)
              /\ UNCHANGED sem
    /\ UNCHANGED <<ended, inFlight, peak, waiting, count, loaded, highest>>

Step(c) ==
    \/ SendNow(c)
    \/ Park(c)
    \/ GiveUp(c)
    \/ CountIn(c)
    \/ LoadPeak(c)
    \/ SwapPeak(c)
    \/ CountOut(c)
    \/ Receive(c)

Next == \E c \in Callers : Enter(c) \/ EndContext(c) \/ Step(c)

Spec == Init /\ [][Next]_vars

\* A caller that has begun keeps running, its hash ends, and it gives the permit
\* back; nothing makes a caller come, or its context end.
FairSpec == Spec /\ \A c \in Callers : WF_vars(Step(c))

-----------------------------------------------------------------------------

At(steps) == {c \in Callers : pc[c] \in steps}

Taken == {"taken", "load", "cas", "held", "leaving"}

\* Every variable stays in its type: part of CountersAgree.
TypeOK ==
    /\ pc \in [Callers -> Steps]
    /\ ended \in SUBSET Callers
    /\ sem \in Nat
    /\ queue \in Seq(Callers)
    /\ inFlight \in Nat
    /\ peak \in Nat
    /\ waiting \in Nat
    /\ count \in [Callers -> Nat]
    /\ loaded \in [Callers -> Nat]
    /\ highest \in Nat

\* The channel and the two counters beside it each count exactly the callers
\* between their own pair of operations, the queue holds exactly the parked and
\* only while the channel is full, and so argonInFlight never exceeds the cap:
\* releaseArgonPermit counts out before it gives the slot away.
CountersAgree ==
    /\ TypeOK
    /\ sem = Cardinality(At(Taken)) /\ sem <= Cap
    /\ inFlight = Cardinality(At({"load", "cas", "held"}))
    /\ waiting = Cardinality(At({"select", "parked", "taken", "load", "cas"}))
    /\ {queue[i] : i \in DOMAIN queue} = At({"parked"})
    /\ Len(queue) = Cardinality(At({"parked"}))
    /\ queue # <<>> => sem = Cap

\* "Exact, updated as each call takes a permit, so a test asserts the bound
\* itself": once nobody is inside the compare-and-swap loop, argonPeakInFlight
\* is the most hashes that were ever in flight, and it never passes the cap.
PeakIsExact ==
    /\ At({"load", "cas"}) = {} => peak = highest
    /\ peak <= highest /\ highest <= Cap

\* What a test reads from password.go's counters can be relied on: they agree
\* with the channel at every instant, and the peak is exact.
MetersAgree == CountersAgree /\ PeakIsExact

\* The permits as their callers see them.
Pool == INSTANCE PermitPool
          WITH asking <- At({"select", "parked"}), holding <- At(Taken)

\* The channel, its queue and the counters implement the pool of permits.
ImplementsPool == Pool!Spec

\* Nobody queues for ever, however many callers keep coming back: the channel
\* serves its senders in order.
NobodyStarves == Pool!Served
=============================================================================
