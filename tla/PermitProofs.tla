---------------------------- MODULE PermitProofs ----------------------------
(***************************************************************************)
(* Proofs about ArgonPermits, for any number of callers and any cap.       *)
(***************************************************************************)
EXTENDS ArgonPermits, FiniteSetTheorems, TLAPS

Busy == Steps \ {"idle"}

InFlight == {"load", "cas", "held"}

Waiting == {"select", "parked", "taken", "load", "cas"}

\* The callers at one of some steps, for any assignment of steps to callers.
On(f, steps) == {c \in Callers : f[c] \in steps}

\* Finitely many callers are ever inside, and each counter counts its own.
Counts ==
    /\ IsFiniteSet(On(pc, Busy))
    /\ sem = Cardinality(On(pc, Taken)) /\ sem <= Cap
    /\ inFlight = Cardinality(On(pc, InFlight))
    /\ waiting = Cardinality(On(pc, Waiting))
    /\ Len(queue) = Cardinality(On(pc, {"parked"}))

\* The queue holds every parked caller once, and only behind a full channel.
Queued ==
    /\ \A i \in DOMAIN queue : pc[queue[i]] = "parked"
    /\ \A c \in Callers : pc[c] = "parked" => \E i \in DOMAIN queue : queue[i] = c
    /\ \A i, j \in DOMAIN queue : queue[i] = queue[j] => i = j
    /\ queue # <<>> => sem = Cap

\* What the compare-and-swap loop keeps: the peak only lags while a caller that
\* saw the highest count is still inside the loop, and no caller's view of the
\* peak is ahead of it.
Climbing ==
    /\ peak <= highest /\ highest <= Cap
    /\ \A c \in On(pc, {"load", "cas"}) : count[c] <= highest
    /\ \A c \in On(pc, {"cas"}) : loaded[c] <= peak
    /\ peak < highest => \E c \in On(pc, {"load", "cas"}) : count[c] = highest

IndInv == TypeOK /\ Counts /\ Queued /\ Climbing

-----------------------------------------------------------------------------

\* Every set of steps that leaves out idle is occupied by finitely many.
LEMMA Finite ==
    ASSUME Counts, NEW S \in SUBSET Busy
    PROVE  IsFiniteSet(On(pc, S))
<1>1. On(pc, S) \subseteq On(pc, Busy)
  BY DEF On
<1> QED
  BY <1>1, FS_Subset DEF Counts

\* Nobody is inside at first.
LEMMA InitIndInv == Init => IndInv
<1> SUFFICES ASSUME Init PROVE IndInv
  OBVIOUS
<1> USE PermitsAssumption
<1>1. TypeOK
  BY DEF Init, TypeOK, Steps
<1>2. \A S \in SUBSET Busy : On(pc, S) = {}
  BY DEF Init, On, Busy, Steps
<1>3. /\ Busy \in SUBSET Busy /\ Taken \in SUBSET Busy /\ InFlight \in SUBSET Busy
      /\ Waiting \in SUBSET Busy /\ {"parked"} \in SUBSET Busy
      /\ {"load", "cas"} \in SUBSET Busy /\ {"cas"} \in SUBSET Busy
  BY DEF Busy, Taken, InFlight, Waiting, Steps
<1>4. Counts
  <2>1. /\ On(pc, Busy) = {} /\ On(pc, Taken) = {} /\ On(pc, InFlight) = {}
        /\ On(pc, Waiting) = {} /\ On(pc, {"parked"}) = {}
    BY <1>2, <1>3
  <2>2. IsFiniteSet({}) /\ Cardinality({}) = 0
    BY FS_EmptySet
  <2>3. 0 <= Cap /\ Len(queue) = 0
    BY DEF Init
  <2> QED
    BY Zenon, <2>1, <2>2, <2>3 DEF Init, Counts
<1>5. Queued
  BY DEF Init, Queued
<1>6. Climbing
  BY <1>2, <1>3 DEF Init, Climbing
<1> QED
  BY <1>1, <1>4, <1>5, <1>6 DEF IndInv

\* The callers at a set of steps, when one of them goes from one step to another.
Moved(S, from, to) ==
    /\ IsFiniteSet(On(pc, S)')
    /\ Cardinality(On(pc, S)) \in Nat
    /\ from \in S /\ to \notin S =>
           Cardinality(On(pc, S)') = Cardinality(On(pc, S)) - 1
    /\ from \notin S /\ to \in S =>
           Cardinality(On(pc, S)') = Cardinality(On(pc, S)) + 1
    /\ (from \in S <=> to \in S) =>
           Cardinality(On(pc, S)') = Cardinality(On(pc, S))

\* One caller's move changes the number at a set of steps by one, up if it
\* arrives, down if it leaves.
LEMMA Recount ==
    ASSUME TypeOK, Counts, NEW c \in Callers, NEW t \in Steps,
           pc' = [pc EXCEPT ![c] = t], NEW S \in SUBSET Busy
    PROVE  Moved(S, pc[c], t)
<1>1. IsFiniteSet(On(pc, S)) /\ pc \in [Callers -> Steps]
  BY Finite DEF TypeOK
<1>2. c \in On(pc, S) <=> pc[c] \in S
  BY DEF On
<1>3. Cardinality(On(pc, S)) \in Nat
  BY <1>1, FS_CardinalityType
<1>4. CASE pc[c] \in S /\ t \notin S
  <2>1. On(pc, S)' = On(pc, S) \ {c}
    BY <1>1, <1>4 DEF On
  <2>2. /\ IsFiniteSet(On(pc, S) \ {c})
        /\ Cardinality(On(pc, S) \ {c}) = Cardinality(On(pc, S)) - 1
    BY Zenon, <1>1, <1>2, <1>4, FS_RemoveElement
  <2> QED
    BY Zenon, <1>3, <1>4, <2>1, <2>2 DEF Moved
<1>5. CASE pc[c] \notin S /\ t \in S
  <2>1. On(pc, S)' = On(pc, S) \cup {c}
    BY <1>1, <1>5 DEF On
  <2>2. /\ IsFiniteSet(On(pc, S) \cup {c})
        /\ Cardinality(On(pc, S) \cup {c}) = Cardinality(On(pc, S)) + 1
    BY <1>1, <1>2, <1>5, FS_AddElement
  <2> QED
    BY Zenon, <1>3, <1>5, <2>1, <2>2 DEF Moved
<1>6. CASE pc[c] \in S <=> t \in S
  <2>1. On(pc, S)' = On(pc, S)
    BY <1>1, <1>6 DEF On
  <2> QED
    BY <1>1, <1>3, <1>6, <2>1 DEF Moved
<1> QED
  BY <1>4, <1>5, <1>6

\* Which step is in which of the sets.
LEMMA Membership ==
    /\ \A x : x \in Taken <=> x \in {"taken", "load", "cas", "held", "leaving"}
    /\ \A x : x \in InFlight <=> x \in {"load", "cas", "held"}
    /\ \A x : x \in Waiting <=> x \in {"select", "parked", "taken", "load", "cas"}
  BY DEF Taken, InFlight, Waiting

\* Each action moves the counter of every set of steps its caller enters or
\* leaves.
LEMMA CountsStep == IndInv /\ [Next]_vars => Counts'
<1> SUFFICES ASSUME IndInv, [Next]_vars PROVE Counts'
  OBVIOUS
<1> USE PermitsAssumption
<1>0. TypeOK /\ Counts
  BY DEF IndInv
<1>s. /\ Busy \in SUBSET Busy /\ Taken \in SUBSET Busy /\ InFlight \in SUBSET Busy
      /\ Waiting \in SUBSET Busy /\ {"parked"} \in SUBSET Busy
  BY DEF Busy, Taken, InFlight, Waiting, Steps
<1>1. ASSUME NEW c \in Callers, Enter(c) PROVE Counts'
  <2>1. pc' = [pc EXCEPT ![c] = "select"] /\ pc[c] = "idle" /\ "select" \in Steps
    BY <1>1 DEF Enter, Goto, Steps
  <2>2. \A S \in SUBSET Busy : Moved(S, "idle", "select")
    BY Zenon, <1>0, <2>1, Recount
  <2>3. /\ IsFiniteSet(On(pc, Busy)')
        /\ Cardinality(On(pc, Taken)') = Cardinality(On(pc, Taken))
        /\ Cardinality(On(pc, InFlight)') = Cardinality(On(pc, InFlight))
        /\ Cardinality(On(pc, Waiting)') = Cardinality(On(pc, Waiting)) + 1
        /\ Cardinality(On(pc, {"parked"})') = Cardinality(On(pc, {"parked"}))
    BY <1>s, <2>2, Membership DEF Moved
  <2> QED
    BY <1>0, <1>1, <2>3 DEF Counts, TypeOK, Enter
<1>2. ASSUME NEW c \in Callers, EndContext(c) PROVE Counts'
  BY <1>0, <1>2 DEF Counts, EndContext, On
<1>3. ASSUME NEW c \in Callers, SendNow(c) PROVE Counts'
  <2>1. pc' = [pc EXCEPT ![c] = "taken"] /\ pc[c] = "select" /\ "taken" \in Steps
    BY <1>3 DEF SendNow, Goto, Steps
  <2>2. \A S \in SUBSET Busy : Moved(S, "select", "taken")
    BY Zenon, <1>0, <2>1, Recount
  <2>3. /\ IsFiniteSet(On(pc, Busy)')
        /\ Cardinality(On(pc, Taken)') = Cardinality(On(pc, Taken)) + 1
        /\ Cardinality(On(pc, InFlight)') = Cardinality(On(pc, InFlight))
        /\ Cardinality(On(pc, Waiting)') = Cardinality(On(pc, Waiting))
        /\ Cardinality(On(pc, {"parked"})') = Cardinality(On(pc, {"parked"}))
    BY <1>s, <2>2, Membership DEF Moved
  <2> QED
    BY <1>0, <1>3, <2>3 DEF Counts, TypeOK, SendNow
<1>4. ASSUME NEW c \in Callers, Park(c) PROVE Counts'
  <2>1. pc' = [pc EXCEPT ![c] = "parked"] /\ pc[c] = "select" /\ "parked" \in Steps
    BY <1>4 DEF Park, Goto, Steps
  <2>2. \A S \in SUBSET Busy : Moved(S, "select", "parked")
    BY Zenon, <1>0, <2>1, Recount
  <2>3. /\ IsFiniteSet(On(pc, Busy)')
        /\ Cardinality(On(pc, Taken)') = Cardinality(On(pc, Taken))
        /\ Cardinality(On(pc, InFlight)') = Cardinality(On(pc, InFlight))
        /\ Cardinality(On(pc, Waiting)') = Cardinality(On(pc, Waiting))
        /\ Cardinality(On(pc, {"parked"})') = Cardinality(On(pc, {"parked"})) + 1
    BY <1>s, <2>2, Membership DEF Moved
  <2>4. Len(queue') = Len(queue) + 1
    BY <1>0, <1>4 DEF Park, TypeOK
  <2> QED
    BY Zenon, <1>0, <1>4, <2>3, <2>4 DEF Counts, TypeOK, Park
<1>5. ASSUME NEW c \in Callers, GiveUp(c) PROVE Counts'
  <2>1. pc' = [pc EXCEPT ![c] = "idle"] /\ "idle" \in Steps
    BY <1>5 DEF GiveUp, Goto, Steps
  <2>2. CASE pc[c] = "select"
    <3>1. \A S \in SUBSET Busy : Moved(S, "select", "idle")
      BY Zenon, <1>0, <2>1, <2>2, Recount
    <3>2. /\ IsFiniteSet(On(pc, Busy)')
          /\ Cardinality(On(pc, Taken)') = Cardinality(On(pc, Taken))
          /\ Cardinality(On(pc, InFlight)') = Cardinality(On(pc, InFlight))
          /\ Cardinality(On(pc, Waiting)') = Cardinality(On(pc, Waiting)) - 1
          /\ Cardinality(On(pc, {"parked"})') = Cardinality(On(pc, {"parked"}))
      BY <1>s, <3>1, Membership DEF Moved
    <3> QED
      BY <1>0, <1>5, <2>2, <3>2 DEF Counts, TypeOK, GiveUp, Unqueue
  <2>3. CASE pc[c] = "parked"
    <3>1. \A S \in SUBSET Busy : Moved(S, "parked", "idle")
      BY Zenon, <1>0, <2>1, <2>3, Recount
    <3>2. /\ IsFiniteSet(On(pc, Busy)')
          /\ Cardinality(On(pc, Taken)') = Cardinality(On(pc, Taken))
          /\ Cardinality(On(pc, InFlight)') = Cardinality(On(pc, InFlight))
          /\ Cardinality(On(pc, Waiting)') = Cardinality(On(pc, Waiting)) - 1
          /\ Cardinality(On(pc, {"parked"})') = Cardinality(On(pc, {"parked"})) - 1
      BY <1>s, <3>1, Membership DEF Moved
    <3>3. Len(queue') = Len(queue) - 1
      <4>1. PICK i \in DOMAIN queue : queue' = Unqueued(i)
        BY <1>5, <2>3 DEF GiveUp, Unqueue
      <4> QED
        BY <1>0, <4>1 DEF TypeOK, Unqueued
    <3> QED
      BY <1>0, <1>5, <3>2, <3>3 DEF Counts, TypeOK, GiveUp
  <2> QED
    BY <1>5, <2>2, <2>3 DEF GiveUp, Unqueue
<1>6. ASSUME NEW c \in Callers, CountIn(c) PROVE Counts'
  <2>1. pc' = [pc EXCEPT ![c] = "load"] /\ pc[c] = "taken" /\ "load" \in Steps
    BY <1>6 DEF CountIn, Goto, Steps
  <2>2. \A S \in SUBSET Busy : Moved(S, "taken", "load")
    BY Zenon, <1>0, <2>1, Recount
  <2>3. /\ IsFiniteSet(On(pc, Busy)')
        /\ Cardinality(On(pc, Taken)') = Cardinality(On(pc, Taken))
        /\ Cardinality(On(pc, InFlight)') = Cardinality(On(pc, InFlight)) + 1
        /\ Cardinality(On(pc, Waiting)') = Cardinality(On(pc, Waiting))
        /\ Cardinality(On(pc, {"parked"})') = Cardinality(On(pc, {"parked"}))
    BY <1>s, <2>2, Membership DEF Moved
  <2> QED
    BY <1>0, <1>6, <2>3 DEF Counts, TypeOK, CountIn
<1>7. ASSUME NEW c \in Callers, LoadPeak(c) PROVE Counts'
  <2>1. pc' = [pc EXCEPT ![c] = "cas"] /\ pc[c] = "load" /\ "cas" \in Steps
    BY <1>7 DEF LoadPeak, Goto, Steps
  <2>2. \A S \in SUBSET Busy : Moved(S, "load", "cas")
    BY Zenon, <1>0, <2>1, Recount
  <2>3. /\ IsFiniteSet(On(pc, Busy)')
        /\ Cardinality(On(pc, Taken)') = Cardinality(On(pc, Taken))
        /\ Cardinality(On(pc, InFlight)') = Cardinality(On(pc, InFlight))
        /\ Cardinality(On(pc, Waiting)') = Cardinality(On(pc, Waiting))
        /\ Cardinality(On(pc, {"parked"})') = Cardinality(On(pc, {"parked"}))
    BY <1>s, <2>2, Membership DEF Moved
  <2> QED
    BY <1>0, <1>7, <2>3 DEF Counts, TypeOK, LoadPeak
<1>8. ASSUME NEW c \in Callers, SwapPeak(c) PROVE Counts'
  <2>0. pc[c] = "cas" /\ "held" \in Steps /\ "load" \in Steps
    BY <1>8 DEF SwapPeak, Steps
  <2>1. CASE count[c] <= loaded[c] \/ peak = loaded[c]
    <3>1. pc' = [pc EXCEPT ![c] = "held"]
      BY <1>8, <2>1 DEF SwapPeak, Goto
    <3>2. \A S \in SUBSET Busy : Moved(S, "cas", "held")
      BY Zenon, <1>0, <2>0, <3>1, Recount
    <3>3. /\ IsFiniteSet(On(pc, Busy)')
          /\ Cardinality(On(pc, Taken)') = Cardinality(On(pc, Taken))
          /\ Cardinality(On(pc, InFlight)') = Cardinality(On(pc, InFlight))
          /\ Cardinality(On(pc, Waiting)') = Cardinality(On(pc, Waiting)) - 1
          /\ Cardinality(On(pc, {"parked"})') = Cardinality(On(pc, {"parked"}))
      BY <1>s, <3>2, Membership DEF Moved
    <3> QED
      BY <1>0, <1>8, <2>1, <3>3 DEF Counts, TypeOK, SwapPeak
  <2>2. CASE ~ (count[c] <= loaded[c] \/ peak = loaded[c])
    <3>1. pc' = [pc EXCEPT ![c] = "load"]
      BY <1>8, <2>2 DEF SwapPeak, Goto
    <3>2. \A S \in SUBSET Busy : Moved(S, "cas", "load")
      BY Zenon, <1>0, <2>0, <3>1, Recount
    <3>3. /\ IsFiniteSet(On(pc, Busy)')
          /\ Cardinality(On(pc, Taken)') = Cardinality(On(pc, Taken))
          /\ Cardinality(On(pc, InFlight)') = Cardinality(On(pc, InFlight))
          /\ Cardinality(On(pc, Waiting)') = Cardinality(On(pc, Waiting))
          /\ Cardinality(On(pc, {"parked"})') = Cardinality(On(pc, {"parked"}))
      BY <1>s, <3>2, Membership DEF Moved
    <3> QED
      BY <1>0, <1>8, <2>2, <3>3 DEF Counts, TypeOK, SwapPeak
  <2> QED
    BY <2>1, <2>2
<1>9. ASSUME NEW c \in Callers, CountOut(c) PROVE Counts'
  <2>1. pc' = [pc EXCEPT ![c] = "leaving"] /\ pc[c] = "held" /\ "leaving" \in Steps
    BY <1>9 DEF CountOut, Goto, Steps
  <2>2. \A S \in SUBSET Busy : Moved(S, "held", "leaving")
    BY Zenon, <1>0, <2>1, Recount
  <2>3. /\ IsFiniteSet(On(pc, Busy)')
        /\ Cardinality(On(pc, Taken)') = Cardinality(On(pc, Taken))
        /\ Cardinality(On(pc, InFlight)') = Cardinality(On(pc, InFlight)) - 1
        /\ Cardinality(On(pc, Waiting)') = Cardinality(On(pc, Waiting))
        /\ Cardinality(On(pc, {"parked"})') = Cardinality(On(pc, {"parked"}))
    BY <1>s, <2>2, Membership DEF Moved
  <2> QED
    BY <1>0, <1>9, <2>3 DEF Counts, TypeOK, CountOut
<1>10. ASSUME NEW c \in Callers, Receive(c), queue = <<>> PROVE Counts'
  <2>1. pc' = [pc EXCEPT ![c] = "idle"] /\ pc[c] = "leaving" /\ "idle" \in Steps
    BY <1>10 DEF Receive, Goto, Steps
  <2>2. \A S \in SUBSET Busy : Moved(S, "leaving", "idle")
    BY Zenon, <1>0, <2>1, Recount
  <2>3. /\ IsFiniteSet(On(pc, Busy)')
        /\ Cardinality(On(pc, Taken)') = Cardinality(On(pc, Taken)) - 1
        /\ Cardinality(On(pc, InFlight)') = Cardinality(On(pc, InFlight))
        /\ Cardinality(On(pc, Waiting)') = Cardinality(On(pc, Waiting))
        /\ Cardinality(On(pc, {"parked"})') = Cardinality(On(pc, {"parked"}))
    BY <1>s, <2>2, Membership DEF Moved
  <2> QED
    BY <1>0, <1>10, <2>3 DEF Counts, TypeOK, Receive
<1>11. ASSUME NEW c \in Callers, Receive(c), queue # <<>> PROVE Counts'
  <2> DEFINE d == Head(queue)
  <2>1. d \in Callers /\ pc[d] = "parked" /\ pc[c] = "leaving"
    BY <1>0, <1>11 DEF IndInv, Queued, TypeOK, Receive
  <2>2. /\ pc' = [pc EXCEPT ![c] = "idle", ![d] = "taken"] /\ queue' = Tail(queue)
        /\ sem' = sem /\ inFlight' = inFlight /\ waiting' = waiting
    BY <1>11 DEF Receive
  <2>3. Len(queue') = Len(queue) - 1
    BY <1>0, <1>11, <2>2 DEF TypeOK
  <2> HIDE DEF d
  <2>4. pc'[c] = "idle" /\ pc'[d] = "taken" /\ \A e \in Callers \ {c, d} : pc'[e] = pc[e]
    BY <1>0, <2>1, <2>2 DEF TypeOK
  <2>5. /\ On(pc, Busy)' = On(pc, Busy) \ {c}
        /\ On(pc, Taken)' = (On(pc, Taken) \ {c}) \cup {d}
        /\ On(pc, InFlight)' = On(pc, InFlight)
        /\ On(pc, Waiting)' = On(pc, Waiting)
        /\ On(pc, {"parked"})' = On(pc, {"parked"}) \ {d}
    BY <2>1, <2>4 DEF On, Busy, Taken, InFlight, Waiting, Steps
  <2>6. /\ IsFiniteSet(On(pc, Busy)) /\ IsFiniteSet(On(pc, Taken))
        /\ IsFiniteSet(On(pc, {"parked"}))
    BY <1>0, <1>s, Finite
  <2>7. IsFiniteSet(On(pc, Busy)')
    BY <2>5, <2>6, FS_RemoveElement
  <2>8. Cardinality(On(pc, Taken)') = Cardinality(On(pc, Taken))
    <3>1. c \in On(pc, Taken) /\ d \notin On(pc, Taken)
      BY <2>1 DEF On, Taken
    <3>2. /\ IsFiniteSet(On(pc, Taken) \ {c})
          /\ Cardinality(On(pc, Taken) \ {c}) = Cardinality(On(pc, Taken)) - 1
      BY <2>6, <3>1, FS_RemoveElement
    <3>3. Cardinality((On(pc, Taken) \ {c}) \cup {d}) = Cardinality(On(pc, Taken) \ {c}) + 1
      BY <3>1, <3>2, FS_AddElement
    <3>4. Cardinality(On(pc, Taken)) \in Nat
      BY <2>6, FS_CardinalityType
    <3> QED
      BY <2>5, <3>2, <3>3, <3>4
  <2>9. Cardinality(On(pc, {"parked"})') = Cardinality(On(pc, {"parked"})) - 1
    <3>1. d \in On(pc, {"parked"})
      BY <2>1 DEF On
    <3> QED
      BY <2>5, <2>6, <3>1, FS_RemoveElement
  <2> QED
    BY Zenon, <1>0, <2>2, <2>3, <2>5, <2>7, <2>8, <2>9 DEF Counts
<1>12. CASE UNCHANGED vars
  BY <1>0, <1>12 DEF Counts, On, vars
<1> QED
  BY <1>1, <1>2, <1>3, <1>4, <1>5, <1>6, <1>7, <1>8, <1>9, <1>10, <1>11, <1>12
  DEF Next, Step

\* Every variable keeps its type.
LEMMA TypeStep == IndInv /\ [Next]_vars => TypeOK'
<1> SUFFICES ASSUME IndInv, [Next]_vars PROVE TypeOK'
  OBVIOUS
<1>0. TypeOK /\ Queued /\ Counts'
  BY CountsStep DEF IndInv
<1>s. sem' \in Nat /\ inFlight' \in Nat /\ waiting' \in Nat
  <2>1. /\ IsFiniteSet(On(pc, Busy)') /\ On(pc, Taken)' \subseteq On(pc, Busy)'
        /\ On(pc, InFlight)' \subseteq On(pc, Busy)'
        /\ On(pc, Waiting)' \subseteq On(pc, Busy)'
    BY <1>0 DEF Counts, On, Busy, Taken, InFlight, Waiting, Steps
  <2>2. /\ IsFiniteSet(On(pc, Taken)') /\ IsFiniteSet(On(pc, InFlight)')
        /\ IsFiniteSet(On(pc, Waiting)')
    BY <2>1, FS_Subset
  <2> QED
    BY <1>0, <2>2, FS_CardinalityType DEF Counts
<1>1. ASSUME NEW c \in Callers, Enter(c) PROVE TypeOK'
  BY <1>0, <1>s, <1>1 DEF TypeOK, Enter, Goto, Steps
<1>2. ASSUME NEW c \in Callers, EndContext(c) PROVE TypeOK'
  BY <1>0, <1>s, <1>2 DEF TypeOK, EndContext
<1>3. ASSUME NEW c \in Callers, SendNow(c) PROVE TypeOK'
  BY <1>0, <1>s, <1>3 DEF TypeOK, SendNow, Goto, Steps
<1>4. ASSUME NEW c \in Callers, Park(c) PROVE TypeOK'
  BY <1>0, <1>s, <1>4 DEF TypeOK, Park, Goto, Steps
<1>5. ASSUME NEW c \in Callers, GiveUp(c) PROVE TypeOK'
  <2>1. queue' \in Seq(Callers)
    <3>1. CASE UNCHANGED queue
      BY <1>0, <3>1 DEF TypeOK
    <3>2. ASSUME NEW i \in DOMAIN queue, queue' = Unqueued(i) PROVE queue' \in Seq(Callers)
      <4>1. /\ Len(queue) - 1 \in Nat
            /\ \A k \in 1 .. Len(queue) - 1 : queue[IF k < i THEN k ELSE k + 1] \in Callers
        BY SMTT(30), <1>0 DEF TypeOK
      <4>2. queue' \in [1 .. Len(queue) - 1 -> Callers]
        BY <3>2, <4>1 DEF Unqueued
      <4> QED
        BY <4>1, <4>2
    <3> QED
      BY <1>5, <3>1, <3>2 DEF GiveUp, Unqueue
  <2> QED
    BY <1>0, <1>s, <1>5, <2>1 DEF TypeOK, GiveUp, Goto, Steps
<1>6. ASSUME NEW c \in Callers, CountIn(c) PROVE TypeOK'
  BY <1>0, <1>s, <1>6 DEF TypeOK, CountIn, Goto, Steps
<1>7. ASSUME NEW c \in Callers, LoadPeak(c) PROVE TypeOK'
  BY <1>0, <1>s, <1>7 DEF TypeOK, LoadPeak, Goto, Steps
<1>8. ASSUME NEW c \in Callers, SwapPeak(c) PROVE TypeOK'
  <2>1. pc' \in [Callers -> Steps] /\ peak' \in Nat
    <3>1. CASE count[c] <= loaded[c] \/ peak = loaded[c]
      <4>1. pc' = [pc EXCEPT ![c] = "held"] /\ (peak' = peak \/ peak' = count[c])
        BY <1>8, <3>1 DEF SwapPeak, Goto
      <4> QED
        BY <1>0, <4>1 DEF TypeOK, Steps
    <3>2. CASE ~ (count[c] <= loaded[c] \/ peak = loaded[c])
      BY Zenon, <1>0, <1>8, <3>2 DEF TypeOK, SwapPeak, Goto, Steps
    <3> QED
      BY <3>1, <3>2
  <2> QED
    BY <1>0, <1>s, <1>8, <2>1 DEF TypeOK, SwapPeak
<1>9. ASSUME NEW c \in Callers, CountOut(c) PROVE TypeOK'
  BY <1>0, <1>s, <1>9 DEF TypeOK, CountOut, Goto, Steps
<1>10. ASSUME NEW c \in Callers, Receive(c) PROVE TypeOK'
  <2>1. CASE queue = <<>>
    BY Zenon, <1>0, <1>s, <1>10, <2>1 DEF TypeOK, Receive, Goto, Steps
  <2>2. CASE queue # <<>>
    <3>1. Tail(queue) \in Seq(Callers) /\ Head(queue) \in Callers
      BY <1>0, <2>2 DEF TypeOK
    <3>2. pc' \in [Callers -> Steps] /\ queue' \in Seq(Callers)
      BY Zenon, <1>0, <1>10, <2>2, <3>1 DEF TypeOK, Receive, Steps
    <3> QED
      BY <1>0, <1>s, <1>10, <3>2 DEF TypeOK, Receive
  <2> QED
    BY <2>1, <2>2
<1>11. CASE UNCHANGED vars
  BY <1>0, <1>11 DEF TypeOK, vars
<1> QED
  BY <1>1, <1>2, <1>3, <1>4, <1>5, <1>6, <1>7, <1>8, <1>9, <1>10, <1>11
  DEF Next, Step

\* A step that leaves the queue, the channel and the parked alone keeps Queued.
LEMMA QueueAlone ==
    ASSUME TypeOK, Queued, queue' = queue, sem' = sem \/ queue = <<>>,
           \A d \in Callers : pc'[d] = "parked" <=> pc[d] = "parked"
    PROVE  Queued'
<1>1. \A i \in DOMAIN queue : queue[i] \in Callers
  BY DEF TypeOK
<1> QED
  BY <1>1 DEF Queued

\* The queue follows the parked: in at the back, out at the front or, giving up,
\* from anywhere.
LEMMA QueueStep == IndInv /\ [Next]_vars => Queued'
<1> SUFFICES ASSUME IndInv, [Next]_vars PROVE Queued'
  OBVIOUS
<1>0. TypeOK /\ Queued
  BY DEF IndInv
<1>1. ASSUME NEW c \in Callers, \/ Enter(c) \/ EndContext(c) \/ CountIn(c)
                                \/ LoadPeak(c) \/ SwapPeak(c) \/ CountOut(c)
      PROVE  Queued'
  <2>1. queue' = queue /\ sem' = sem
    BY <1>1 DEF Enter, EndContext, CountIn, LoadPeak, SwapPeak, CountOut
  <2>2. \A d \in Callers : pc'[d] = "parked" <=> pc[d] = "parked"
    BY SMTT(30), <1>0, <1>1
    DEF TypeOK, Goto, Enter, EndContext, CountIn, LoadPeak, SwapPeak, CountOut
  <2> QED
    BY <1>0, <2>1, <2>2, QueueAlone
<1>2. ASSUME NEW c \in Callers, SendNow(c) PROVE Queued'
  <2>1. queue' = queue /\ queue = <<>>
    BY <1>0, <1>2 DEF SendNow, Queued, TypeOK
  <2>2. \A d \in Callers : pc'[d] = "parked" <=> pc[d] = "parked"
    BY <1>0, <1>2 DEF TypeOK, Goto, SendNow
  <2> QED
    BY <1>0, <2>1, <2>2, QueueAlone
<1>3. ASSUME NEW c \in Callers, Park(c) PROVE Queued'
  <2>1. /\ DOMAIN queue = 1 .. Len(queue) /\ Len(queue) \in Nat
        /\ DOMAIN queue' = 1 .. Len(queue) + 1
        /\ queue'[Len(queue) + 1] = c
        /\ \A i \in 1 .. Len(queue) : queue'[i] = queue[i] /\ queue[i] \in Callers
    BY <1>0, <1>3 DEF Park, TypeOK
  <2>2. /\ pc'[c] = "parked" /\ pc[c] # "parked" /\ sem' = Cap
        /\ \A d \in Callers \ {c} : pc'[d] = pc[d]
    BY <1>0, <1>3 DEF Park, Goto, TypeOK
  <2>3. \A i \in 1 .. Len(queue) : queue[i] # c /\ pc[queue[i]] = "parked"
    BY <1>0, <2>1, <2>2 DEF Queued
  <2>4. \A i \in DOMAIN queue' : pc'[queue'[i]] = "parked"
    BY <2>1, <2>2, <2>3
  <2>5. \A d \in Callers : pc'[d] = "parked" => \E i \in DOMAIN queue' : queue'[i] = d
    <3> SUFFICES ASSUME NEW d \in Callers, pc'[d] = "parked"
                 PROVE  \E i \in DOMAIN queue' : queue'[i] = d
      OBVIOUS
    <3>1. CASE d = c
      BY <2>1, <3>1
    <3>2. CASE d # c
      <4>1. PICK i \in DOMAIN queue : queue[i] = d
        BY <1>0, <2>2, <3>2 DEF Queued
      <4> QED
        BY <2>1, <4>1
    <3> QED
      BY <3>1, <3>2
  <2>6. \A i, j \in DOMAIN queue' : queue'[i] = queue'[j] => i = j
    <3>1. \A i, j \in 1 .. Len(queue) : queue[i] = queue[j] => i = j
      BY <1>0, <2>1 DEF Queued
    <3> QED
      BY <2>1, <2>3, <3>1
  <2> QED
    BY <2>2, <2>4, <2>5, <2>6 DEF Queued
<1>4. ASSUME NEW c \in Callers, GiveUp(c) PROVE Queued'
  <2>1. /\ pc'[c] = "idle" /\ sem' = sem
        /\ \A d \in Callers \ {c} : pc'[d] = pc[d]
    BY <1>0, <1>4 DEF GiveUp, Goto, TypeOK
  <2>2. CASE pc[c] = "select"
    <3>1. queue' = queue
      BY <1>4, <2>2 DEF GiveUp, Unqueue
    <3> QED
      BY <1>0, <2>1, <2>2, <3>1, QueueAlone
  <2>3. CASE pc[c] = "parked"
    <3>1. PICK i \in DOMAIN queue : queue[i] = c /\ queue' = Unqueued(i)
      BY <1>4, <2>3 DEF GiveUp, Unqueue
    <3>2. /\ DOMAIN queue = 1 .. Len(queue) /\ Len(queue) \in Nat
          /\ DOMAIN queue' = 1 .. Len(queue) - 1
          /\ \A k \in 1 .. Len(queue) - 1 :
                 queue'[k] = queue[IF k < i THEN k ELSE k + 1]
          /\ \A k \in 1 .. Len(queue) : queue[k] \in Callers
      BY <1>0, <3>1 DEF TypeOK, Unqueued
    <3>3. \A k \in 1 .. Len(queue) : k # i => queue[k] # c /\ pc[queue[k]] = "parked"
      BY <1>0, <3>1, <3>2 DEF Queued
    <3>4. \A k \in DOMAIN queue' : pc'[queue'[k]] = "parked"
      BY <2>1, <3>1, <3>2, <3>3
    <3>5. \A d \in Callers : pc'[d] = "parked" => \E k \in DOMAIN queue' : queue'[k] = d
      <4> SUFFICES ASSUME NEW d \in Callers, pc'[d] = "parked"
                   PROVE  \E k \in DOMAIN queue' : queue'[k] = d
        OBVIOUS
      <4>1. d # c /\ pc[d] = "parked"
        BY <2>1
      <4>2. PICK k \in DOMAIN queue : queue[k] = d
        BY <1>0, <4>1 DEF Queued
      <4>3. CASE k < i
        BY <3>1, <3>2, <4>2, <4>3
      <4>4. CASE k > i
        <5>1. k - 1 \in DOMAIN queue' /\ queue'[k - 1] = queue[k]
          BY <3>1, <3>2, <4>2, <4>4
        <5> QED
          BY <4>2, <5>1
      <4> QED
        BY <3>1, <3>2, <4>1, <4>2, <4>3, <4>4
    <3>6. \A k, m \in DOMAIN queue' : queue'[k] = queue'[m] => k = m
      <4>1. \A k, m \in 1 .. Len(queue) : queue[k] = queue[m] => k = m
        BY <1>0, <3>2 DEF Queued
      <4> QED
        BY <3>1, <3>2, <4>1
    <3>7. sem' = Cap
      BY <1>0, <2>1, <3>1 DEF Queued
    <3> QED
      BY <3>4, <3>5, <3>6, <3>7 DEF Queued
  <2> QED
    BY <1>4, <2>2, <2>3 DEF GiveUp, Unqueue
<1>5. ASSUME NEW c \in Callers, Receive(c), queue = <<>> PROVE Queued'
  <2>1. queue' = queue
    BY <1>5 DEF Receive
  <2>2. \A d \in Callers : pc'[d] = "parked" <=> pc[d] = "parked"
    BY <1>0, <1>5 DEF TypeOK, Goto, Receive
  <2> QED
    BY <1>0, <1>5, <2>1, <2>2, QueueAlone
<1>6. ASSUME NEW c \in Callers, Receive(c), queue # <<>> PROVE Queued'
  <2>1. /\ DOMAIN queue = 1 .. Len(queue) /\ Len(queue) \in Nat /\ Len(queue) > 0
        /\ DOMAIN queue' = 1 .. Len(queue) - 1
        /\ \A k \in 1 .. Len(queue) - 1 : queue'[k] = queue[k + 1]
        /\ \A k \in 1 .. Len(queue) : queue[k] \in Callers
        /\ Head(queue) = queue[1]
    <3>1. queue \in Seq(Callers) /\ queue # <<>> /\ queue' = Tail(queue)
      BY <1>0, <1>6 DEF TypeOK, Receive
    <3>2. DOMAIN queue = 1 .. Len(queue) /\ Len(queue) \in Nat /\ Len(queue) > 0
      BY <3>1
    <3> QED
      BY <3>1, <3>2
  <2>2. /\ pc[c] = "leaving" /\ pc[queue[1]] = "parked"
        /\ \A k, m \in 1 .. Len(queue) : queue[k] = queue[m] => k = m
        /\ \A k \in 1 .. Len(queue) : pc[queue[k]] = "parked"
    <3>1. pc[c] = "leaving" /\ 1 \in DOMAIN queue
      BY <1>6, <2>1 DEF Receive
    <3> QED
      BY Zenon, <1>0, <2>1, <3>1 DEF Queued
  <2>3. /\ pc'[c] = "idle" /\ pc'[queue[1]] = "taken" /\ sem' = Cap
        /\ \A d \in Callers \ {c, queue[1]} : pc'[d] = pc[d]
    BY <1>0, <1>6, <2>1, <2>2 DEF Receive, TypeOK, Queued
  <2>4. \A k \in 2 .. Len(queue) : queue[k] # queue[1] /\ queue[k] # c
    BY <2>1, <2>2
  <2>5. \A k \in DOMAIN queue' : pc'[queue'[k]] = "parked"
    <3> SUFFICES ASSUME NEW k \in DOMAIN queue' PROVE pc'[queue'[k]] = "parked"
      OBVIOUS
    <3>1. k + 1 \in 2 .. Len(queue) /\ k + 1 \in 1 .. Len(queue) /\ queue'[k] = queue[k + 1]
      BY <2>1
    <3> QED
      BY <2>1, <2>2, <2>3, <2>4, <3>1
  <2>6. \A d \in Callers : pc'[d] = "parked" => \E k \in DOMAIN queue' : queue'[k] = d
    <3> SUFFICES ASSUME NEW d \in Callers, pc'[d] = "parked"
                 PROVE  \E k \in DOMAIN queue' : queue'[k] = d
      OBVIOUS
    <3>1. d # queue[1] /\ pc[d] = "parked"
      BY <2>3
    <3>2. PICK k \in DOMAIN queue : queue[k] = d
      BY <1>0, <3>1 DEF Queued
    <3>3. k - 1 \in DOMAIN queue' /\ queue'[k - 1] = queue[k]
      BY <2>1, <3>1, <3>2
    <3> QED
      BY <3>2, <3>3
  <2>7. \A k, m \in DOMAIN queue' : queue'[k] = queue'[m] => k = m
    BY <2>1, <2>2
  <2> QED
    BY <2>3, <2>5, <2>6, <2>7 DEF Queued
<1>7. CASE UNCHANGED vars
  BY <1>0, <1>7, QueueAlone DEF vars
<1> QED
  BY <1>1, <1>2, <1>3, <1>4, <1>5, <1>6, <1>7 DEF Next, Step

\* Never more in flight than permits are held.
LEMMA FlightBounded == IndInv /\ [Next]_vars => inFlight' <= Cap
<1> SUFFICES ASSUME IndInv, [Next]_vars PROVE inFlight' <= Cap
  OBVIOUS
<1>1. Counts' /\ TypeOK'
  BY CountsStep, TypeStep
<1>2. /\ On(pc, InFlight)' \subseteq On(pc, Taken)'
      /\ On(pc, Taken)' \subseteq On(pc, Busy)'
  BY DEF On, InFlight, Taken, Busy, Steps
<1>3. IsFiniteSet(On(pc, Taken)')
  BY <1>1, <1>2, FS_Subset DEF Counts
<1>4. Cardinality(On(pc, InFlight)') <= Cardinality(On(pc, Taken)')
  BY <1>2, <1>3, FS_Subset
<1> QED
  BY <1>1, <1>4, PermitsAssumption DEF Counts, TypeOK

\* A step that takes no caller into or out of the loop, and counts nobody in,
\* leaves the climb to the peak where it was.
LEMMA ClimbAlone ==
    ASSUME TypeOK, Climbing,
           UNCHANGED <<peak, count, loaded, highest>>,
           \A d \in Callers : /\ pc'[d] = "load" <=> pc[d] = "load"
                              /\ pc'[d] = "cas" <=> pc[d] = "cas"
    PROVE  Climbing'
<1>1. On(pc, {"load", "cas"})' = On(pc, {"load", "cas"}) /\ On(pc, {"cas"})' = On(pc, {"cas"})
  BY DEF On
<1> QED
  BY <1>1 DEF Climbing

\* Round the compare-and-swap loop.
LEMMA ClimbStep == IndInv /\ [Next]_vars => Climbing'
<1> SUFFICES ASSUME IndInv, [Next]_vars PROVE Climbing'
  OBVIOUS
<1> USE PermitsAssumption
<1>0. TypeOK /\ Climbing /\ inFlight' <= Cap
  BY FlightBounded DEF IndInv
<1>1. ASSUME NEW c \in Callers, \/ Enter(c) \/ EndContext(c) \/ SendNow(c) \/ Park(c)
                                \/ GiveUp(c) \/ CountOut(c)
      PROVE  Climbing'
  <2>1. UNCHANGED <<peak, count, loaded, highest>>
    BY <1>1 DEF Enter, EndContext, SendNow, Park, GiveUp, CountOut
  <2>2. \A d \in Callers : /\ pc'[d] = "load" <=> pc[d] = "load"
                           /\ pc'[d] = "cas" <=> pc[d] = "cas"
    BY SMTT(30), <1>0, <1>1
    DEF TypeOK, Goto, Enter, EndContext, SendNow, Park, GiveUp, Unqueue, CountOut
  <2> QED
    BY <1>0, <2>1, <2>2, ClimbAlone
<1>2. ASSUME NEW c \in Callers, Receive(c) PROVE Climbing'
  <2>1. UNCHANGED <<peak, count, loaded, highest>>
    BY <1>2 DEF Receive
  <2>2. \A d \in Callers : /\ pc'[d] = "load" <=> pc[d] = "load"
                           /\ pc'[d] = "cas" <=> pc[d] = "cas"
    <3>1. CASE queue = <<>>
      BY <1>0, <1>2, <3>1 DEF TypeOK, Goto, Receive
    <3>2. CASE queue # <<>>
      <4>1. queue[1] = Head(queue) /\ 1 \in DOMAIN queue /\ Head(queue) \in Callers
        BY <1>0, <3>2 DEF TypeOK
      <4>2. pc[Head(queue)] = "parked"
        BY <4>1 DEF IndInv, Queued
      <4> QED
        BY Zenon, <1>0, <1>2, <3>2, <4>1, <4>2 DEF TypeOK, Receive
    <3> QED
      BY <3>1, <3>2
  <2> QED
    BY <1>0, <2>1, <2>2, ClimbAlone
<1>3. ASSUME NEW c \in Callers, CountIn(c) PROVE Climbing'
  <2>1. /\ pc'[c] = "load" /\ count'[c] = inFlight' /\ inFlight' \in Nat
        /\ peak' = peak /\ loaded' = loaded
        /\ highest' = IF inFlight' > highest THEN inFlight' ELSE highest
        /\ \A d \in Callers \ {c} : pc'[d] = pc[d] /\ count'[d] = count[d]
    BY <1>0, <1>3 DEF TypeOK, CountIn, Goto
  <2>2. highest' <= Cap /\ highest <= highest' /\ peak' <= highest'
    BY <1>0, <2>1 DEF TypeOK, Climbing
  <2>3. \A d \in On(pc, {"load", "cas"})' : count'[d] <= highest'
    <3> SUFFICES ASSUME NEW d \in Callers, pc'[d] \in {"load", "cas"}
                 PROVE  count'[d] <= highest'
      BY DEF On
    <3>1. CASE d = c
      BY <1>0, <2>1, <3>1 DEF TypeOK
    <3>2. CASE d # c
      <4>1. count[d] <= highest /\ count'[d] = count[d] /\ count[d] \in Nat
        BY <1>0, <2>1, <3>2 DEF Climbing, On, TypeOK
      <4> QED
        BY <1>0, <2>1, <4>1 DEF TypeOK
    <3> QED
      BY <3>1, <3>2
  <2>4. \A d \in On(pc, {"cas"})' : loaded'[d] <= peak'
    BY <1>0, <2>1 DEF Climbing, On
  <2>5. peak' < highest' => \E d \in On(pc, {"load", "cas"})' : count'[d] = highest'
    <3>1. CASE inFlight' > highest
      BY <2>1, <3>1 DEF On
    <3>2. CASE ~ (inFlight' > highest)
      <4>1. highest' = highest /\ pc[c] = "taken"
        BY <1>3, <2>1, <3>2 DEF CountIn
      <4>2. peak < highest => \E d \in On(pc, {"load", "cas"}) : count[d] = highest
        BY <1>0 DEF Climbing
      <4> QED
        BY <2>1, <4>1, <4>2 DEF On
    <3> QED
      BY <3>1, <3>2
  <2> QED
    BY <2>2, <2>3, <2>4, <2>5 DEF Climbing
<1>4. ASSUME NEW c \in Callers, LoadPeak(c) PROVE Climbing'
  <2>1. /\ pc'[c] = "cas" /\ pc[c] = "load" /\ loaded'[c] = peak
        /\ peak' = peak /\ count' = count /\ highest' = highest
        /\ \A d \in Callers \ {c} : pc'[d] = pc[d] /\ loaded'[d] = loaded[d]
    BY <1>0, <1>4 DEF TypeOK, LoadPeak, Goto
  <2>2. On(pc, {"load", "cas"})' = On(pc, {"load", "cas"})
    BY <2>1 DEF On
  <2>3. \A d \in On(pc, {"cas"})' : loaded'[d] <= peak'
    BY SMTT(30), <1>0, <2>1 DEF Climbing, On, TypeOK
  <2> QED
    BY <1>0, <2>1, <2>2, <2>3 DEF Climbing
<1>5. ASSUME NEW c \in Callers, SwapPeak(c) PROVE Climbing'
  <2>0. /\ c \in On(pc, {"load", "cas"}) /\ c \in On(pc, {"cas"})
        /\ count[c] \in Nat /\ loaded[c] \in Nat /\ peak \in Nat /\ highest \in Nat
        /\ count[c] <= highest /\ loaded[c] <= peak
        /\ count' = count /\ loaded' = loaded /\ highest' = highest
    BY <1>0, <1>5 DEF SwapPeak, On, TypeOK, Climbing
  <2>1. CASE ~ (count[c] <= loaded[c] \/ peak = loaded[c])
    <3>1. /\ pc'[c] = "load" /\ peak' = peak
          /\ \A d \in Callers \ {c} : pc'[d] = pc[d]
      BY <1>0, <1>5, <2>1 DEF TypeOK, SwapPeak, Goto
    <3>2. /\ On(pc, {"load", "cas"})' = On(pc, {"load", "cas"})
          /\ On(pc, {"cas"})' \subseteq On(pc, {"cas"})
      BY <2>0, <3>1 DEF On
    <3> QED
      BY <1>0, <2>0, <3>1, <3>2 DEF Climbing
  <2>2. CASE count[c] <= loaded[c] \/ peak = loaded[c]
    <3>1. /\ pc'[c] = "held" /\ peak' = IF count[c] <= loaded[c] THEN peak ELSE count[c]
          /\ \A d \in Callers \ {c} : pc'[d] = pc[d]
      BY <1>0, <1>5, <2>2 DEF TypeOK, SwapPeak, Goto
    <3>2. /\ On(pc, {"load", "cas"})' = On(pc, {"load", "cas"}) \ {c}
          /\ On(pc, {"cas"})' = On(pc, {"cas"}) \ {c}
      BY <2>0, <3>1 DEF On
    <3>3. peak <= peak' /\ count[c] <= peak' /\ peak' <= highest /\ peak' \in Nat
      BY <1>0, <2>0, <2>2, <3>1 DEF Climbing
    <3>4. \A d \in On(pc, {"cas"})' : loaded'[d] <= peak'
      BY <1>0, <2>0, <3>2, <3>3 DEF Climbing, TypeOK, On
    <3>5. peak' < highest' => \E d \in On(pc, {"load", "cas"})' : count'[d] = highest'
      <4> SUFFICES ASSUME peak' < highest'
                   PROVE  \E d \in On(pc, {"load", "cas"})' : count'[d] = highest'
        OBVIOUS
      <4>1. peak < highest /\ count[c] # highest
        BY <2>0, <3>3
      <4>2. PICK d \in On(pc, {"load", "cas"}) : count[d] = highest
        BY <1>0, <4>1 DEF Climbing
      <4> QED
        BY <2>0, <3>2, <4>1, <4>2
    <3> QED
      BY <1>0, <2>0, <3>2, <3>3, <3>4, <3>5 DEF Climbing
  <2> QED
    BY <2>1, <2>2
<1>6. CASE UNCHANGED vars
  BY <1>0, <1>6, ClimbAlone DEF vars
<1> QED
  BY <1>1, <1>2, <1>3, <1>4, <1>5, <1>6 DEF Next, Step

\* The inductive invariant of the permits.
THEOREM Invariance == Spec => []IndInv
<1>1. IndInv /\ [Next]_vars => IndInv'
  BY CountsStep, TypeStep, QueueStep, ClimbStep DEF IndInv
<1> QED
  BY <1>1, InitIndInv, PTL DEF Spec

\* For any number of callers and any cap, the counters agree with the channel at
\* every instant and the recorded peak is exact.
THEOREM MetersRight == Spec => []MetersAgree
<1>1. IndInv => MetersAgree
  <2> SUFFICES ASSUME IndInv PROVE MetersAgree
    OBVIOUS
  <2>0. TypeOK /\ Counts /\ Queued /\ Climbing
    BY DEF IndInv
  <2>1. \A steps : At(steps) = On(pc, steps)
    BY DEF At, On
  <2>2. {queue[i] : i \in DOMAIN queue} = At({"parked"})
    <3>1. \A i \in DOMAIN queue : queue[i] \in Callers
      BY <2>0 DEF TypeOK
    <3> QED
      BY <2>0, <3>1 DEF Queued, At
  <2>3. CountersAgree
    BY <2>0, <2>1, <2>2 DEF CountersAgree, Counts, Queued, InFlight, Waiting
  <2>4. PeakIsExact
    BY <2>0, <2>1 DEF PeakIsExact, Climbing, TypeOK
  <2> QED
    BY <2>3, <2>4 DEF MetersAgree
<1> QED
  BY <1>1, Invariance, PTL

-----------------------------------------------------------------------------
(***************************************************************************)
(* The permits implement the abstract pool.                                *)
(***************************************************************************)

\* Every step of the code is one of the pool's, or none.
LEMMA PoolStep == IndInv /\ [Next]_vars => [Pool!Next]_(Pool!pool)
<1> SUFFICES ASSUME IndInv, [Next]_vars PROVE [Pool!Next]_(Pool!pool)
  OBVIOUS
<1> DEFINE asking == At({"select", "parked"})
           holding == At(Taken)
<1>0. TypeOK
  BY DEF IndInv
<1>1. ASSUME asking' = asking, holding' = holding PROVE [Pool!Next]_(Pool!pool)
  BY <1>1 DEF Pool!pool
<1>2. ASSUME NEW c \in Callers, Enter(c) PROVE [Pool!Next]_(Pool!pool)
  <2>1. c \notin asking \cup holding /\ asking' = asking \cup {c} /\ holding' = holding
    BY <1>0, <1>2 DEF TypeOK, Enter, Goto, At, Taken
  <2>2. Pool!Ask(c)
    BY <2>1 DEF Pool!Ask
  <2> QED
    BY <2>2 DEF Pool!Next
<1>3. ASSUME NEW c \in Callers, SendNow(c) PROVE [Pool!Next]_(Pool!pool)
  <2>1. /\ c \in asking /\ asking' = asking \ {c} /\ holding' = holding \cup {c}
    BY <1>0, <1>3 DEF TypeOK, SendNow, Goto, At, Taken
  <2>2. holding = On(pc, Taken)
    BY DEF At, On
  <2>3. Cardinality(holding) < Cap
    BY <1>3, <2>2 DEF IndInv, Counts, SendNow
  <2>4. Pool!Grant(c)
    BY Zenon, <2>1, <2>3 DEF Pool!Grant, Pool!Cardinality, Cardinality
  <2> QED
    BY <2>4 DEF Pool!Next
<1>4. ASSUME NEW c \in Callers, GiveUp(c) PROVE [Pool!Next]_(Pool!pool)
  <2>1. c \in asking /\ asking' = asking \ {c} /\ holding' = holding
    BY <1>0, <1>4 DEF TypeOK, GiveUp, Unqueue, Goto, At, Taken
  <2>2. Pool!GiveUp(c)
    BY <2>1 DEF Pool!GiveUp
  <2> QED
    BY <2>2 DEF Pool!Next
<1>5. ASSUME NEW c \in Callers, Receive(c), queue = <<>> PROVE [Pool!Next]_(Pool!pool)
  <2>1. c \in holding /\ holding' = holding \ {c} /\ asking' = asking
    BY <1>0, <1>5 DEF TypeOK, Receive, Goto, At, Taken
  <2>2. Pool!Release(c)
    BY <2>1 DEF Pool!Release
  <2> QED
    BY <2>2 DEF Pool!Next
<1>6. ASSUME NEW c \in Callers, Receive(c), queue # <<>> PROVE [Pool!Next]_(Pool!pool)
  <2> DEFINE d == Head(queue)
  <2>1. d \in Callers /\ d = queue[1] /\ 1 \in DOMAIN queue
    BY <1>0, <1>6 DEF TypeOK
  <2>2. pc[d] = "parked" /\ pc[c] = "leaving"
    BY <1>6, <2>1 DEF IndInv, Queued, Receive
  <2>3. pc' = [pc EXCEPT ![c] = "idle", ![d] = "taken"]
    BY <1>6 DEF Receive
  <2> HIDE DEF d
  <2>4. /\ c \in holding /\ d \in asking
        /\ holding' = (holding \ {c}) \cup {d} /\ asking' = asking \ {d}
    BY <1>0, <2>1, <2>2, <2>3 DEF TypeOK, At, Taken
  <2>5. Pool!HandOver(c, d)
    BY <2>4 DEF Pool!HandOver
  <2> QED
    BY <2>1, <2>5 DEF Pool!Next
<1>7. ASSUME NEW c \in Callers, \/ EndContext(c) \/ Park(c) \/ CountIn(c) \/ LoadPeak(c)
                                \/ SwapPeak(c) \/ CountOut(c)
      PROVE  [Pool!Next]_(Pool!pool)
  <2>1. asking' = asking /\ holding' = holding
    BY Zenon, <1>0, <1>7
    DEF TypeOK, EndContext, Park, CountIn, LoadPeak, SwapPeak, CountOut, Goto, At, Taken
  <2> QED
    BY <1>1, <2>1
<1>8. CASE UNCHANGED vars
  <2>1. asking' = asking /\ holding' = holding
    BY <1>8 DEF At, vars
  <2> QED
    BY <1>1, <2>1
<1> QED
  BY <1>2, <1>3, <1>4, <1>5, <1>6, <1>7, <1>8 DEF Next, Step

\* The channel, its queue and the counters implement the pool of permits, for
\* any number of callers and any cap.
THEOREM PermitsArePool == Spec => ImplementsPool
<1>1. Init => Pool!Init
  BY DEF Init, Pool!Init, At, Taken
<1> QED
  BY <1>1, PoolStep, Invariance, PTL DEF ImplementsPool, Pool!Spec, Spec
=============================================================================
