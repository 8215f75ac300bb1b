------------------------ MODULE LoadGenerator_proofs ------------------------
(***************************************************************************)
(* Proofs about LoadGenerator, for any number of requests and slots.       *)
(*                                                                         *)
(* The counters of the program are related to sets of goroutines: the      *)
(* slots in use to those between started and counted, the WaitGroup to     *)
(* those that have not ended (and to the one main is about to start), the  *)
(* counter of a type to the tasks of that type, successCount to the        *)
(* accepted requests that were counted.  Each of the three properties is   *)
(* an instance of one of these equations.                                  *)
(***************************************************************************)
EXTENDS LoadGenerator, FiniteSetTheorems, TLAPS

(* Where a goroutine is, who holds a slot, whom the WaitGroup counts, and  *)
(* the one main has counted but not started.                               *)
States == {"none", "started", "sent", "answered", "counted", "released", "ended"}
Holding == {"started", "sent", "answered", "counted"}
Running == Holding \cup {"released"}
Pending == IF main = "acquire" THEN 1 ELSE 0

(* The requests each counter of the report stands for. *)
OfKind(k) == {r \in Requests : task[r] = k}
CountedOnes == accepted \cap InState({"counted", "released", "ended"})

(* The inductive invariant. *)
GInv ==
    /\ TypeOK
    /\ semaphore = Cardinality(InState(Holding)) /\ semaphore <= Concurrency
    /\ wg = Cardinality(InState(Running)) + Pending
    /\ \A r \in Requests : request[r] # "none" <=> r <= totalSentCount - Pending
    /\ \A r \in Requests : task[r] = NoTask <=> request[r] \in {"none", "started"}
    /\ \A k \in Kinds : kindCount[k] = Cardinality(OfKind(k))
    /\ accepted \cap InState({"none", "started", "sent"}) = {}
    /\ successCount = Cardinality(CountedOnes)
    /\ main = "sending" => totalSentCount < MaxRequests
    /\ main = "acquire" => totalSentCount > 0
    /\ main = "reported" => wg = 0

-----------------------------------------------------------------------------
(* What is counted is at most the requests. *)
LEMMA AtMostRequests ==
    ASSUME NEW S \in SUBSET Requests
    PROVE  IsFiniteSet(S) /\ Cardinality(S) \in 0..MaxRequests
<1>1. MaxRequests \in Nat
  BY ConcurrencyAssumption
<1>2. IsFiniteSet(Requests) /\ Cardinality(Requests) = MaxRequests
  BY <1>1, FS_Interval DEF Requests
<1>3. IsFiniteSet(S) /\ Cardinality(S) <= Cardinality(Requests)
  BY <1>2, FS_Subset
<1>4. Cardinality(S) \in Nat
  BY <1>3, FS_CardinalityType
<1> QED
  BY <1>1, <1>2, <1>3, <1>4

(* A goroutine that moves on enters a set of states, leaves it, or neither. *)
LEMMA OneMoves ==
    ASSUME request \in [Requests -> States],
           NEW r \in Requests, NEW to \in States, NEW S,
           request' = [request EXCEPT ![r] = to]
    PROVE  /\ to \in S /\ request[r] \notin S =>
                Cardinality(InState(S)') = Cardinality(InState(S)) + 1
           /\ to \notin S /\ request[r] \in S =>
                /\ Cardinality(InState(S)') = Cardinality(InState(S)) - 1
                /\ Cardinality(InState(S)) > 0
           /\ (to \in S <=> request[r] \in S) => InState(S)' = InState(S)
<1>1. IsFiniteSet(InState(S)) /\ Cardinality(InState(S)) \in Nat
  BY AtMostRequests DEF InState
<1>2. ASSUME to \in S, request[r] \notin S
      PROVE  Cardinality(InState(S)') = Cardinality(InState(S)) + 1
  <2>1. InState(S)' = InState(S) \cup {r} /\ r \notin InState(S)
    BY <1>2 DEF InState
  <2> QED
    BY <1>1, <2>1, FS_AddElement
<1>3. ASSUME to \notin S, request[r] \in S
      PROVE  /\ Cardinality(InState(S)') = Cardinality(InState(S)) - 1
             /\ Cardinality(InState(S)) > 0
  <2>1. InState(S)' = InState(S) \ {r} /\ r \in InState(S)
    BY <1>3 DEF InState
  <2>2. Cardinality(InState(S)) # 0
    BY <1>1, <2>1, FS_EmptySet
  <2>3. Cardinality(InState(S) \ {r}) = Cardinality(InState(S)) - 1
    BY <1>1, <2>1, FS_RemoveElement
  <2> QED
    BY <1>1, <2>1, <2>2, <2>3
<1>4. ASSUME to \in S <=> request[r] \in S
      PROVE  InState(S)' = InState(S)
  BY <1>4 DEF InState
<1> QED
  BY <1>2, <1>3, <1>4

(* Nothing is counted and nothing runs in the beginning. *)
LEMMA GInvInit == Init => GInv
<1> SUFFICES ASSUME Init PROVE GInv
  OBVIOUS
<1>1. /\ \A S : "none" \notin S => InState(S) = {}
      /\ \A k \in Kinds : OfKind(k) = {}
      /\ CountedOnes = {}
  BY KindsAssumption DEF Init, InState, OfKind, CountedOnes
<1>2. InState(Holding) = {} /\ InState(Running) = {}
  BY <1>1 DEF Holding, Running
<1>3. Cardinality({}) = 0
  BY FS_EmptySet
<1> QED
  <2>1. TypeOK
    <3>1. MaxRequests \in Nat /\ 0 \in 0..MaxRequests
      BY ConcurrencyAssumption
    <3>2. /\ kindCount \in [Kinds -> 0..MaxRequests]
          /\ request \in [Requests -> States]
          /\ task \in [Requests -> Kinds \cup {NoTask}]
      BY <3>1 DEF Init, States
    <3>3. sigChan \in 0..1 /\ handler \in {"waiting", "gone"}
      BY DEF Init
    <3>5. stopChan \in BOOLEAN
      BY Zenon DEF Init
    <3>4. /\ {wg, totalSentCount, successCount} \subseteq 0..MaxRequests
          /\ semaphore \in Nat /\ accepted \subseteq Requests
          /\ main \in {"select", "sending", "acquire", "wait", "reported"}
      BY <3>1 DEF Init
    <3> QED
      BY <3>2, <3>3, <3>4, <3>5 DEF TypeOK, States
  <2>2. \A r \in Requests : request[r] = "none" /\ task[r] = NoTask /\ r > 0
    BY DEF Init, Requests
  <2>3. /\ main = "select" /\ wg = 0 /\ semaphore = 0
        /\ totalSentCount = 0 /\ successCount = 0 /\ accepted = {}
        /\ \A k \in Kinds : kindCount[k] = 0
    BY DEF Init
  <2>4. \A r \in Requests : request[r] # "none" <=> r <= totalSentCount - Pending
    BY <2>2, <2>3 DEF Pending, Requests
  <2> QED
    BY <1>1, <1>2, <1>3, <2>1, <2>2, <2>3, <2>4, ConcurrencyAssumption DEF GInv, Pending

(* Steps of main that neither count nor start anything, and Ctrl+C. *)
LEMMA QuietSteps ==
    ASSUME GInv, Interrupt \/ OnSignal \/ Select \/ Report
    PROVE  GInv'
<1>1. /\ UNCHANGED <<wg, semaphore, counts, request, task, accepted>>
      /\ main' \in {"select", "sending", "wait", "reported"} \/ main' = main
      /\ main # "acquire" \/ main' = main
      /\ main' = "sending" => totalSentCount < MaxRequests
      /\ main' = "reported" => wg = 0
  BY DEF GInv, Interrupt, OnSignal, Select, Report
<1>2. sigChan' \in 0..1 /\ handler' \in {"waiting", "gone"} /\ stopChan' \in BOOLEAN
  <2> sigChan \in 0..1 /\ handler \in {"waiting", "gone"} /\ stopChan \in BOOLEAN
    BY DEF GInv, TypeOK
  <2>1. CASE Interrupt \/ OnSignal
    <3>1. /\ sigChan' = 0 \/ sigChan' = 1
          /\ handler' = handler \/ handler' = "gone"
          /\ stopChan' = stopChan \/ stopChan' = TRUE
      BY <2>1 DEF Interrupt, OnSignal
    <3>2. sigChan' \in 0..1 /\ handler' \in {"waiting", "gone"}
      BY <3>1
    <3> QED
      BY <3>1, <3>2, Zenon
  <2>2. CASE Select \/ Report
    <3>1. sigChan' = sigChan /\ handler' = handler /\ stopChan' = stopChan
      BY <2>2 DEF Select, Report, channels
    <3> QED
      BY <3>1
  <2> QED
    BY <2>1, <2>2
<1>3. /\ Pending' = Pending /\ CountedOnes' = CountedOnes
      /\ \A S : InState(S)' = InState(S)
      /\ \A k : OfKind(k)' = OfKind(k)
  BY <1>1 DEF Pending, CountedOnes, InState, OfKind
<1> QED
  BY <1>1, <1>2, <1>3 DEF GInv, TypeOK, counts

(* main counts a request, in totalSentCount and in the WaitGroup. *)
LEMMA SendStep ==
    ASSUME GInv, Send
    PROVE  GInv'
<1>1. /\ Pending = 0 /\ Pending' = 1
      /\ \A S : InState(S)' = InState(S)
      /\ \A k : OfKind(k)' = OfKind(k)
      /\ CountedOnes' = CountedOnes
  BY DEF Send, Pending, CountedOnes, InState, OfKind, channels
<1>2. totalSentCount \in 0..MaxRequests /\ totalSentCount < MaxRequests
  BY DEF GInv, TypeOK, Send
<1>3. Cardinality(InState(Running)) <= totalSentCount
  <2>1. InState(Running) \subseteq 1..totalSentCount
    BY <1>1, <1>2 DEF GInv, InState, Running, Holding, Requests
  <2>2. IsFiniteSet(1..totalSentCount) /\ Cardinality(1..totalSentCount) = totalSentCount
    BY <1>2, FS_Interval
  <2> QED
    BY <2>1, <2>2, FS_Subset
<1>4. Cardinality(InState(Running)) \in Nat
  BY AtMostRequests DEF InState
<1>5. wg' \in 0..MaxRequests
  BY <1>1, <1>2, <1>3, <1>4, ConcurrencyAssumption DEF GInv, Send, Added
<1>6. TypeOK'
  BY <1>2, <1>5, ConcurrencyAssumption DEF GInv, TypeOK, Send, channels
<1>7. \A r \in Requests : request'[r] # "none" <=> r <= totalSentCount' - Pending'
  BY <1>1, <1>2 DEF GInv, Send, Requests
<1> QED
  <2>1. wg' = Cardinality(InState(Running)) + Pending'
    BY <1>1, <1>4 DEF GInv, Send, Added
  <2>2. totalSentCount' > 0
    BY <1>2 DEF Send
  <2> QED
    BY <1>1, <1>6, <1>7, <2>1, <2>2 DEF GInv, Send

(* A slot is taken, and the request counted last gets its goroutine. *)
LEMMA AcquireStep ==
    ASSUME GInv, Acquire
    PROVE  GInv'
<1>1. /\ totalSentCount \in Requests /\ request[totalSentCount] = "none"
      /\ Pending = 1 /\ Pending' = 0
  BY DEF GInv, TypeOK, Acquire, Pending, Requests
<1>2. /\ request \in [Requests -> States] /\ "started" \in States
      /\ request' = [request EXCEPT ![totalSentCount] = "started"]
  BY DEF GInv, TypeOK, Acquire, States
<1>3. /\ Cardinality(InState(Holding)') = Cardinality(InState(Holding)) + 1
      /\ Cardinality(InState(Running)') = Cardinality(InState(Running)) + 1
      /\ InState({"none", "started", "sent"})' = InState({"none", "started", "sent"})
      /\ InState({"counted", "released", "ended"})' = InState({"counted", "released", "ended"})
  <2>1. request[totalSentCount] = "none" /\ totalSentCount \in Requests
    BY <1>1
  <2>2. Cardinality(InState(Holding)') = Cardinality(InState(Holding)) + 1
    <3>1. "started" \in Holding /\ request[totalSentCount] \notin Holding
      BY <2>1 DEF Holding
    <3> QED
      BY <1>2, <2>1, <3>1, OneMoves
  <2>3. Cardinality(InState(Running)') = Cardinality(InState(Running)) + 1
    <3>1. "started" \in Running /\ request[totalSentCount] \notin Running
      BY <2>1 DEF Running, Holding
    <3> QED
      BY <1>2, <2>1, <3>1, OneMoves
  <2>4. InState({"none", "started", "sent"})' = InState({"none", "started", "sent"})
    BY <1>2, <2>1 DEF InState
  <2>5. InState({"counted", "released", "ended"})' = InState({"counted", "released", "ended"})
    BY <1>2, <2>1 DEF InState
  <2> QED
    BY <2>2, <2>3, <2>4, <2>5
<1>4. TypeOK'
  <2>1. semaphore' \in Nat /\ {wg', totalSentCount', successCount'} \subseteq 0..MaxRequests
    BY DEF GInv, TypeOK, Acquire, counts
  <2>2. request' \in [Requests -> States]
    BY <1>2
  <2> QED
    BY <2>1, <2>2 DEF GInv, TypeOK, Acquire, channels, counts, States
<1>5. semaphore' = Cardinality(InState(Holding)') /\ semaphore' <= Concurrency
  BY <1>3, ConcurrencyAssumption DEF GInv, TypeOK, Acquire, Slots
<1>6. wg' = Cardinality(InState(Running)') + Pending'
  <2>1. Cardinality(InState(Running)) \in Nat
    BY AtMostRequests DEF InState
  <2> QED
    BY <1>1, <1>3, <2>1 DEF GInv, Acquire
<1>7. \A r \in Requests : request'[r] # "none" <=> r <= totalSentCount' - Pending'
  BY <1>1, <1>2 DEF GInv, Acquire, TypeOK, Requests, counts
<1>8. \A r \in Requests : task'[r] = NoTask <=> request'[r] \in {"none", "started"}
  BY <1>1, <1>2 DEF GInv, Acquire, TypeOK
<1>9. CountedOnes' = CountedOnes /\ \A k : OfKind(k)' = OfKind(k)
  BY <1>3 DEF CountedOnes, OfKind, Acquire
<1> QED
  BY <1>3, <1>4, <1>5, <1>6, <1>7, <1>8, <1>9 DEF GInv, Acquire, counts

-----------------------------------------------------------------------------
(* What a step of a goroutine leaves of GInv, the counters apart. *)
Moved(r, from, to) ==
    /\ request' = [request EXCEPT ![r] = to] /\ request[r] = from
    /\ request \in [Requests -> States] /\ request' \in [Requests -> States]
    /\ main # "reported" /\ UNCHANGED <<main, totalSentCount>>
    /\ sigChan' \in 0..1 /\ handler' \in {"waiting", "gone"}
    /\ stopChan' \in BOOLEAN /\ main' \in {"select", "sending", "acquire", "wait"}
    /\ Pending' = Pending
    /\ \A q \in Requests : request'[q] # "none" <=> q <= totalSentCount' - Pending'

(* A guarded move of a goroutine while main is still there is such a step. *)
LEMMA GotoStep ==
    ASSUME GInv, NEW r \in Requests, NEW from \in States, NEW to \in States,
           Goto(r, from, to), from # "none", to # "none"
    PROVE  Moved(r, from, to)
<1>1. /\ request' = [request EXCEPT ![r] = to] /\ request[r] = from
      /\ main # "reported" /\ UNCHANGED <<main, totalSentCount>>
      /\ sigChan' = sigChan /\ handler' = handler /\ stopChan' = stopChan
  BY DEF Goto, channels
<1>2. request \in [Requests -> States]
  BY DEF GInv, TypeOK, States
<1>3. request' \in [Requests -> States]
  BY <1>1, <1>2
<1>4. /\ sigChan \in 0..1 /\ handler \in {"waiting", "gone"} /\ stopChan \in BOOLEAN
      /\ main \in {"select", "sending", "acquire", "wait", "reported"}
  BY DEF GInv, TypeOK
<1>5. Pending' = Pending
  BY <1>1 DEF Pending
<1>6. \A q \in Requests : request'[q] # "none" <=> request[q] # "none"
  BY <1>1, <1>2
<1>7. \A q \in Requests : request'[q] # "none" <=> q <= totalSentCount' - Pending'
  BY <1>1, <1>5, <1>6 DEF GInv
<1>8. main' \in {"select", "sending", "acquire", "wait"}
  BY <1>1, <1>4
<1>9. sigChan' \in 0..1 /\ handler' \in {"waiting", "gone"} /\ stopChan' \in BOOLEAN
  BY <1>1, <1>4
<1> QED
  BY <1>1, <1>2, <1>3, <1>5, <1>7, <1>8, <1>9 DEF Moved

(* A goroutine that stays among those a counter stands for leaves it alone. *)
LEMMA SetsKept ==
    ASSUME NEW r \in Requests, NEW from \in States, NEW to \in States, Moved(r, from, to)
    PROVE  /\ (to \in Holding <=> from \in Holding) => InState(Holding)' = InState(Holding)
           /\ (to \in Running <=> from \in Running) => InState(Running)' = InState(Running)
           /\ (to \in {"none", "started", "sent"} <=> from \in {"none", "started", "sent"}) =>
                InState({"none", "started", "sent"})' = InState({"none", "started", "sent"})
           /\ (to \in {"counted", "released", "ended"}
                 <=> from \in {"counted", "released", "ended"}) =>
                InState({"counted", "released", "ended"})' =
                  InState({"counted", "released", "ended"})
<1>1. /\ request \in [Requests -> States] /\ request[r] = from
      /\ request' = [request EXCEPT ![r] = to]
  BY DEF Moved
<1>2. ASSUME NEW S, to \in S <=> from \in S
      PROVE  InState(S)' = InState(S)
  BY <1>1, <1>2 DEF InState
<1>3. (to \in Holding <=> from \in Holding) => InState(Holding)' = InState(Holding)
  BY <1>2
<1>4. (to \in Running <=> from \in Running) => InState(Running)' = InState(Running)
  BY <1>2
<1>5. (to \in {"none", "started", "sent"} <=> from \in {"none", "started", "sent"}) =>
        InState({"none", "started", "sent"})' = InState({"none", "started", "sent"})
  BY <1>2
<1>6. (to \in {"counted", "released", "ended"} <=> from \in {"counted", "released", "ended"}) =>
        InState({"counted", "released", "ended"})' = InState({"counted", "released", "ended"})
  BY <1>2
<1> QED
  BY <1>3, <1>4, <1>5, <1>6

(* The same for a step after which the task is still what it was. *)
LEMMA SameTask ==
    ASSUME GInv, NEW r \in Requests, UNCHANGED <<task, kindCount>>,
           request \in [Requests -> States], NEW to \in States \ {"none", "started"},
           request' = [request EXCEPT ![r] = to], request[r] \notin {"none", "started"}
    PROVE  /\ \A q \in Requests : task'[q] = NoTask <=> request'[q] \in {"none", "started"}
           /\ \A k \in Kinds : kindCount'[k] = Cardinality(OfKind(k)')
           /\ task' \in [Requests -> Kinds \cup {NoTask}]
           /\ kindCount' \in [Kinds -> 0..MaxRequests]
<1>1. \A q \in Requests : request'[q] \in {"none", "started"} <=> request[q] \in {"none", "started"}
  OBVIOUS
<1>2. \A k : OfKind(k)' = OfKind(k)
  BY DEF OfKind
<1> QED
  BY <1>1, <1>2 DEF GInv, TypeOK

(* A task is drawn: its type has one task more, and its counter says so. *)
LEMMA DrawStep ==
    ASSUME GInv, NEW r \in Requests, generateProbabilisticTask(r)
    PROVE  GInv'
<1>1. /\ Goto(r, "started", "sent")
      /\ UNCHANGED <<wg, semaphore, successCount, accepted>>
  BY DEF generateProbabilisticTask
<1>2. PICK k \in Kinds : /\ kindCount' = [kindCount EXCEPT ![k] = @ + 1]
                        /\ task' = [task EXCEPT ![r] = k]
  BY DEF generateProbabilisticTask
<1>3. "started" \in States /\ "sent" \in States
  BY DEF States
<1>4. Moved(r, "started", "sent")
  BY <1>1, <1>3, GotoStep
<1>5. /\ InState(Holding)' = InState(Holding) /\ InState(Running)' = InState(Running)
      /\ InState({"none", "started", "sent"})' = InState({"none", "started", "sent"})
      /\ InState({"counted", "released", "ended"})' = InState({"counted", "released", "ended"})
  BY <1>3, <1>4, SetsKept DEF Holding, Running
<1>6. task \in [Requests -> Kinds \cup {NoTask}] /\ task[r] = NoTask
  BY <1>4 DEF GInv, TypeOK, Moved
<1>7. task' \in [Requests -> Kinds \cup {NoTask}]
  BY <1>2, <1>6
<1>8. \A q \in Requests : task'[q] = NoTask <=> request'[q] \in {"none", "started"}
  BY <1>2, <1>4, <1>6, KindsAssumption DEF GInv, Moved
<1>9. \A j \in Kinds : kindCount'[j] = Cardinality(OfKind(j)')
  <2>1. kindCount \in [Kinds -> 0..MaxRequests]
    BY DEF GInv, TypeOK
  <2>2. ASSUME NEW j \in Kinds PROVE kindCount'[j] = Cardinality(OfKind(j)')
    <3>1. CASE j = k
      <4>1. OfKind(k)' = OfKind(k) \cup {r} /\ r \notin OfKind(k)
        BY <1>2, <1>6, KindsAssumption DEF OfKind
      <4>2. IsFiniteSet(OfKind(k))
        BY AtMostRequests DEF OfKind
      <4>3. kindCount'[k] = kindCount[k] + 1
        BY <1>2, <2>1
      <4>4. kindCount[k] = Cardinality(OfKind(k)) /\ Cardinality(OfKind(k)) \in Nat
        BY <4>2, FS_CardinalityType DEF GInv
      <4>5. Cardinality(OfKind(k) \cup {r}) = Cardinality(OfKind(k)) + 1
        BY <4>1, <4>2, FS_AddElement
      <4> QED
        BY <3>1, <4>1, <4>3, <4>4, <4>5
    <3>2. CASE j # k
      <4>1. OfKind(j)' = OfKind(j)
        BY <1>2, <1>6, <3>2, KindsAssumption DEF OfKind
      <4>2. kindCount'[j] = kindCount[j]
        BY <1>2, <2>1, <3>2
      <4> QED
        BY <4>1, <4>2 DEF GInv
    <3> QED
      BY <3>1, <3>2
  <2> QED
    BY <2>2
<1>10. kindCount' \in [Kinds -> 0..MaxRequests]
  <2>1. \A j \in Kinds : kindCount'[j] \in 0..MaxRequests
    <3>1. \A j \in Kinds : Cardinality(OfKind(j)') \in 0..MaxRequests
      BY AtMostRequests DEF OfKind
    <3> QED
      BY <1>9, <3>1
  <2>2. kindCount \in [Kinds -> 0..MaxRequests]
    BY DEF GInv, TypeOK
  <2> QED
    BY <1>2, <2>1, <2>2
<1>11. CountedOnes' = CountedOnes
  BY <1>1, <1>5 DEF CountedOnes
<1>12. TypeOK'
  BY <1>1, <1>4, <1>7, <1>10 DEF GInv, TypeOK, States, Moved
<1> QED
  BY <1>1, <1>4, <1>5, <1>8, <1>9, <1>11, <1>12 DEF GInv, Moved

(* An answer, or none: the request is accepted, or not, before it is counted. *)
LEMMA AnswerStep ==
    ASSUME GInv, NEW r \in Requests, Accepted(r) \/ Fails(r)
    PROVE  GInv'
<1>1. /\ Goto(r, "sent", "answered")
      /\ UNCHANGED <<wg, semaphore, successCount, kindCount, task>>
      /\ accepted' = accepted \cup {r} \/ accepted' = accepted
  BY DEF Accepted, Fails
<1>3. "sent" \in States /\ "answered" \in States
  BY DEF States
<1>4. Moved(r, "sent", "answered")
  BY <1>1, <1>3, GotoStep
<1>5. InState(Holding)' = InState(Holding) /\ InState(Running)' = InState(Running)
  BY <1>3, <1>4, SetsKept DEF Holding, Running
<1>6. /\ accepted' \cap InState({"none", "started", "sent"})' = {}
      /\ accepted' \subseteq Requests
  BY <1>1, <1>4 DEF GInv, TypeOK, InState, Moved
<1>7. CountedOnes' = CountedOnes
  BY <1>1, <1>4 DEF CountedOnes, InState, Moved
<1>8. /\ \A q \in Requests : task'[q] = NoTask <=> request'[q] \in {"none", "started"}
      /\ \A k \in Kinds : kindCount'[k] = Cardinality(OfKind(k)')
      /\ task' \in [Requests -> Kinds \cup {NoTask}]
      /\ kindCount' \in [Kinds -> 0..MaxRequests]
  BY <1>1, <1>3, <1>4, SameTask DEF Moved
<1>9. TypeOK'
  BY <1>1, <1>4, <1>6, <1>8 DEF GInv, TypeOK, States, Moved
<1> QED
  BY <1>1, <1>4, <1>5, <1>6, <1>7, <1>8, <1>9 DEF GInv, Moved

(* A request is counted once: among those counted it is new. *)
LEMMA CountStep ==
    ASSUME GInv, NEW r \in Requests, Count(r)
    PROVE  GInv'
<1>1. /\ Goto(r, "answered", "counted")
      /\ successCount' = successCount + Success(r)
      /\ UNCHANGED <<wg, semaphore, kindCount, task, accepted>>
  BY DEF Count
<1>3. "answered" \in States /\ "counted" \in States
  BY DEF States
<1>4. Moved(r, "answered", "counted")
  BY <1>1, <1>3, GotoStep
<1>5. /\ InState(Holding)' = InState(Holding) /\ InState(Running)' = InState(Running)
      /\ InState({"none", "started", "sent"})' = InState({"none", "started", "sent"})
  BY <1>3, <1>4, SetsKept DEF Holding, Running
<1>6. successCount' = Cardinality(CountedOnes')
  <2>1. IsFiniteSet(CountedOnes) /\ Cardinality(CountedOnes) \in Nat
    BY AtMostRequests DEF CountedOnes, InState
  <2>2. CASE r \in accepted
    <3>1. CountedOnes' = CountedOnes \cup {r} /\ r \notin CountedOnes
      BY <1>1, <1>4, <2>2 DEF CountedOnes, InState, Moved
    <3> QED
      BY <1>1, <2>1, <2>2, <3>1, FS_AddElement DEF GInv, Success
  <2>3. CASE r \notin accepted
    <3>1. CountedOnes' = CountedOnes
      BY <1>1, <1>4, <2>3 DEF CountedOnes, InState, Moved
    <3> QED
      BY <1>1, <2>1, <2>3, <3>1 DEF GInv, Success
  <2> QED
    BY <2>2, <2>3
<1>7. successCount' \in 0..MaxRequests
  BY <1>6, AtMostRequests DEF CountedOnes, InState
<1>8. /\ \A q \in Requests : task'[q] = NoTask <=> request'[q] \in {"none", "started"}
      /\ \A k \in Kinds : kindCount'[k] = Cardinality(OfKind(k)')
      /\ task' \in [Requests -> Kinds \cup {NoTask}]
      /\ kindCount' \in [Kinds -> 0..MaxRequests]
  BY <1>1, <1>3, <1>4, SameTask DEF Moved
<1>9. TypeOK'
  BY <1>1, <1>4, <1>7, <1>8 DEF GInv, TypeOK, States, Moved
<1> QED
  BY <1>1, <1>4, <1>5, <1>6, <1>8, <1>9 DEF GInv, Moved

(* A slot is freed for one goroutine fewer that holds one. *)
LEMMA ReleaseStep ==
    ASSUME GInv, NEW r \in Requests, Release(r)
    PROVE  GInv'
<1>1. /\ Goto(r, "counted", "released")
      /\ semaphore' = semaphore - 1
      /\ UNCHANGED <<wg, successCount, kindCount, task, accepted>>
  BY DEF Release, Freed
<1>2. "counted" \in States /\ "released" \in States
  BY DEF States
<1>3. Moved(r, "counted", "released")
  BY <1>1, <1>2, GotoStep
<1>4. /\ InState(Running)' = InState(Running)
      /\ InState({"none", "started", "sent"})' = InState({"none", "started", "sent"})
      /\ InState({"counted", "released", "ended"})' = InState({"counted", "released", "ended"})
  BY <1>2, <1>3, SetsKept DEF Holding, Running
<1>5. CountedOnes' = CountedOnes
  BY <1>1, <1>4 DEF CountedOnes
<1>6. /\ semaphore' = Cardinality(InState(Holding)')
      /\ semaphore' <= Concurrency /\ semaphore' \in Nat
  <2>1. /\ Cardinality(InState(Holding)') = Cardinality(InState(Holding)) - 1
        /\ Cardinality(InState(Holding)) > 0
    BY <1>2, <1>3, OneMoves DEF Holding, Moved
  <2> QED
    BY <1>1, <2>1, ConcurrencyAssumption DEF GInv, TypeOK
<1>7. /\ \A q \in Requests : task'[q] = NoTask <=> request'[q] \in {"none", "started"}
      /\ \A k \in Kinds : kindCount'[k] = Cardinality(OfKind(k)')
      /\ task' \in [Requests -> Kinds \cup {NoTask}]
      /\ kindCount' \in [Kinds -> 0..MaxRequests]
  BY <1>1, <1>2, <1>3, SameTask DEF Moved
<1>8. TypeOK'
  BY <1>1, <1>3, <1>6, <1>7 DEF GInv, TypeOK, States, Moved
<1> QED
  BY <1>1, <1>3, <1>4, <1>5, <1>6, <1>7, <1>8 DEF GInv, Moved

(* The WaitGroup is done with one goroutine fewer that runs. *)
LEMMA DoneStep ==
    ASSUME GInv, NEW r \in Requests, Done(r)
    PROVE  GInv'
<1>1. /\ Goto(r, "released", "ended")
      /\ wg' = wg - 1
      /\ UNCHANGED <<semaphore, successCount, kindCount, task, accepted>>
  BY DEF Done
<1>2. "released" \in States /\ "ended" \in States
  BY DEF States
<1>3. Moved(r, "released", "ended")
  BY <1>1, <1>2, GotoStep
<1>4. /\ InState(Holding)' = InState(Holding)
      /\ InState({"none", "started", "sent"})' = InState({"none", "started", "sent"})
      /\ InState({"counted", "released", "ended"})' = InState({"counted", "released", "ended"})
  BY <1>2, <1>3, SetsKept DEF Holding, Running
<1>5. CountedOnes' = CountedOnes
  BY <1>1, <1>4 DEF CountedOnes
<1>6. /\ wg' = Cardinality(InState(Running)') + Pending'
      /\ wg' \in 0..MaxRequests
  <2>1. /\ Cardinality(InState(Running)') = Cardinality(InState(Running)) - 1
        /\ Cardinality(InState(Running)) > 0
    BY <1>2, <1>3, OneMoves DEF Running, Holding, Moved
  <2>2. Cardinality(InState(Running)) \in Nat /\ Pending \in 0..1
    BY AtMostRequests DEF InState, Pending
  <2>3. wg \in 0..MaxRequests /\ wg = Cardinality(InState(Running)) + Pending
    BY DEF GInv, TypeOK
  <2>4. Pending' = Pending
    BY <1>3 DEF Moved
  <2> QED
    BY <1>1, <2>1, <2>2, <2>3, <2>4, ConcurrencyAssumption
<1>7. /\ \A q \in Requests : task'[q] = NoTask <=> request'[q] \in {"none", "started"}
      /\ \A k \in Kinds : kindCount'[k] = Cardinality(OfKind(k)')
      /\ task' \in [Requests -> Kinds \cup {NoTask}]
      /\ kindCount' \in [Kinds -> 0..MaxRequests]
  BY <1>1, <1>2, <1>3, SameTask DEF Moved
<1>8. TypeOK'
  BY <1>1, <1>3, <1>6, <1>7 DEF GInv, TypeOK, States, Moved
<1> QED
  BY <1>1, <1>3, <1>4, <1>5, <1>6, <1>7, <1>8 DEF GInv, Moved

-----------------------------------------------------------------------------
(* The equations between counters and goroutines hold throughout. *)
LEMMA GInvHolds == Spec => []GInv
<1>1. GInv /\ [Next]_vars => GInv'
  <2> SUFFICES ASSUME GInv, [Next]_vars PROVE GInv'
    OBVIOUS
  <2>1. CASE Interrupt \/ OnSignal \/ Select \/ Report
    BY <2>1, QuietSteps
  <2>2. CASE Send
    BY <2>2, SendStep
  <2>3. CASE Acquire
    BY <2>3, AcquireStep
  <2>4. ASSUME NEW r \in Requests, Goroutine(r) \/ Accepted(r) PROVE GInv'
    <3>1. CASE generateProbabilisticTask(r)
      BY <3>1, DrawStep
    <3>2. CASE Accepted(r) \/ Fails(r)
      BY <3>2, AnswerStep
    <3>3. CASE Count(r)
      BY <3>3, CountStep
    <3>4. CASE Release(r)
      BY <3>4, ReleaseStep
    <3>5. CASE Done(r)
      BY <3>5, DoneStep
    <3> QED
      BY <2>4, <3>1, <3>2, <3>3, <3>4, <3>5 DEF Goroutine
  <2>5. CASE UNCHANGED vars
    <3>1. UNCHANGED <<main, sigChan, handler, stopChan, wg, semaphore, totalSentCount,
                      successCount, kindCount, request, task, accepted>>
      BY <2>5 DEF vars, channels, counts
    <3>2. /\ Pending' = Pending /\ CountedOnes' = CountedOnes
          /\ \A S : InState(S)' = InState(S)
          /\ \A k : OfKind(k)' = OfKind(k)
      BY <3>1 DEF Pending, CountedOnes, InState, OfKind
    <3>3. TypeOK'
      BY <3>1 DEF GInv, TypeOK
    <3> QED
      BY <3>1, <3>2, <3>3 DEF GInv
  <2> QED
    BY <2>1, <2>2, <2>3, <2>4, <2>5 DEF Next, Main
<1> QED
  BY <1>1, GInvInit, PTL DEF Spec

(* The variables of a load generator keep their types: the WaitGroup never *)
(* goes below zero, and no counter passes the number of requests.          *)
THEOREM GeneratorTypes == Spec => []TypeOK
<1>1. GInv => TypeOK
  BY DEF GInv
<1> QED
  BY <1>1, GInvHolds, PTL

(* No more than Concurrency requests are under way: each holds a slot.     *)
THEOREM SlotsBoundRequests == Spec => []InFlightBounded
<1>1. GInv => InFlightBounded
  BY DEF GInv, InFlightBounded, Holding
<1> QED
  BY <1>1, GInvHolds, PTL

(* When main prints its report no goroutine is left, and every number of   *)
(* the report is that of the requests it stands for.                       *)
THEOREM ReportsAreComplete == Spec => []ReportComplete
<1>1. GInv => ReportComplete
  <2> SUFFICES ASSUME GInv, main = "reported" PROVE ReportComplete
    BY DEF ReportComplete
  <2>1. Pending = 0 /\ wg = 0 /\ request \in [Requests -> States]
    BY DEF GInv, TypeOK, Pending, States
  <2>2. InState(Running) = {}
    <3>1. IsFiniteSet(InState(Running)) /\ Cardinality(InState(Running)) \in Nat
      BY AtMostRequests DEF InState
    <3> QED
      BY <2>1, <3>1, FS_EmptySet DEF GInv
  <2>3. \A r \in Requests : request[r] \in {"none", "ended"}
    BY <2>1, <2>2 DEF InState, Running, Holding, States
  <2>4. totalSentCount \in 0..MaxRequests
    BY DEF GInv, TypeOK
  <2>5. \A r \in Requests : request[r] = "ended" <=> r <= totalSentCount
    BY <2>1, <2>3, <2>4 DEF GInv, Requests
  <2>6. InState({"ended"}) = 1..totalSentCount
    BY <2>4, <2>5, ConcurrencyAssumption DEF InState, Requests
  <2>7. \A r \in 1..totalSentCount : task[r] # NoTask
    BY <2>6 DEF GInv, InState
  <2>8. CountedOnes = accepted
    BY <2>3 DEF GInv, TypeOK, CountedOnes, InState
  <2> QED
    BY <2>6, <2>7, <2>8 DEF GInv, ReportComplete, OfKind
<1> QED
  BY <1>1, GInvHolds, PTL
=============================================================================
