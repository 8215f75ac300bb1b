------------------------- MODULE MasterServer_proofs -------------------------
(***************************************************************************)
(* What the master shows its users, for any number of handlers, workers,   *)
(* tasks, crashes and faults: an answer of /metrics is never a mixture of  *)
(* two published triples, it never shows more tasks waiting than requests  *)
(* made, its worker count is that of the running containers, and what the  *)
(* task panel's log calls queued is kept.                                  *)
(*                                                                         *)
(* The cluster inside the server takes its own steps (ServerSteps), so its *)
(* invariants hold in the server too, and with them its promises and the   *)
(* ledger of tasks (ServerKeepsPromises, ServerIsALedger).                 *)
(*                                                                         *)
(* The percentages measured are means over any number of containers: the   *)
(* fold that sums them is followed element by element with the principle   *)
(* of the least number (ServerTypes).                                      *)
(***************************************************************************)
EXTENDS MasterServer, Fleet_proofs

(* The orchestrator changes clusterCache only while no handler is inside.  *)
ReadersExcluded ==
    /\ lock \in {"free", "pending"} => cache = published
    /\ \A g \in Gets : get[g].stage = "reading" => lock \in {"free", "pending"}

(* What UpdateClusterMetrics has written so far of what it was given,      *)
(* which nothing changes until it has written it all.                      *)
Written ==
    /\ lock \in {"free", "pending", "memory", "count"}
    /\ lock # "free" => meter \in {"baseline", "sampled", "measured"}
    /\ lock = "memory" => cache.cpu = sample.cpu
    /\ lock = "count" => cache.cpu = sample.cpu /\ cache.mem = sample.mem

(* Triples and the handlers' locals are what they are made of. *)
Shapes ==
    /\ cache = Triple(cache.cpu, cache.mem, cache.workers)
    /\ sample = Triple(sample.cpu, sample.mem, sample.workers)
    /\ get = [g \in Gets |-> get[g]]
    /\ \A g \in Gets : get[g] = [stage |-> get[g].stage, queue |-> get[g].queue,
                                 requests |-> get[g].requests]

WholeAnswers == ReadersExcluded /\ Written /\ Shapes

(* A handler reads the cache, the queue and the counter, in this order. *)
LEMMA HandlerOrder ==
    /\ After("reading") = "queue"
    /\ After("queue") = "requests" /\ After("requests") = "answered"
<1> DEFINE Index(s) == CHOOSE i \in DOMAIN ReadOrder : ReadOrder[i] = s
<1>1. DOMAIN ReadOrder = 1..4
  BY DEF ReadOrder
<1>2. ASSUME NEW s, NEW i \in DOMAIN ReadOrder, ReadOrder[i] = s
      PROVE  Index(s) \in DOMAIN ReadOrder /\ ReadOrder[Index(s)] = s
  BY <1>2
<1>3. /\ Index("reading") \in DOMAIN ReadOrder /\ ReadOrder[Index("reading")] = "reading"
      /\ Index("queue") \in DOMAIN ReadOrder /\ ReadOrder[Index("queue")] = "queue"
      /\ Index("requests") \in DOMAIN ReadOrder /\ ReadOrder[Index("requests")] = "requests"
  <2> HIDE DEF Index
  <2> QED  BY <1>1, <1>2 DEF ReadOrder
<1>4. Index("reading") = 1 /\ Index("queue") = 2 /\ Index("requests") = 3
  <2> HIDE DEF Index
  <2> QED  BY <1>1, <1>3 DEF ReadOrder
<1>5. ReadOrder[1 + 1] = "queue" /\ ReadOrder[1 + 2] = "requests" /\ ReadOrder[1 + 3] = "answered"
  BY DEF ReadOrder
<1> QED  BY <1>4, <1>5 DEF After

(* The goroutine is somewhere else, or breaks off its measurements. *)
LEMMA StillWhole ==
    ASSUME WholeAnswers,
           UNCHANGED <<lock, sample, cache, published, get>>,
           lock = "free" \/ UNCHANGED meter
    PROVE  WholeAnswers'
BY DEF WholeAnswers, ReadersExcluded, Written, Shapes, Triple

(* A step of the orchestrator's goroutine: it measures, waits for the      *)
(* handlers that read, writes, and lets them in again.                     *)
LEMMA MeterKeepsWhole ==
    ASSUME WholeAnswers, Meter
    PROVE  WholeAnswers'
<1> USE DEF WholeAnswers, ReadersExcluded, Written, Shapes, Triple
<1>1. CASE GetTotalClusterCPU
  <2>1. lock = "free" /\ UNCHANGED <<lock, cache, published, get>>
    BY <1>1 DEF GetTotalClusterCPU
  <2>2. PICK cpu : sample' = [sample EXCEPT !.cpu = cpu]
    BY <1>1 DEF GetTotalClusterCPU
  <2>3. sample' = [cpu |-> cpu, mem |-> sample.mem, workers |-> sample.workers]
    BY <2>2
  <2> QED  BY <2>1, <2>3
<1>2. CASE GetTotalClusterMemory
  <2>1. lock = "free" /\ UNCHANGED <<lock, cache, published, get>>
    BY <1>2 DEF GetTotalClusterMemory
  <2>2. PICK mem : sample' = [sample EXCEPT !.mem = mem]
    BY <1>2 DEF GetTotalClusterMemory
  <2>3. sample' = [cpu |-> sample.cpu, mem |-> mem, workers |-> sample.workers]
    BY <2>2
  <2> QED  BY <2>1, <2>3
<1>3. CASE Baseline \/ ShowSample \/ ShowTarget
  BY <1>3 DEF Baseline, ShowSample, ShowTarget, UpdateClusterMetrics
<1>4. CASE WriteCPU
  <2>1. cache' = [cpu |-> sample.cpu, mem |-> cache.mem, workers |-> cache.workers]
    BY <1>4 DEF WriteCPU
  <2> QED  BY <1>4, <2>1 DEF WriteCPU, Readers
<1>5. CASE WriteMemory
  <2>1. cache' = [cpu |-> cache.cpu, mem |-> sample.mem, workers |-> cache.workers]
    BY <1>5 DEF WriteMemory
  <2> QED  BY <1>5, <2>1 DEF WriteMemory
<1>6. CASE WriteWorkers
  <2>1. lock' = "free" /\ published' = sample /\ UNCHANGED sample
    BY <1>6 DEF WriteWorkers, Unlock
  <2>2. cache' = [cpu |-> cache.cpu, mem |-> cache.mem, workers |-> sample.workers]
    BY <1>6 DEF WriteWorkers
  <2>3. cache' = sample
    BY <1>6, <2>2 DEF WriteWorkers
  <2>4. ASSUME NEW g \in Gets
        PROVE  get'[g] = [stage |-> get'[g].stage, queue |-> get'[g].queue,
                          requests |-> get'[g].requests]
    BY <1>6 DEF WriteWorkers
  <2>5. get' = [g \in Gets |-> get'[g]]
    BY <1>6 DEF WriteWorkers
  <2> QED  BY <2>1, <2>3, <2>4, <2>5
<1> QED  BY <1>1, <1>2, <1>3, <1>4, <1>5, <1>6 DEF Meter

(* A step of a handler of GET /metrics. *)
LEMMA HandlerKeepsWhole ==
    ASSUME WholeAnswers, NEW g \in Gets, GetMetrics(g) \/ Get(g) \/ GetFails(g)
    PROVE  WholeAnswers'
<1> USE DEF WholeAnswers, ReadersExcluded, Written, Shapes, Triple
<1> DEFINE Onward(next) ==
      \E queue, requests : get' = [get EXCEPT ![g] =
          [stage |-> next, queue |-> queue, requests |-> requests]]
<1>1. UNCHANGED <<meter, sample, lock, cache, published>>
  BY DEF GetMetrics, Get, GetFails, GetCachedClusterMetrics, GetQueueLength,
         GetRequestCount, Encode, Proceeds, goroutineVars
<1>2. get[g] = [stage |-> get[g].stage, queue |-> get[g].queue, requests |-> get[g].requests]
  OBVIOUS
<1>3. ASSUME NEW next, Onward(next),
             next = "reading" => lock = "free" \/ get[g].stage = "reading"
      PROVE  WholeAnswers'
  <2>1. PICK queue, requests : get' = [get EXCEPT ![g] =
            [stage |-> next, queue |-> queue, requests |-> requests]]
    BY <1>3
  <2>2. get' = [h \in Gets |-> get'[h]]
    BY <2>1
  <2>3. \A h \in Gets : get'[h] = [stage |-> get'[h].stage, queue |-> get'[h].queue,
                                   requests |-> get'[h].requests]
    BY <2>1
  <2>4. \A h \in Gets : get'[h].stage = "reading" => lock \in {"free", "pending"}
    BY <1>3, <2>1
  <2> QED  BY <1>1, <2>2, <2>3, <2>4
<1>4. CASE GetMetrics(g)
  <2>1. get' = [get EXCEPT ![g] = [get[g] EXCEPT !.stage = RLock]]
    BY <1>4 DEF GetMetrics
  <2>2. [get[g] EXCEPT !.stage = RLock] =
            [stage |-> RLock, queue |-> get[g].queue, requests |-> get[g].requests]
    BY <1>2
  <2>3. Onward(RLock)
    BY <2>1, <2>2
  <2>4. RLock = "reading" => lock = "free"
    BY DEF RLock
  <2> HIDE DEF Onward
  <2> QED
    BY <2>3, <2>4, <1>3
<1>5. CASE GetCachedClusterMetrics(g)
  <2>1. /\ get[g].stage = "reading"
        /\ get' = [get EXCEPT ![g] = [get[g] EXCEPT !.stage = After("reading")]]
    BY <1>5 DEF GetCachedClusterMetrics, Proceeds
  <2>2. [get[g] EXCEPT !.stage = After("reading")] =
            [stage |-> After("reading"), queue |-> get[g].queue, requests |-> get[g].requests]
    BY <1>2
  <2>3. Onward(After("reading"))
    BY <2>1, <2>2
  <2> QED  BY <2>1, <2>3, <1>3
<1>6. ASSUME NEW length, GetQueueLength(g, length)  PROVE WholeAnswers'
  BY <1>6, <1>3, HandlerOrder DEF GetQueueLength
<1>7. ASSUME NEW count, GetRequestCount(g, count)  PROVE WholeAnswers'
  BY <1>7, <1>3, HandlerOrder DEF GetRequestCount
<1>8. CASE Encode(g)
  BY <1>8, <1>3 DEF Encode, NoGet
<1> QED  BY <1>4, <1>5, <1>6, <1>7, <1>8 DEF Get, GetFails

(* Before the first round the cache is what was published: nothing. *)
LEMMA WholeStart == ServerInit => WholeAnswers
BY DEF ServerInit, TelemetryInit, WholeAnswers, ReadersExcluded, Written, Shapes, Triple, NoGet

(* No step tears what a handler reads. *)
LEMMA WholeStep == WholeAnswers /\ [ServerNext]_serverVars => WholeAnswers'
<1> SUFFICES ASSUME WholeAnswers, [ServerNext]_serverVars
             PROVE  WholeAnswers'
  OBVIOUS
<1> USE DEF telemetryVars, goroutineVars
<1>1. CASE UNCHANGED telemetryVars
  BY <1>1, StillWhole
<1>2. ASSUME NEW t \in Clicks, Click(t)  PROVE WholeAnswers'
  BY <1>2, <1>1 DEF Click
<1>3. CASE PanelEnds
  BY <1>3, <1>1 DEF PanelEnds
<1>4. ASSUME NEW t \in Tasks, Intake(t)  PROVE WholeAnswers'
  BY <1>4, <1>1 DEF Intake
<1>5. ASSUME NEW w \in Workers, WorkerSide(w)  PROVE WholeAnswers'
  BY <1>5, <1>1 DEF WorkerSide
<1>6. ASSUME NEW g \in Gets, Ask(g) \/ Answers(g) \/ AnswerFault(g)  PROVE WholeAnswers'
  BY <1>6, HandlerKeepsWhole DEF Ask, Answers, AnswerFault
<1>7. CASE Goroutine
  BY <1>7, <1>1, MeterKeepsWhole DEF Goroutine
<1>8. CASE GoroutineFault
  BY <1>8, <1>1, StillWhole DEF GoroutineFault, BaselineFails
<1>9. CASE ServerCrash
  BY <1>9 DEF ServerCrash, TelemetryRestart, WholeAnswers, ReadersExcluded, Written,
              Shapes, Triple, NoGet
<1>10. CASE UNCHANGED serverVars
  BY <1>10, <1>1 DEF serverVars
<1> QED
  BY <1>2, <1>3, <1>4, <1>5, <1>6, <1>7, <1>8, <1>9, <1>10 DEF ServerNext

(* What a handler of GET /metrics reads from clusterCache is the triple    *)
(* the orchestrator published last (docker.go, UpdateClusterMetrics and    *)
(* GetCachedClusterMetrics).                                               *)
THEOREM AnswersWhole == ServerSpec => []NoTornAnswer
<1>1. WholeAnswers => NoTornAnswer
  BY DEF WholeAnswers, ReadersExcluded, NoTornAnswer
<1> QED  BY <1>1, WholeStart, WholeStep, PTL DEF ServerSpec

-----------------------------------------------------------------------------
(* What a step of the server is to the cluster: one of its own steps, or a *)
(* failing call that only the telemetry notices.                           *)
FaultAside == Fault /\ UNCHANGED <<storeVars, req, workerVars, orchestratorVars>>

(* Every step of the server is such a step of the cluster. *)
LEMMA ServerSteps ==
    ASSUME [ServerNext]_serverVars
    PROVE  [Next]_vars \/ FaultAside
<1>1. CASE UNCHANGED vars
  BY <1>1
<1>2. ASSUME NEW t \in Tasks, Intake(t)
      PROVE  Next
  BY <1>2 DEF Intake, Next, Failure
<1>3. ASSUME NEW w \in Workers, WorkerSide(w)
      PROVE  Next
  BY <1>3 DEF WorkerSide, Next, Failure
<1>4. ASSUME NEW g \in Gets, Ask(g) \/ Answers(g) \/ AnswerFault(g)
      PROVE  UNCHANGED vars \/ FaultAside
  BY <1>4 DEF Ask, Answers, AnswerFault, FaultAside
<1>5. CASE Goroutine
  BY <1>5 DEF Goroutine, Next
<1>6. CASE GoroutineFault
  BY <1>6 DEF GoroutineFault, Next, Failure, FaultAside
<1>7. CASE ServerCrash
  BY <1>7 DEF ServerCrash, Next, Failure
<1> QED
  BY <1>1, <1>2, <1>3, <1>4, <1>5, <1>6, <1>7 DEF ServerNext, Click, PanelEnds, serverVars

(* The cluster in the server keeps its accounts. *)
LEMMA ServerAccounts ==
    ASSUME IInv, [ServerNext]_serverVars
    PROVE  IInv'
<1>1. CASE [Next]_vars
  BY <1>1, IInvStep
<1>2. CASE FaultAside
  <2>1. UNCHANGED <<task_queue, processing_queue, temp_queue, total_request, task_completed, done,
                    dropped, req, container, phase, holding, registered, signal, stage, known, hand,
                    target, quota, listed, scan, pass, victim, downs, crashes, restarts,
                    lost>>
    BY <1>2 DEF FaultAside, Fault, storeVars, lists, counters, history, workerVars,
                orchestratorVars, scaling
  <2>2. faults' \in Nat
    BY <1>2 DEF FaultAside, Fault, IInv, TypeOK
  <2>3. TypeOK'
    BY <2>1, <2>2 DEF IInv, TypeOK, StoreTypeOK, ControllerTypeOK, WorkerTypeOK, Busy,
                      OrchestratorTypeOK
  <2>4. AckingDone' /\ Accounted'
    BY <2>1 DEF IInv, AckingDone, Accounted, Tracked, Pairs
  <2> QED
    BY <2>3, <2>4 DEF IInv
<1> QED
  BY <1>1, <1>2, ServerSteps

-----------------------------------------------------------------------------
(* As long as Redis fails no command, total_request is the number of       *)
(* requests that have reached the master.                                  *)
Arrived == {t \in Tasks : req[t] # "new"}

RequestsCounted ==
    faults = 0 => IsFiniteSet(Arrived) /\ total_request = Cardinality(Arrived)

(* What happens to the counter of requests and to those that arrived. *)
LEMMA CounterStep ==
    ASSUME TypeOK, [Next]_vars, faults' = 0
    PROVE  /\ faults = 0
           /\ \/ UNCHANGED <<total_request, Arrived>>
              \/ \E t \in Tasks : /\ t \notin Arrived /\ Arrived' = Arrived \cup {t}
                                  /\ total_request' = total_request + 1
<1>1. faults \in Nat
  BY DEF TypeOK
<1>2. /\ \A w \in Workers : ~WorkerFault(w)
      /\ \A t \in Tasks : ~HandlerFault(t)
      /\ ~OrchestratorFault /\ ~MeasurementFault
  BY <1>1 DEF WorkerFault, HandlerFault, OrchestratorFault, MeasurementFault, Fault
<1>3. faults = 0
  BY <1>2 DEF Next, Failure, Handler, Loop, LoopCancelled, OnSignal, ManualStart, Orchestrate,
              WorkerCrash, MasterCrash, vars, budget
<1>4. ASSUME NEW t \in Tasks, IncrementRequestCount(t)
      PROVE  /\ t \notin Arrived /\ Arrived' = Arrived \cup {t}
             /\ total_request' = total_request + 1
  BY <1>4 DEF IncrementRequestCount, Answer, Arrived, TypeOK, ControllerTypeOK
<1>5. ASSUME NEW t \in Tasks, AcceptRequest(t) \/ RefuseRequest(t)
      PROVE  UNCHANGED <<total_request, Arrived>>
  BY <1>5 DEF AcceptRequest, RefuseRequest, Answer, Arrived, storeVars, counters, TypeOK,
              ControllerTypeOK
<1>6. ASSUME MasterCrash
      PROVE  UNCHANGED <<total_request, Arrived>>
  BY <1>6 DEF MasterCrash, Restart, Arrived, counters, TypeOK, ControllerTypeOK
<1>7. ASSUME UNCHANGED <<total_request, req>>
      PROVE  UNCHANGED <<total_request, Arrived>>
  BY <1>7 DEF Arrived
<1> USE DEF storeVars, counters
<1>8. ASSUME NEW w \in Workers, Loop(w) \/ LoopCancelled(w) \/ OnSignal(w) \/ ManualStart(w)
                                 \/ WorkerCrash(w)
      PROVE  UNCHANGED <<total_request, req>>
  BY <1>8 DEF Loop, LoopCancelled, OnSignal, ManualStart, WorkerCrash, BLPop, Register, Finish, Ack,
              PollCancelled, StoreFlag, Cancel, Die
<1>9. ASSUME Orchestrate
      PROVE  UNCHANGED <<total_request, req>>
  <2>1. CASE DestroyStep
    BY <1>9, <2>1 DEF Orchestrate, DestroyStep, Skip, Choose, Look, NextPass, DestroyEnd, StopSignal,
                      GraceExpires, Die, StopReturns, VictimDone
  <2>2. CASE Tick \/ Processing_to_main \/ ScaleUp \/ ScaleDown \/ GenerateStep
    BY <1>9, <2>2 DEF Orchestrate, Tick, Processing_to_main, SweepPop, SweepEmpty, SweepKeep,
                      SweepRequeue, Routed, SweepRestore, SweepEnd, ScaleUp, ScaleDown, GenerateStep,
                      Generate, GenerateNoID, GenerateEnd
  <2> QED
    BY <1>9, <2>1, <2>2 DEF Orchestrate
<1>10. UNCHANGED vars => UNCHANGED <<total_request, req>>
  BY DEF vars
<1> QED
  BY <1>2, <1>3, <1>4, <1>5, <1>6, <1>7, <1>8, <1>9, <1>10 DEF Next, Failure, Handler

(* Unless a call fails, requests are counted before they are queued. *)
LEMMA RequestsCountedStep ==
    ASSUME TypeOK, RequestsCounted, [ServerNext]_serverVars
    PROVE  /\ RequestsCounted'
           /\ faults' = 0 => [Next]_vars /\ faults = 0 /\ total_request' >= total_request
<1> SUFFICES ASSUME faults' = 0
             PROVE  /\ RequestsCounted' /\ [Next]_vars /\ faults = 0
                    /\ total_request' >= total_request
  BY DEF RequestsCounted
<1>1. [Next]_vars
  BY ServerSteps DEF FaultAside, Fault, TypeOK
<1>2. /\ faults = 0 /\ total_request \in Nat
      /\ IsFiniteSet(Arrived) /\ total_request = Cardinality(Arrived)
  BY <1>1, CounterStep DEF RequestsCounted, TypeOK, StoreTypeOK
<1>3. CASE UNCHANGED <<total_request, Arrived>>
  BY <1>1, <1>2, <1>3 DEF RequestsCounted
<1>4. ASSUME NEW t \in Tasks, t \notin Arrived, Arrived' = Arrived \cup {t},
             total_request' = total_request + 1
      PROVE  RequestsCounted' /\ total_request' >= total_request
  BY <1>2, <1>4, FS_AddElement DEF RequestsCounted
<1> QED
  BY <1>1, <1>2, <1>3, <1>4, CounterStep

-----------------------------------------------------------------------------
(* What the log calls queued the master has accepted. *)
QueuedAccepted == \A t \in Clicks : log[t] = "queued" => req[t] = "accepted"

(* The inductive invariant of the panel's log. *)
KInv == IInv /\ PanelTypeOK /\ QueuedAccepted /\ RequestsCounted

(* The panel runs beside the rest. *)
LEMMA PanelStep ==
    ASSUME IInv, PanelTypeOK, QueuedAccepted, [ServerNext]_serverVars
    PROVE  PanelTypeOK' /\ QueuedAccepted'
<1>1. ASSUME NEW t \in Tasks, req[t] = "accepted"
      PROVE  req'[t] = "accepted"
  <2>1. TypeOK /\ TypeOK'
    BY ServerAccounts DEF IInv
  <2>2. CASE [Next]_vars
    BY <1>1, <2>1, <2>2, RequestStep DEF TypeOK, ControllerTypeOK
  <2>3. CASE FaultAside
    BY <1>1, <2>3 DEF FaultAside
  <2> QED
    BY <2>2, <2>3, ServerSteps
<1>2. CASE UNCHANGED panelVars
  BY <1>1, <1>2, ClicksAssumption DEF panelVars, PanelTypeOK, QueuedAccepted
<1>3. ASSUME NEW t \in Clicks, Click(t)
      PROVE  PanelTypeOK' /\ QueuedAccepted'
  BY <1>3, ClicksAssumption, NoneAssumption
     DEF Click, handleClick, vars, PanelTypeOK, QueuedAccepted
<1>4. CASE PanelEnds
  <2>1. PICK t \in Clicks : submitTask(t) \/ SubmitFails(t)
    BY <1>4 DEF PanelEnds
  <2>2. UNCHANGED req
    BY <1>4 DEF PanelEnds, vars
  <2>3. /\ fetch[t] = "open" /\ fetch' = [fetch EXCEPT ![t] = "closed"] /\ loading' = None
        /\ \/ log' = [log EXCEPT ![t] = "failed"]
           \/ log' = [log EXCEPT ![t] = "queued"] /\ req[t] = "accepted"
    BY <2>1 DEF submitTask, SubmitFails, SubmissionEnds, Ok
  <2> QED
    BY <2>2, <2>3, ClicksAssumption, NoneAssumption DEF PanelTypeOK, QueuedAccepted
<1> QED
  BY <1>2, <1>3, <1>4 DEF ServerNext, Intake, WorkerSide, Ask, Answers, AnswerFault, Goroutine,
                          GoroutineFault, ServerCrash, serverVars

(* In the beginning nobody has clicked. *)
LEMMA KInvInit == ServerInit => KInv
<1> SUFFICES ASSUME ServerInit PROVE KInv
  OBVIOUS
<1>1. IInv /\ PanelTypeOK /\ QueuedAccepted
  BY IInvInit, ClicksAssumption, NoneAssumption DEF ServerInit, PanelInit, PanelTypeOK, QueuedAccepted
<1>2. Arrived = {} /\ total_request = 0
  BY DEF ServerInit, Init, ControllerInit, StoreInit, Arrived
<1> QED
  BY <1>1, <1>2, FS_EmptySet DEF KInv, RequestsCounted

(* Every step keeps what the log calls queued. *)
LEMMA KInvStep == KInv /\ [ServerNext]_serverVars => KInv'
BY ServerAccounts, RequestsCountedStep, PanelStep DEF KInv, IInv

(* What the panel's log calls queued has been counted and does not         *)
(* disappear (useMetrics and TaskPanel beside controller.Request).         *)
THEOREM LoggedTasksAreKept == ServerSpec => []LoggedIsKept
<1>1. KInv => LoggedIsKept
  <2> SUFFICES ASSUME KInv, faults = 0
               PROVE  LET logged == {t \in Clicks : log[t] = "queued"}
                      IN Cardinality(logged) <= total_request /\ \A t \in logged : Tracked(t)
    BY DEF LoggedIsKept
  <2> DEFINE logged == {t \in Clicks : log[t] = "queued"}
  <2>1. \A t \in logged : t \in Tasks /\ req[t] = "accepted"
    BY ClicksAssumption DEF KInv, QueuedAccepted
  <2>2. logged \subseteq Arrived /\ IsFiniteSet(Arrived) /\ total_request = Cardinality(Arrived)
    BY <2>1 DEF Arrived, KInv, RequestsCounted
  <2>3. Cardinality(logged) <= total_request
    BY <2>2, FS_Subset
  <2> QED
    BY <2>1, <2>3 DEF KInv, IInv, Accounted
<1> QED
  BY <1>1, KInvInit, KInvStep, PTL DEF ServerSpec

-----------------------------------------------------------------------------
(* No more tasks wait than requests have arrived: task_queue has each task *)
(* once, and none that nobody has sent.                                    *)
LEMMA QueueOfArrived ==
    ASSUME RInv, IsFiniteSet(Arrived)
    PROVE  Len(task_queue) \in Nat /\ Len(task_queue) <= Cardinality(Arrived)
<1>1. task_queue \in Seq(Tasks) /\ TypeOK
  BY DEF RInv, IInv, TypeOK, StoreTypeOK
<1>2. PICK n \in Nat : n = Len(task_queue)
  BY <1>1, LenProperties
<1>3. /\ DOMAIN task_queue = 1..n
      /\ \A i \in 1..n : task_queue[i] \in Tasks /\ Waits(task_queue[i])
  BY <1>1, <1>2, LenProperties, ElementOfSeq DEF Waits, ToSet
<1>4. \A t \in Tasks : Waits(t) => t \in Arrived
  BY DEF RInv, Unsent, Tracked, Waits, Arrived
<1>5. task_queue \in [1..n -> Arrived]
  BY <1>1, <1>3, <1>4, LenProperties, <1>2
<1>6. \A i, j \in 1..n : task_queue[i] = task_queue[j] => i = j
  BY <1>3 DEF RInv, NoRepeats, IsInjective
<1>7. IsFiniteSet(1..n) /\ Cardinality(1..n) = n
  BY FS_Interval
<1>8. ~(Cardinality(Arrived) < n)
  BY <1>5, <1>6, <1>7, FS_PigeonHole
<1>9. Cardinality(Arrived) \in Nat
  BY FS_CardinalityType
<1> QED
  BY <1>2, <1>8, <1>9

(* What a handler of /metrics has read of Redis, in the order it reads. *)
ReadInOrder ==
    \A g \in Gets :
        /\ get[g].stage \in {"requests", "answered"} => get[g].queue \in Nat
        /\ get[g].stage = "requests" => get[g].queue <= total_request
        /\ get[g].stage = "answered" => get[g].queue <= get[g].requests

(* The inductive invariant of the answers. *)
QInv == IInv /\ WholeAnswers /\ RequestsCounted /\ (faults = 0 => RInv /\ ReadInOrder)

(* A handler reads on: the counter cannot be behind the queue it has read. *)
LEMMA HandlerReads ==
    ASSUME QInv, faults = 0, NEW g \in Gets, Get(g) \/ GetMetrics(g), UNCHANGED vars
    PROVE  ReadInOrder'
<1>1. /\ \A h \in Gets :
             /\ get[h].stage \in {"requests", "answered"} => get[h].queue \in Nat
             /\ get[h].stage = "requests" => get[h].queue <= total_request
             /\ get[h].stage = "answered" => get[h].queue <= get[h].requests
      /\ get = [h \in Gets |-> get[h]]
      /\ total_request' = total_request
  BY DEF QInv, ReadInOrder, WholeAnswers, Shapes, vars, storeVars, counters
<1>2. Len(task_queue) \in Nat /\ Len(task_queue) <= total_request
  BY QueueOfArrived DEF QInv, RequestsCounted
<1>3. ASSUME NEW r, get' = [get EXCEPT ![g] = r],
             r.stage \in {"requests", "answered"} => r.queue \in Nat,
             r.stage = "requests" => r.queue <= total_request,
             r.stage = "answered" => r.queue <= r.requests
      PROVE  ReadInOrder'
  <2>1. \A h \in Gets : get'[h] = IF h = g THEN r ELSE get[h]
    BY <1>1, <1>3
  <2> QED
    BY <1>1, <1>3, <2>1 DEF ReadInOrder
<1>4. CASE GetMetrics(g)
  <2> DEFINE r == [get[g] EXCEPT !.stage = RLock]
  <2>1. r.stage \in {"reading", "blocked"}
    BY DEF QInv, WholeAnswers, Shapes, RLock
  <2> HIDE DEF r
  <2> QED
    BY <1>3, <1>4, <2>1 DEF GetMetrics, r
<1>5. CASE GetCachedClusterMetrics(g)
  <2> DEFINE r == [get[g] EXCEPT !.stage = After("reading")]
  <2>1. r.stage = "queue"
    BY HandlerOrder DEF QInv, WholeAnswers, Shapes
  <2> HIDE DEF r
  <2> QED
    BY <1>3, <1>5, <2>1 DEF GetCachedClusterMetrics, r
<1>6. CASE GetQueueLength(g, Len(task_queue))
  <2> DEFINE r == [stage |-> "requests", queue |-> Len(task_queue), requests |-> get[g].requests]
  <2>1. get' = [get EXCEPT ![g] = r]
    BY <1>6, HandlerOrder DEF GetQueueLength
  <2>2. r.stage = "requests" /\ r.queue = Len(task_queue)
    OBVIOUS
  <2> HIDE DEF r
  <2> QED
    BY <1>2, <1>3, <2>1, <2>2
<1>7. CASE GetRequestCount(g, total_request)
  <2> DEFINE r == [stage |-> "answered", queue |-> get[g].queue, requests |-> total_request]
  <2>1. get' = [get EXCEPT ![g] = r] /\ get[g].stage = "requests"
    BY <1>7, HandlerOrder DEF GetRequestCount, Proceeds
  <2>2. r.stage = "answered" /\ r.queue = get[g].queue /\ r.requests = total_request
    OBVIOUS
  <2> HIDE DEF r
  <2> QED
    BY <1>1, <1>3, <2>1, <2>2
<1>8. CASE Encode(g)
  <2>1. get' = [get EXCEPT ![g] = NoGet] /\ NoGet.stage = "none"
    BY <1>8 DEF Encode, NoGet
  <2> QED
    BY <1>3, <2>1
<1> QED
  BY <1>4, <1>5, <1>6, <1>7, <1>8 DEF Get

(* The queue is read before the counter, which only grows in between. *)
LEMMA ReadInOrderStep ==
    ASSUME QInv, [ServerNext]_serverVars, faults' = 0
    PROVE  ReadInOrder'
<1>1. /\ [Next]_vars /\ faults = 0 /\ total_request' >= total_request
      /\ total_request \in Nat /\ total_request' \in Nat
  BY RequestsCountedStep, ServerAccounts DEF QInv, IInv, TypeOK, StoreTypeOK
<1>2. ASSUME \A g \in Gets : /\ get'[g].stage = get[g].stage /\ get'[g].queue = get[g].queue
                             /\ get'[g].requests = get[g].requests
      PROVE  ReadInOrder'
  BY <1>1, <1>2 DEF QInv, ReadInOrder
<1>3. CASE UNCHANGED get
  BY <1>2, <1>3
<1>4. ASSUME NEW g \in Gets, Ask(g) \/ Answers(g)
      PROVE  ReadInOrder'
  BY <1>1, <1>4, HandlerReads DEF Ask, Answers
<1>5. ASSUME NEW g \in Gets
      PROVE  ~AnswerFault(g)
  BY <1>1 DEF AnswerFault, Fault
<1>6. CASE Meter
  <2>1. CASE WriteWorkers
    BY <1>1, <2>1 DEF WriteWorkers, QInv, ReadInOrder, WholeAnswers, Shapes
  <2>2. CASE UNCHANGED get
    BY <1>3, <2>2
  <2> QED
    BY <1>6, <2>1, <2>2 DEF Meter, GetTotalClusterCPU, GetTotalClusterMemory, Baseline, ShowSample,
                            ShowTarget, UpdateClusterMetrics, WriteCPU, WriteMemory
<1>7. CASE ServerCrash
  BY <1>7 DEF ServerCrash, TelemetryRestart, NoGet, ReadInOrder
<1>8. CASE Goroutine \/ GoroutineFault
  BY <1>3, <1>6, <1>8 DEF Goroutine, GoroutineFault, telemetryVars, BaselineFails
<1> QED
  BY <1>3, <1>4, <1>5, <1>7, <1>8
     DEF ServerNext, Click, PanelEnds, Intake, WorkerSide, serverVars, telemetryVars

(* In the beginning nobody has asked. *)
LEMMA QInvInit == ServerInit => QInv
<1> SUFFICES ASSUME ServerInit PROVE QInv
  OBVIOUS
<1>1. RInv /\ WholeAnswers /\ RequestsCounted
  BY RInvInit, WholeStart, KInvInit DEF ServerInit, KInv
<1>2. ReadInOrder
  BY DEF ServerInit, TelemetryInit, NoGet, ReadInOrder
<1> QED
  BY <1>1, <1>2 DEF QInv, RInv

(* All parts of the invariant of the answers together. *)
LEMMA QInvStep == QInv /\ [ServerNext]_serverVars => QInv'
<1> SUFFICES ASSUME QInv, [ServerNext]_serverVars PROVE QInv'
  OBVIOUS
<1>1. IInv' /\ WholeAnswers' /\ RequestsCounted'
  BY ServerAccounts, WholeStep, RequestsCountedStep DEF QInv, IInv
<1>2. ASSUME faults' = 0
      PROVE  RInv' /\ ReadInOrder'
  <2>1. [Next]_vars /\ faults = 0
    BY <1>2, RequestsCountedStep DEF QInv, IInv
  <2> QED
    BY <1>2, <2>1, RInvStep, ReadInOrderStep DEF QInv
<1> QED
  BY <1>1, <1>2 DEF QInv

(* An answer of /metrics never shows more tasks waiting than requests made *)
(* (GetMetrics reads the queue first), though clients, workers and sweeps  *)
(* go on between its commands.                                             *)
THEOREM AnswersInOrder == ServerSpec => []QueueWithinRequests
<1>1. QInv => QueueWithinRequests
  BY DEF QInv, ReadInOrder, QueueWithinRequests
<1> QED
  BY <1>1, QInvInit, QInvStep, PTL DEF ServerSpec

-----------------------------------------------------------------------------
(* As long as no call fails and the master does not crash, the goroutine   *)
(* measures in the middle of a tick and shows at its end what it has       *)
(* decided, which is what runs, but for workers that have crashed.  Before *)
(* the first tick it shows what runs, which is none.                       *)
Showing ==
    /\ stage \in {"sweeping", "routing", "restoring"} => meter = "idle"
    /\ stage \in Adjusting => meter = "measured" /\ lock = "free"
    /\ stage = "deciding" => meter \in {"idle", "cpu", "sampled", "measured"}
    /\ stage = "waiting" =>
         /\ meter \in {"baseline", "idle", "measured"}
         /\ meter = "baseline" => target = 0
         /\ lock # "free" => sample.workers = target
         /\ meter = "idle" => cache.workers = target

(* The inductive invariant of the worker count. *)
LInv ==
    /\ IInv /\ WholeAnswers
    /\ Undisturbed /\ SystemCap <= Cardinality(Workers) => DInv /\ Showing

(* The stage before a step that leads to the end of a tick. *)
LEMMA WaitingStep ==
    ASSUME TypeOK, [Next]_vars, Undisturbed', stage' = "waiting"
    PROVE  (stage = "waiting" /\ target' = target) \/ stage \in Adjusting
<1> USE DEF Adjusting
<1>1. CASE UNCHANGED orchestratorVars
  BY <1>1 DEF orchestratorVars, scaling
<1>2. CASE Tick \/ Processing_to_main \/ ScaleUp \/ ScaleDown
  BY <1>2 DEF Tick, Processing_to_main, SweepPop, SweepEmpty, SecondLoop, SweepKeep, SweepRequeue,
              Routed, SweepRestore, SweepEnd, ScaleUp, ScaleDown, orchestratorVars
<1>3. CASE GenerateStep
  BY <1>3 DEF GenerateStep, Generate, GenerateNoID, GenerateEnd
<1>4. CASE DestroyStep
  BY <1>4 DEF DestroyStep, Skip, Choose, Look, NextPass, DestroyEnd, StopSignal, GraceExpires,
              StopReturns, VictimDone, orchestratorVars
<1> QED
  BY <1>1, <1>2, <1>3, <1>4, UndisturbedStep DEF Ends, SignalMoves

(* The goroutine is elsewhere than at its measurements. *)
LEMMA ElsewhereShows ==
    ASSUME TypeOK, Showing, Elsewhere, Orchestrate, UNCHANGED telemetryVars, Undisturbed'
    PROVE  Showing'
<1>1. UNCHANGED <<meter, sample, lock, cache>> /\ lock = "free"
  BY DEF telemetryVars, goroutineVars, Elsewhere
<1>2. CASE stage' = "waiting"
  <2>1. (stage = "waiting" /\ target' = target) \/ stage \in Adjusting
    BY <1>2, WaitingStep DEF Next
  <2> QED
    BY <1>1, <1>2, <2>1 DEF Showing, Adjusting
<1>3. CASE stage' # "waiting"
  <2>1. CASE Tick \/ Processing_to_main
    <3>1. /\ stage' \in {"sweeping", "routing", "restoring", "deciding"}
          /\ stage = "waiting" \/ stage \in {"sweeping", "routing", "restoring"}
      BY <2>1 DEF Tick, Processing_to_main, SweepPop, SweepEmpty, SecondLoop, SweepKeep, SweepRequeue,
                  Routed, SweepRestore, SweepEnd, orchestratorVars
    <3> QED
      BY <1>1, <3>1 DEF Showing, Elsewhere, Adjusting
  <2>2. CASE ScaleUp \/ ScaleDown
    BY <1>1, <2>2 DEF ScaleUp, ScaleDown, Showing, Elsewhere, Adjusting
  <2>3. CASE GenerateStep \/ DestroyStep
    <3>1. stage \in Adjusting /\ stage' \in Adjusting
      BY <1>3, <2>3 DEF GenerateStep, Generate, GenerateNoID, GenerateEnd, DestroyStep, Skip, Choose,
                        Look, NextPass, DestroyEnd, StopSignal, GraceExpires, StopReturns, VictimDone,
                        orchestratorVars, Adjusting
    <3> QED
      BY <1>1, <3>1 DEF Showing, Adjusting
  <2> QED
    BY <2>1, <2>2, <2>3 DEF Orchestrate
<1> QED
  BY <1>2, <1>3

(* It measures, or publishes. *)
LEMMA MeterShows ==
    ASSUME WholeAnswers, DInv, Showing, Meter, UNCHANGED vars,
           Undisturbed, SystemCap <= Cardinality(Workers)
    PROVE  Showing'
<1>1. UNCHANGED <<stage, target>>
  BY DEF vars, orchestratorVars, scaling
<1>2. lock # "free" => meter \in {"baseline", "sampled", "measured"}
  BY DEF WholeAnswers, Written
<1>3. stage = "waiting" /\ target = 0 => target = Cardinality(Running)
  <2>1. stage = "waiting" => Cardinality(Running) <= target
    BY DEF DInv, AsDecided
  <2>2. Cardinality(Running) \in Nat
    BY TakenFinite DEF DInv, FInv
  <2> QED
    BY <2>1, <2>2
<1> USE DEF Showing, Adjusting
<1>4. CASE GetTotalClusterCPU \/ GetTotalClusterMemory
  BY <1>1, <1>4 DEF GetTotalClusterCPU, GetTotalClusterMemory
<1>5. ASSUME NEW cpu, NEW mem, NEW workers, UpdateClusterMetrics(cpu, mem, workers),
             stage \notin Adjusting, stage = "waiting" => workers = target
      PROVE  Showing'
  <2>1. UNCHANGED <<meter, cache>> /\ sample'.workers = workers
    BY <1>5 DEF UpdateClusterMetrics, Triple
  <2> QED
    BY <1>1, <1>5, <2>1
<1>6. CASE Baseline
  BY <1>3, <1>5, <1>6 DEF Baseline
<1>7. CASE ShowSample
  BY <1>5, <1>7 DEF ShowSample
<1>8. CASE ShowTarget
  BY <1>5, <1>8 DEF ShowTarget, NewCount
<1>9. CASE WriteCPU \/ WriteMemory
  <2>1. /\ lock # "free" /\ UNCHANGED <<meter, sample>>
        /\ stage = "waiting" => meter # "idle"
    BY <1>2, <1>9 DEF WriteCPU, WriteMemory
  <2> QED
    BY <1>1, <1>9, <2>1 DEF WriteCPU, WriteMemory
<1>10. CASE WriteWorkers
  <2>1. cache'.workers = sample.workers
    BY <1>10 DEF WriteWorkers, WholeAnswers, Shapes, Triple
  <2>2. /\ lock # "free" /\ lock' = "free"
        /\ meter' = IF meter = "sampled" THEN "measured" ELSE "idle"
    BY <1>10 DEF WriteWorkers, Unlock
  <2> QED
    BY <1>1, <1>2, <2>1, <2>2
<1> QED
  BY <1>4, <1>6, <1>7, <1>8, <1>9, <1>10 DEF Meter

(* What is published at the end of a tick is what the tick decided. *)
LEMMA ShowingStep ==
    ASSUME LInv, [ServerNext]_serverVars, Undisturbed', SystemCap <= Cardinality(Workers)
    PROVE  [Next]_vars /\ Undisturbed /\ Showing'
<1>1. [Next]_vars /\ TypeOK
  BY ServerSteps DEF FaultAside, Fault, Undisturbed, LInv, IInv, TypeOK
<1>2. Undisturbed /\ DInv /\ Showing /\ WholeAnswers
  BY <1>1, UndisturbedStep DEF LInv
<1>3. restarts' = 0 /\ faults' = 0 /\ restarts \in Nat /\ faults \in Nat
  BY <1>1 DEF Undisturbed, TypeOK
<1>4. ASSUME UNCHANGED <<stage, target, meter, lock, sample, cache>>
      PROVE  Showing'
  BY <1>2, <1>4 DEF Showing
<1>5. ~GoroutineFault /\ ~ServerCrash /\ \A g \in Gets : ~AnswerFault(g)
  BY <1>3 DEF GoroutineFault, OrchestratorFault, MeasurementFault, Fault, ServerCrash, MasterCrash,
              AnswerFault
<1>6. CASE Goroutine
  BY <1>1, <1>2, <1>6, ElsewhereShows, MeterShows DEF Goroutine
<1>7. ASSUME NEW t \in Tasks, Intake(t)
      PROVE  UNCHANGED <<stage, target, meter, lock, sample, cache>>
  BY <1>7 DEF Intake, Handler, HandlerFault, orchestratorVars, scaling, telemetryVars, goroutineVars
<1>8. ASSUME NEW w \in Workers, WorkerSide(w)
      PROVE  UNCHANGED <<stage, target, meter, lock, sample, cache>>
  BY <1>8 DEF WorkerSide, Loop, LoopCancelled, OnSignal, WorkerCrash, WorkerFault, orchestratorVars,
              scaling, telemetryVars, goroutineVars
<1>9. ASSUME NEW g \in Gets, Ask(g) \/ Answers(g)
      PROVE  UNCHANGED <<stage, target, meter, lock, sample, cache>>
  BY <1>9 DEF Ask, Answers, vars, orchestratorVars, scaling, GetMetrics, Get, GetCachedClusterMetrics,
              GetQueueLength, GetRequestCount, Encode, Proceeds, goroutineVars
<1>10. ASSUME \/ \E t \in Clicks : Click(t)
              \/ PanelEnds \/ UNCHANGED serverVars
       PROVE  UNCHANGED <<stage, target, meter, lock, sample, cache>>
  BY <1>10 DEF Click, PanelEnds, serverVars, vars, orchestratorVars, scaling, telemetryVars,
               goroutineVars
<1> QED
  BY <1>1, <1>2, <1>4, <1>5, <1>6, <1>7, <1>8, <1>9, <1>10 DEF ServerNext

(* In the beginning nothing has been published. *)
LEMMA LInvInit == ServerInit => LInv
<1> SUFFICES ASSUME ServerInit PROVE LInv
  OBVIOUS
<1>1. IInv /\ WholeAnswers /\ DInv
  BY IInvInit, WholeStart, DInvInit DEF ServerInit
<1>2. Showing
  BY DEF ServerInit, Init, OrchestratorInit, TelemetryInit, Showing, Adjusting
<1> QED
  BY <1>1, <1>2 DEF LInv

(* All parts of the invariant of the worker count together. *)
LEMMA LInvStep == LInv /\ [ServerNext]_serverVars => LInv'
<1> SUFFICES ASSUME LInv, [ServerNext]_serverVars PROVE LInv'
  OBVIOUS
<1>1. IInv' /\ WholeAnswers'
  BY ServerAccounts, WholeStep DEF LInv
<1>2. ASSUME Undisturbed', SystemCap <= Cardinality(Workers)
      PROVE  DInv' /\ Showing'
  BY <1>2, ShowingStep, DInvStep DEF LInv
<1> QED
  BY <1>1, <1>2 DEF LInv

(* The worker count of /metrics is that of the running containers whenever *)
(* the orchestrator waits and no call has failed, but for workers that     *)
(* have crashed since the tick, in a model with IDs for SystemCap          *)
(* containers, all started by the orchestrator.                            *)
THEOREM WorkerCountIsLive ==
    ASSUME ~ManualStarts, SystemCap <= Cardinality(Workers)
    PROVE  ServerSpec => []CountIsLive
<1>1. LInv => CountIsLive
  <2> SUFFICES ASSUME LInv, Undisturbed, stage = "waiting", meter = "idle"
               PROVE  cache.workers - Cardinality(Running) \in 0..lost
    BY DEF CountIsLive, Undisturbed
  <2>1. DInv /\ cache.workers = target
    BY DEF LInv, Showing
  <2>2. target - Cardinality(Running) \in 0..lost
    BY <2>1, DecidedIsReached DEF DecisionReached, Undisturbed
  <2> QED
    BY <2>1, <2>2
<1> QED
  BY <1>1, LInvInit, LInvStep, PTL DEF ServerSpec

-----------------------------------------------------------------------------
(* A non-empty set of numbers has a least one: what stands below for       *)
(* induction, on the sizes of sets.                                        *)
LEMMA Least ==
    ASSUME NEW T \in SUBSET Nat, T # {}
    PROVE  \E x \in T : \A y \in T : x <= y
<1> DEFINE R == {ss \in Nat \X Nat : ss[1] < ss[2]}
<1>1. IsWellFoundedOn(R, Nat)
  BY NatLessThanWellFounded DEF OpToRel
<1> HIDE DEF R
<1>2. PICK x \in T : \A y \in T : ~(<<y, x>> \in R)
  BY <1>1, WFMin
<1>3. \A y \in T : ~(y < x)
  BY <1>2 DEF R
<1> QED
  BY <1>3

(* The equation of the recursive function in MapThenSumSet (Folds): g[s]   *)
(* is one of the numbers p[w] more than g of the others.                   *)
Summed(g, p, s) == IF s = {} THEN 0
                   ELSE LET x == CHOOSE x \in s : TRUE IN p[x] + g[s \ {x}]

Sums(g, p, S) == g = [s \in SUBSET S |-> Summed(g, p, s)]

Total(p, S) == (CHOOSE g : Sums(g, p, S))[S]

(* The mean is the sum through the number of containers. *)
LEMMA MeanOfTotal ==
    ASSUME NEW p
    PROVE  ClusterMean(p) = IF DOMAIN p = {} THEN 0
                            ELSE Total(p, DOMAIN p) \div Cardinality(DOMAIN p)
BY DEF ClusterMean, MapThenSumSet, MapThenFoldSet, Total, Sums, Summed

(* What the recursion goes on with is smaller by one. *)
LEMMA OneLess ==
    ASSUME NEW S, IsFiniteSet(S), NEW s \in SUBSET S, s # {}
    PROVE  LET x == CHOOSE x \in s : TRUE
           IN /\ x \in s /\ s \ {x} \in SUBSET S
              /\ Cardinality(s) \in Nat /\ Cardinality(s \ {x}) = Cardinality(s) - 1
<1> DEFINE x == CHOOSE x \in s : TRUE
<1>1. x \in s
  OBVIOUS
<1>2. IsFiniteSet(s)
  BY FS_Subset
<1> HIDE DEF x
<1>3. Cardinality(s \ {x}) = Cardinality(s) - 1 /\ Cardinality(s) \in Nat
  BY <1>1, <1>2, FS_RemoveElement, FS_CardinalityType
<1> QED
  BY <1>1, <1>3 DEF x

(* The recursion defines a function: there is one that obeys the equation  *)
(* up to every size.                                                       *)
LEMMA SumExists ==
    ASSUME NEW S, IsFiniteSet(S), NEW p
    PROVE  \E g : Sums(g, p, S)
<1> DEFINE Upto(g, n) == /\ g = [s \in SUBSET S |-> g[s]]
                         /\ \A s \in SUBSET S : Cardinality(s) < n => g[s] = Summed(g, p, s)
           Failing == {n \in Nat : ~ \E g : Upto(g, n)}
<1>1. \A s \in SUBSET S : Cardinality(s) \in Nat
  BY FS_Subset, FS_CardinalityType
<1>2. 0 \notin Failing
  <2>1. Upto([s \in SUBSET S |-> 0], 0)
    BY <1>1
  <2> QED
    BY <2>1
<1>3. ASSUME NEW n \in Nat, n \notin Failing
      PROVE  n + 1 \notin Failing
  <2>1. PICK g : Upto(g, n)
    BY <1>3
  <2> DEFINE h == [s \in SUBSET S |-> Summed(g, p, s)]
  <2>2. \A s \in SUBSET S : Cardinality(s) < n => h[s] = g[s]
    BY <2>1
  <2>3. ASSUME NEW s \in SUBSET S, Cardinality(s) < n + 1
        PROVE  h[s] = Summed(h, p, s)
    <3>1. CASE s = {}
      BY <3>1 DEF Summed
    <3>2. CASE s # {}
      <4> DEFINE x == CHOOSE x \in s : TRUE
      <4>1. s \ {x} \in SUBSET S /\ Cardinality(s \ {x}) < n
        BY <2>3, <3>2, OneLess
      <4>2. h[s \ {x}] = g[s \ {x}]
        BY <2>2, <4>1
      <4>3. h[s] = p[x] + g[s \ {x}] /\ Summed(h, p, s) = p[x] + h[s \ {x}]
        <5> HIDE DEF x
        <5> QED
          BY <3>2 DEF Summed, x
      <4> QED
        BY <4>2, <4>3
    <3> QED
      BY <3>1, <3>2
  <2>4. Upto(h, n + 1)
    BY <2>3
  <2> QED
    BY <2>4
<1>4. Failing = {}
  <2>1. SUFFICES ASSUME Failing # {} PROVE FALSE
    OBVIOUS
  <2>2. PICK n \in Failing : \A m \in Failing : n <= m
    BY <2>1, Least
  <2>3. n \in Nat /\ n # 0
    BY <1>2
  <2> HIDE DEF Failing
  <2>4. n - 1 \in Nat /\ n - 1 \notin Failing
    BY <2>2, <2>3
  <2> QED
    BY <1>3, <2>2, <2>3, <2>4
<1>5. Cardinality(S) + 1 \in Nat /\ \A s \in SUBSET S : Cardinality(s) < Cardinality(S) + 1
  BY <1>1, FS_CardinalityType, FS_Subset
<1>6. PICK g : Upto(g, Cardinality(S) + 1)
  BY <1>4, <1>5
<1> QED
  BY <1>5, <1>6 DEF Sums

(* Where n numbers of V add up to one of B[n] for every n, a sum of them   *)
(* is there.                                                               *)
LEMMA SumStays ==
    ASSUME NEW S, IsFiniteSet(S), NEW V, NEW B, NEW p, \A w \in S : p[w] \in V,
           0 \in B[0], \A n \in Nat : \A x \in V, y \in B[n] : x + y \in B[n + 1]
    PROVE  Total(p, S) \in B[Cardinality(S)]
<1>1. ASSUME NEW g, Sums(g, p, S)
      PROVE  g[S] \in B[Cardinality(S)]
  <2> DEFINE Out == {n \in Nat : \E s \in SUBSET S : Cardinality(s) = n /\ g[s] \notin B[n]}
  <2>1. Out = {}
    <3>1. SUFFICES ASSUME Out # {} PROVE FALSE
      OBVIOUS
    <3>2. PICK n \in Out : \A m \in Out : n <= m
      BY <3>1, Least
    <3>3. PICK s \in SUBSET S : Cardinality(s) = n /\ g[s] \notin B[n]
      OBVIOUS
    <3>4. CASE s = {}
      BY <1>1, <3>3, <3>4, FS_EmptySet DEF Sums, Summed
    <3>5. CASE s # {}
      <4> DEFINE x == CHOOSE x \in s : TRUE
      <4>1. x \in S /\ s \ {x} \in SUBSET S /\ n \in Nat /\ Cardinality(s \ {x}) = n - 1
        BY <3>3, <3>5, OneLess
      <4>2. n # 0
        BY <3>3, <3>5, FS_EmptySet, FS_Subset
      <4>3. n - 1 \in Nat /\ n - 1 \notin Out
        <5> HIDE DEF Out
        <5> QED
          BY <3>2, <4>1, <4>2
      <4>4. g[s \ {x}] \in B[n - 1]
        BY <4>1, <4>3
      <4>5. g[s] = p[x] + g[s \ {x}]
        <5> HIDE DEF x
        <5> QED
          BY <1>1, <3>5 DEF Sums, Summed, x
      <4>6. p[x] + g[s \ {x}] \in B[(n - 1) + 1] /\ (n - 1) + 1 = n
        <5> HIDE DEF x, Out
        <5> QED
          BY <4>1, <4>3, <4>4
      <4> QED
        BY <3>3, <4>5, <4>6
    <3> QED
      BY <3>4, <3>5
  <2> QED
    BY <2>1, FS_CardinalityType
<1> QED
  BY <1>1, SumExists DEF Total

(* The mean of finitely many numbers is a number. *)
LEMMA MeanOfNumbers ==
    ASSUME NEW p, IsFiniteSet(DOMAIN p), \A w \in DOMAIN p : p[w] \in Nat
    PROVE  ClusterMean(p) \in Nat
<1> DEFINE B == [n \in Nat |-> Nat]
<1>1. 0 \in B[0] /\ \A n \in Nat : \A x \in Nat, y \in B[n] : x + y \in B[n + 1]
  OBVIOUS
<1>2. /\ Cardinality(DOMAIN p) \in Nat
      /\ DOMAIN p # {} => Cardinality(DOMAIN p) # 0
  BY FS_CardinalityType, FS_EmptySet
<1> HIDE DEF B
<1>3. Total(p, DOMAIN p) \in B[Cardinality(DOMAIN p)]
  BY <1>1, SumStays
<1>4. Total(p, DOMAIN p) \in Nat
  BY <1>2, <1>3 DEF B
<1> QED
  BY <1>2, <1>4, MeanOfTotal

(* So many hundredths of n. *)
LEMMA Percentage ==
    ASSUME NEW x \in Nat, NEW n \in Nat, n # 0, x <= 100 * n
    PROVE  x \div n \in 0..100
<1> DEFINE q == x \div n
<1>1. q \in Nat /\ n * q <= x
  OBVIOUS
<1> HIDE DEF q
<1>2. q <= 100
  <2>1. SUFFICES ASSUME q >= 101 PROVE FALSE
    BY <1>1
  <2>2. n * q >= n * 101
    BY <1>1, <2>1
  <2> QED
    BY <1>1, <2>2
<1> QED
  BY <1>1, <1>2 DEF q

(* The mean of finitely many percentages is one. *)
LEMMA MeanOfPercentages ==
    ASSUME NEW p, IsFiniteSet(DOMAIN p), \A w \in DOMAIN p : p[w] \in 0..100
    PROVE  ClusterMean(p) \in 0..100
<1> DEFINE B == [n \in Nat |-> 0..(100 * n)]
<1>1. 0 \in B[0] /\ \A n \in Nat : \A x \in 0..100, y \in B[n] : x + y \in B[n + 1]
  OBVIOUS
<1>2. /\ Cardinality(DOMAIN p) \in Nat
      /\ DOMAIN p # {} => Cardinality(DOMAIN p) # 0
  BY FS_CardinalityType, FS_EmptySet
<1> HIDE DEF B
<1>3. Total(p, DOMAIN p) \in B[Cardinality(DOMAIN p)]
  BY <1>1, SumStays
<1>4. Total(p, DOMAIN p) \in Nat /\ Total(p, DOMAIN p) <= 100 * Cardinality(DOMAIN p)
  BY <1>2, <1>3 DEF B
<1>5. CASE DOMAIN p = {}
  BY <1>5, MeanOfTotal
<1>6. CASE DOMAIN p # {}
  <2>1. Total(p, DOMAIN p) \div Cardinality(DOMAIN p) \in 0..100
    BY <1>2, <1>4, <1>6, Percentage
  <2> QED
    BY <1>6, <2>1, MeanOfTotal
<1> QED
  BY <1>5, <1>6

(* A reading of a container's CPU is a number: deltas are taken modulo     *)
(* Word, and divided by one that is not 0.                                 *)
LEMMA CPUReading ==
    ASSUME NEW v \in CpuStats
    PROVE  fetchContainerCPU(v) \in Nat
<1> DEFINE cpuDelta == (v.total - v.preTotal) % Word
           systemDelta == (v.system - v.preSystem) % Word
<1>1. {v.total, v.preTotal, v.system, v.preSystem, v.online} \subseteq Nat
  BY StatsAssumption
<1>2. Word \in Nat \ {0}
  BY TelemetryAssumption
<1>3. cpuDelta \in Nat /\ systemDelta \in Nat
  BY <1>1, <1>2
<1> HIDE DEF cpuDelta, systemDelta
<1>4. cpuDelta * v.online * 100 \in Nat
  BY <1>1, <1>3
<1>5. systemDelta > 0 => (cpuDelta * v.online * 100) \div systemDelta \in Nat
  BY <1>3, <1>4
<1> QED
  BY <1>5 DEF fetchContainerCPU, cpuDelta, systemDelta

(* A reading of a container's memory is a percentage, though the page      *)
(* cache may have been read larger than the usage.                         *)
LEMMA MemoryReading ==
    ASSUME NEW v \in MemStats
    PROVE  fetchContainerMemory(v) \in 0..100
<1> DEFINE used == MemUsed(v)
<1>1. /\ v.usage \in Nat /\ v.limit \in Nat /\ PageCache(v.stats) \in Nat
      /\ v.limit = 0 \/ v.usage <= v.limit
  BY StatsAssumption DEF PageCache
<1>2. used \in Nat /\ (v.limit = 0 \/ used <= v.limit)
  BY <1>1 DEF MemUsed
<1> HIDE DEF used
<1>3. ASSUME v.limit # 0
      PROVE  (used * 100) \div v.limit \in 0..100
  <2>1. used * 100 \in Nat /\ used * 100 <= 100 * v.limit
    BY <1>1, <1>2, <1>3
  <2> QED
    BY <1>1, <1>3, <2>1, Percentage
<1> QED
  BY <1>3 DEF fetchContainerMemory, used


-----------------------------------------------------------------------------
(* What a handler of GET /metrics holds. *)
Locals == [stage : {"none", "blocked", "reading", "queue", "requests", "answered"},
           queue : Nat, requests : Nat]

(* A step of the orchestrator's goroutine measures or publishes numbers. *)
LEMMA MeterTypes ==
    ASSUME TypeOK, TelemetryTypeOK, Meter
    PROVE  TelemetryTypeOK'
<1> USE DEF TelemetryTypeOK, Triples
<1>1. /\ IsFiniteSet(Running) /\ IsFiniteSet(known)
      /\ Cardinality(Running) \in Nat /\ Cardinality(known) \in Nat /\ target \in Nat
  BY WorkersAssumption, FS_Subset, FS_CardinalityType
     DEF TypeOK, OrchestratorTypeOK, Running
<1>2. CASE GetTotalClusterCPU
  <2>1. PICK stats \in [Running -> CpuStats \cup {None}] :
            sample' = [sample EXCEPT !.cpu = ClusterMean([w \in Running |->
                          IF stats[w] = None THEN 0 ELSE fetchContainerCPU(stats[w])])]
    BY <1>2 DEF GetTotalClusterCPU
  <2> DEFINE percent == [w \in Running |->
                            IF stats[w] = None THEN 0 ELSE fetchContainerCPU(stats[w])]
  <2>2. \A w \in Running : percent[w] \in Nat
    BY <2>1, CPUReading
  <2>3. DOMAIN percent = Running /\ sample' = [sample EXCEPT !.cpu = ClusterMean(percent)]
    BY <2>1
  <2> HIDE DEF percent
  <2>4. ClusterMean(percent) \in Nat
    BY <1>1, <2>2, <2>3, MeanOfNumbers
  <2>5. sample \in Triples /\ sample' \in Triples
    BY <2>3, <2>4
  <2>6. meter' \in {"cpu", "sampled"} /\ UNCHANGED <<lock, cache, published, get>>
    BY <1>2 DEF GetTotalClusterCPU
  <2> QED
    BY <2>5, <2>6
<1>3. CASE GetTotalClusterMemory
  <2>1. PICK stats \in [Running -> MemStats \cup {None}] :
            sample' = [sample EXCEPT !.mem = ClusterMean([w \in Running |->
                          IF stats[w] = None THEN 0 ELSE fetchContainerMemory(stats[w])])]
    BY <1>3 DEF GetTotalClusterMemory
  <2> DEFINE percent == [w \in Running |->
                            IF stats[w] = None THEN 0 ELSE fetchContainerMemory(stats[w])]
  <2>2. \A w \in Running : percent[w] \in 0..100
    BY <2>1, MemoryReading
  <2>3. DOMAIN percent = Running /\ sample' = [sample EXCEPT !.mem = ClusterMean(percent)]
    BY <2>1
  <2> HIDE DEF percent
  <2>4. ClusterMean(percent) \in 0..100
    BY <1>1, <2>2, <2>3, MeanOfPercentages
  <2>5. sample \in Triples /\ sample' \in Triples
    BY <2>3, <2>4
  <2>6. meter' \in {"cpu", "sampled"} /\ UNCHANGED <<lock, cache, published, get>>
    BY <1>3 DEF GetTotalClusterMemory
  <2> QED
    BY <2>5, <2>6
<1>4. ASSUME NEW cpu \in Nat, NEW mem \in 0..100, NEW workers \in Nat,
             UpdateClusterMetrics(cpu, mem, workers)
      PROVE  TelemetryTypeOK'
  BY <1>4 DEF UpdateClusterMetrics, Triple
<1>5. CASE Baseline \/ ShowSample \/ ShowTarget
  <2>1. sample.cpu \in Nat /\ sample.mem \in 0..100
    OBVIOUS
  <2>2. 0 \in Nat /\ 0 \in 0..100
    OBVIOUS
  <2> HIDE DEF TelemetryTypeOK, Triples
  <2>3. CASE Baseline
    BY <1>1, <1>4, <2>2, <2>3 DEF Baseline
  <2>4. CASE ShowSample
    BY <1>1, <1>4, <2>1, <2>4 DEF ShowSample
  <2>5. CASE ShowTarget
    BY <1>1, <1>4, <2>1, <2>5 DEF ShowTarget, NewCount
  <2> QED
    BY <1>5, <2>3, <2>4, <2>5
<1>6. CASE WriteCPU
  BY <1>6 DEF WriteCPU
<1>7. CASE WriteMemory
  BY <1>7 DEF WriteMemory
<1>8. CASE WriteWorkers
  <2>1. /\ get' \in [Gets -> Locals]
        /\ \A g \in Gets : get'[g].stage # "blocked"
    BY <1>8 DEF WriteWorkers, Unlock, Locals
  <2>2. {sample', cache', published'} \subseteq Triples /\ lock' = "free"
    BY <1>8 DEF WriteWorkers, Unlock
  <2>3. meter' \in {"measured", "idle"}
    BY <1>8 DEF WriteWorkers
  <2> QED
    BY <2>1, <2>2, <2>3 DEF Locals
<1> QED
  BY <1>2, <1>3, <1>5, <1>6, <1>7, <1>8 DEF Meter

(* A handler of GET /metrics takes the cluster's numbers for its own, or 0 *)
(* for one it could not read.                                              *)
LEMMA HandlerTypes ==
    ASSUME TypeOK, TelemetryTypeOK, NEW g \in Gets, GetMetrics(g) \/ Get(g) \/ GetFails(g)
    PROVE  TelemetryTypeOK'
<1>1. UNCHANGED <<meter, sample, lock, cache, published>>
  BY DEF GetMetrics, Get, GetFails, GetCachedClusterMetrics, GetQueueLength,
         GetRequestCount, Encode, Proceeds, goroutineVars
<1>2. /\ get \in [Gets -> Locals]
      /\ \A h \in Gets : get[h].stage = "blocked" => lock # "free"
  BY DEF TelemetryTypeOK, Locals
<1>3. Len(task_queue) \in Nat /\ total_request \in Nat
  BY LenProperties DEF TypeOK, StoreTypeOK
<1>4. ASSUME NEW r \in Locals, get' = [get EXCEPT ![g] = r], r.stage = "blocked" => lock # "free"
      PROVE  TelemetryTypeOK'
  <2>1. get' \in [Gets -> Locals] /\ \A h \in Gets : get'[h].stage = "blocked" => lock # "free"
    BY <1>2, <1>4
  <2> QED
    BY <1>1, <2>1 DEF TelemetryTypeOK, Locals
<1>5. CASE GetMetrics(g)
  <2> DEFINE r == [get[g] EXCEPT !.stage = RLock]
  <2>1. r \in Locals /\ (r.stage = "blocked" => lock # "free")
    BY <1>2 DEF RLock, Locals
  <2> HIDE DEF r
  <2> QED
    BY <1>4, <1>5, <2>1 DEF GetMetrics, r
<1>6. CASE GetCachedClusterMetrics(g)
  <2> DEFINE r == [get[g] EXCEPT !.stage = After("reading")]
  <2>1. r \in Locals /\ r.stage = "queue"
    BY <1>2, HandlerOrder DEF Locals
  <2> HIDE DEF r
  <2> QED
    BY <1>4, <1>6, <2>1 DEF GetCachedClusterMetrics, r
<1>7. ASSUME NEW length \in Nat, GetQueueLength(g, length)
      PROVE  TelemetryTypeOK'
  <2> DEFINE r == [stage |-> "requests", queue |-> length, requests |-> get[g].requests]
  <2>1. r \in Locals /\ r.stage = "requests"
    BY <1>2 DEF Locals
  <2>2. get' = [get EXCEPT ![g] = r]
    BY <1>7, HandlerOrder DEF GetQueueLength
  <2> HIDE DEF r
  <2> QED
    BY <1>4, <2>1, <2>2
<1>8. ASSUME NEW count \in Nat, GetRequestCount(g, count)
      PROVE  TelemetryTypeOK'
  <2> DEFINE r == [stage |-> "answered", queue |-> get[g].queue, requests |-> count]
  <2>1. r \in Locals /\ r.stage = "answered"
    BY <1>2 DEF Locals
  <2>2. get' = [get EXCEPT ![g] = r]
    BY <1>8, HandlerOrder DEF GetRequestCount
  <2> HIDE DEF r
  <2> QED
    BY <1>4, <2>1, <2>2
<1>9. CASE Encode(g)
  BY <1>4, <1>9 DEF Encode, NoGet, Locals
<1> QED
  BY <1>3, <1>5, <1>6, <1>7, <1>8, <1>9 DEF Get, GetFails

(* The inductive type invariant of the server. *)
TInv == IInv /\ PanelTypeOK /\ QueuedAccepted /\ TelemetryTypeOK

(* In the beginning nothing is measured. *)
LEMMA TInvInit == ServerInit => TInv
BY KInvInit DEF KInv, TInv, ServerInit, TelemetryInit, TelemetryTypeOK, Triples, Triple, NoGet

(* Every step of the server goes from numbers to numbers. *)
LEMMA TInvStep == TInv /\ [ServerNext]_serverVars => TInv'
<1> SUFFICES ASSUME TInv, [ServerNext]_serverVars PROVE TInv'
  OBVIOUS
<1>1. IInv' /\ PanelTypeOK' /\ QueuedAccepted' /\ TypeOK /\ TelemetryTypeOK
  BY ServerAccounts, PanelStep DEF TInv, IInv
<1>2. SUFFICES TelemetryTypeOK'
  BY <1>1 DEF TInv
<1>3. CASE UNCHANGED <<sample, lock, cache, published, get>> /\ meter' \in {meter, "idle"}
  BY <1>1, <1>3 DEF TelemetryTypeOK
<1>4. CASE Meter
  BY <1>1, <1>4, MeterTypes
<1>5. ASSUME NEW g \in Gets, Ask(g) \/ Answers(g) \/ AnswerFault(g)
      PROVE  TelemetryTypeOK'
  BY <1>1, <1>5, HandlerTypes DEF Ask, Answers, AnswerFault
<1>6. CASE ServerCrash
  BY <1>6 DEF ServerCrash, TelemetryRestart, TelemetryTypeOK, Triples, Triple, NoGet
<1>7. CASE Goroutine \/ GoroutineFault
  BY <1>3, <1>4, <1>7 DEF Goroutine, GoroutineFault, BaselineFails, telemetryVars, goroutineVars
<1> QED
  BY <1>3, <1>5, <1>6, <1>7 DEF ServerNext, Click, PanelEnds, Intake, WorkerSide, serverVars,
                                telemetryVars, goroutineVars

(* The server holds what it is meant to: above all every percentage of     *)
(* memory it shows is in 0..100, however many containers it averages over, *)
(* and the numbers /metrics reads are numbers (Master/metrics).            *)
THEOREM ServerTypes == ServerSpec => []ServerTypeOK
<1>1. TInv => ServerTypeOK
  BY DEF TInv, IInv, ServerTypeOK
<1> QED
  BY <1>1, TInvInit, TInvStep, PTL DEF ServerSpec

-----------------------------------------------------------------------------
(* What the cluster promises its users, all in one. *)
Promises ==
    /\ Accounted /\ AckingDone /\ CrashSafe /\ ExclusiveExecution /\ FleetWithinCap
    /\ SweepComplete /\ StopsExactly /\ DecisionReached /\ ExactlyOnceWhenCalm

(* The inductive invariants of the cluster, all in one. *)
ClusterInv == CInv /\ DInv

(* A call that fails for a handler of /metrics or at the start, changes    *)
(* nothing the cluster relies on, and calm it is no longer.                *)
LEMMA AsideKeeps ==
    ASSUME ClusterInv, FaultAside
    PROVE  ClusterInv' /\ \A t \in Tasks : Recorded(t)' = Recorded(t)
<1>1. UNCHANGED <<task_queue, processing_queue, temp_queue, total_request, task_completed, done,
                  dropped, req, container, phase, holding, registered, signal, stage, known, hand,
                  target, quota, listed, scan, pass, victim, downs, crashes, restarts,
                  lost>>
  BY DEF FaultAside, Fault, storeVars, lists, counters, history, workerVars, orchestratorVars, scaling
<1>2. faults' \in Nat /\ faults' # 0
  BY DEF FaultAside, Fault, ClusterInv, DInv, FInv, TypeOK
<1>3. IInv'
  <2>1. TypeOK'
    BY <1>1, <1>2 DEF ClusterInv, DInv, FInv, TypeOK, StoreTypeOK, ControllerTypeOK, WorkerTypeOK, Busy,
                      OrchestratorTypeOK
  <2>2. AckingDone' /\ Accounted'
    BY <1>1 DEF ClusterInv, CInv, OInv, RInv, IInv, AckingDone, Accounted, Tracked, Pairs
  <2> QED
    BY <2>1, <2>2 DEF IInv
<1>4. \A t \in Tasks : /\ Waits(t)' <=> Waits(t)
                       /\ Paired(t)' <=> Paired(t)
                       /\ Carried(t)' <=> Carried(t)
  BY <1>1 DEF Waits, Paired, Carried, Holds, Pairs
<1>5. \A t \in Tasks : Place(t)' = Place(t) /\ (Tracked(t)' <=> Tracked(t))
  BY <1>1, <1>4, TrackedIs, TrackedIsNext DEF Place
<1>6. NoRepeats' /\ Apart'
  BY <1>1 DEF ClusterInv, CInv, OInv, RInv, NoRepeats, Apart, Alone, Waits, Paired, Carried, Holds, Pairs
<1>7. Unsent' /\ InHandTracked'
  <2>1. \A w \in Workers : Busy(w) => holding[w] \in Tasks
    BY BusyHolds DEF ClusterInv, DInv, FInv
  <2> QED
    BY <1>1, <1>5, <2>1 DEF ClusterInv, CInv, OInv, RInv, Unsent, InHandTracked, Busy
<1>8. RInv'
  BY <1>3, <1>6, <1>7 DEF RInv
<1>9. Running' = Running /\ Pairs' = Pairs
  BY <1>1 DEF Running, Pairs
<1>10. KnownRun' /\ Capped'
  BY <1>1, <1>9 DEF ClusterInv, DInv, FInv, KnownRun, Capped, Sweeping
<1>11. OwnsPair' /\ ExclusiveExecution'
  <2>1. \A w \in Workers : Busy(w) => holding[w] \in Tasks
    BY BusyHolds DEF ClusterInv, DInv, FInv
  <2> QED
    BY <1>1, <1>5, <1>9, <2>1 DEF ClusterInv, CInv, OInv, OwnsPair, ExclusiveExecution, Busy
<1>12. CInv'
  BY <1>2, <1>8, <1>10, <1>11 DEF CInv, OInv, Peaceful
<1>13. DInv'
  BY <1>2, <1>3, <1>10 DEF DInv, FInv, Stopping, Swept, AsDecided, Undisturbed, IInv
<1>14. \A t \in Tasks : Recorded(t)' = Recorded(t)
  BY <1>1, <1>5 DEF Recorded
<1> QED
  BY <1>12, <1>13, <1>14 DEF ClusterInv

(* Every step of the server keeps the invariants of the cluster. *)
LEMMA ClusterInvStep == ClusterInv /\ [ServerNext]_serverVars => ClusterInv'
<1>1. ClusterInv /\ [Next]_vars => ClusterInv'
  BY CInvStep, DInvStep DEF ClusterInv
<1> QED
  BY <1>1, ServerSteps, AsideKeeps

(* Every step of the server is a step of the ledger. *)
LEMMA ServerLedgerStep ==
    ASSUME ClusterInv, [ServerNext]_serverVars,
           \A t \in Tasks : RecordOf(t) = Recorded(t),
           \A t \in Tasks : RecordOf(t)' = Recorded(t)'
    PROVE  Ledger!Next
<1>1. CASE [Next]_vars
  BY <1>1, LedgerStep DEF ClusterInv, CInv, OInv
<1>2. CASE FaultAside
  <2> DEFINE record == [t \in Tasks |-> RecordOf(t)]
  <2>1. \A t \in Tasks : record'[t] = record[t]
    BY <1>2, AsideKeeps
  <2>2. UNCHANGED <<done, dropped>>
    BY <1>2 DEF FaultAside, storeVars, history
  <2> HIDE DEF record
  <2> QED
    BY <2>1, <2>2 DEF Ledger!Next, Ledger!Stays, Ledger!Deal, Ledger!GiveUp, record
<1> QED
  BY <1>1, <1>2, ServerSteps

(* In the beginning. *)
LEMMA ClusterInvInit == ServerInit => ClusterInv
BY CInvInit, DInvInit DEF ServerInit, ClusterInv

(* The master with its panel and /metrics keeps every promise of the       *)
(* cluster it is put together from, though its handlers' reads of Redis    *)
(* and its first listing of the containers may fail as well.               *)
THEOREM ServerKeepsPromises == ServerSpec => []Promises
<1>1. ClusterInv => Promises
  BY OwnedIsSafe, DecidedIsReached
     DEF ClusterInv, Promises, CInv, OInv, RInv, IInv, DInv, FInv, Capped, FleetWithinCap, Swept,
         SweepComplete, Peaceful, CountIsRight, ExactlyOnceWhenCalm
<1> QED
  BY <1>1, ClusterInvInit, ClusterInvStep, PTL DEF ServerSpec

(* Above all the server implements the ledger of one record for each task. *)
THEOREM ServerIsALedger == ServerSpec => KeepsLedger
<1>1. ClusterInv => TypeOK /\ NoRepeats /\ Apart
  BY DEF ClusterInv, CInv, OInv, RInv, IInv
<1>2. ServerInit => Ledger!Init
  BY LedgerInit DEF ServerInit
<1>3. ClusterInv /\ [ServerNext]_serverVars
        /\ (\A t \in Tasks : RecordOf(t) = Recorded(t))
        /\ (\A t \in Tasks : RecordOf(t) = Recorded(t))'
      => Ledger!Next
  <2> SUFFICES ASSUME ClusterInv, [ServerNext]_serverVars,
                      \A t \in Tasks : RecordOf(t) = Recorded(t),
                      (\A t \in Tasks : RecordOf(t) = Recorded(t))'
               PROVE  Ledger!Next
    OBVIOUS
  <2>1. \A t \in Tasks : RecordOf(t)' = Recorded(t)'
    OBVIOUS
  <2> QED
    BY <2>1, ServerLedgerStep
<1> QED
  BY <1>1, <1>2, <1>3, RecordIs, ClusterInvInit, ClusterInvStep, PTL
     DEF ServerSpec, KeepsLedger, Ledger!Spec
=============================================================================
