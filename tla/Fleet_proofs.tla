----------------------------- MODULE Fleet_proofs -----------------------------
(***************************************************************************)
(* The running workers: how many there are, what the list made at a tick   *)
(* tells about them later in the tick, whether they are as many as the     *)
(* tick decided, whose task is whose, and how often a task is counted; for *)
(* any number of workers and tasks.  Where it matters, the premise is that *)
(* containers are started by the orchestrator alone.                       *)
(*                                                                         *)
(* Everything rests on KnownRun: the list made at the tick misses no       *)
(* worker that runs while the sweep and the decision go by it, because     *)
(* only Generate starts workers and it comes after both.                   *)
(***************************************************************************)
EXTENDS Records_proofs

(* The part of a tick that goes by the list of running workers. *)
Sweeping == stage \in {"sweeping", "routing", "restoring", "deciding"}

(* The list made at the tick misses no running worker. *)
KnownRun == ~ManualStarts /\ Sweeping => Running \subseteq known

(* Workers running and workers still to be started. *)
Capped ==
    ~ManualStarts =>
        /\ Cardinality(Running) <= SystemCap
        /\ stage = "generating" => Cardinality(Running) + quota <= SystemCap

(* The inductive invariant of the number of workers. *)
FInv == TypeOK /\ KnownRun /\ Capped

-----------------------------------------------------------------------------
(* Who moves the orchestrator's goroutine on. *)
LEMMA OrchestratorMoves ==
    ASSUME [Next]_vars
    PROVE  \/ UNCHANGED orchestratorVars
           \/ Tick \/ Processing_to_main \/ ScaleUp \/ ScaleDown \/ GenerateStep \/ DestroyStep
           \/ OrchestratorFault \/ TickAborted \/ Restart
BY DEF Next, Failure, Handler, Loop, LoopCancelled, OnSignal, ManualStart, Orchestrate, WorkerCrash,
       WorkerFault, HandlerFault, MasterCrash, MeasurementFault, vars

(* The list is made anew at a tick and kept until the decision. *)
LEMMA SweepingStep ==
    ASSUME [Next]_vars, Sweeping'
    PROVE  Tick \/ (Sweeping /\ known' = known)
<1> USE DEF Sweeping
<1>1. CASE UNCHANGED orchestratorVars
  BY <1>1 DEF orchestratorVars
<1>2. CASE Processing_to_main
  BY <1>2 DEF Processing_to_main, SweepPop, SweepEmpty, SweepKeep, SweepRequeue, Routed,
              SweepRestore, SweepEnd, orchestratorVars
<1>3. CASE ScaleUp \/ ScaleDown \/ GenerateStep \/ TickAborted \/ Restart
  BY <1>3 DEF ScaleUp, ScaleDown, GenerateStep, Generate, GenerateNoID, GenerateEnd, TickAborted,
              Restart
<1>4. CASE DestroyStep
  BY <1>4 DEF DestroyStep, Skip, Choose, Look, NextPass, DestroyEnd, StopSignal, GraceExpires,
              StopReturns, VictimDone, orchestratorVars
<1>5. CASE OrchestratorFault
  BY <1>5 DEF OrchestratorFault, SweepPopFails, SweepRouteFails, Routed, SweepRestoreFails,
              ScaleFails, GenerateFails, StopFails, RemoveFails, VictimDone, StatsFail, Look
<1> QED
  BY <1>1, <1>2, <1>3, <1>4, <1>5, OrchestratorMoves

(* Containers are to be started after ScaleUp only, and fewer each time.   *)
LEMMA GeneratingStep ==
    ASSUME TypeOK, [Next]_vars, stage' = "generating"
    PROVE  \/ ScaleUp
           \/ \E w \in Workers : Generate(w)
           \/ stage = "generating" /\ quota' <= quota
<1> USE DEF TypeOK, OrchestratorTypeOK
<1>1. CASE UNCHANGED orchestratorVars
  BY <1>1 DEF orchestratorVars, scaling
<1>2. CASE Tick \/ Processing_to_main
  BY <1>2 DEF Tick, Processing_to_main, SweepPop, SweepEmpty, SecondLoop, SweepKeep, SweepRequeue,
              Routed, SweepRestore, SweepEnd, orchestratorVars, scaling
<1>3. CASE ScaleDown \/ GenerateStep \/ TickAborted \/ Restart
  BY <1>3 DEF ScaleDown, GenerateStep, GenerateNoID, GenerateEnd, TickAborted, Restart
<1>4. CASE DestroyStep
  BY <1>4 DEF DestroyStep, Skip, Choose, Look, NextPass, DestroyEnd, StopSignal, GraceExpires,
              StopReturns, VictimDone, orchestratorVars, scaling
<1>5. CASE OrchestratorFault
  BY <1>5 DEF OrchestratorFault, SweepPopFails, SweepRouteFails, Routed, SweepRestoreFails,
              ScaleFails, GenerateFails, StopFails, RemoveFails, VictimDone, StatsFail, Look, scaling
<1> QED
  BY <1>1, <1>2, <1>3, <1>4, <1>5, OrchestratorMoves

(* A process ends with a signal on its way, by a crash or by the SIGKILL   *)
(* of a container stop.                                                    *)
Ends(w) ==
    /\ container[w] = "running"
    /\ Halt(w)
    /\ UNCHANGED orchestratorVars
    /\ \/ signal[w] \in {"stored", "cancelled"}
       \/ lost' = lost + 1
       \/ stage = "gracing" /\ w = victim

(* SIGTERM travels on in worker w. *)
SignalMoves(w) ==
    /\ UNCHANGED <<container, orchestratorVars>>
    /\ signal[w] # "none"
    /\ \A v \in Workers \ {w} : signal'[v] = signal[v]

(* What can happen to a container or a signal. *)
LEMMA ContainerStep ==
    ASSUME TypeOK, [Next]_vars, ~ManualStarts
    PROVE  \/ UNCHANGED <<container, signal>>
           \/ \E w \in Workers : Generate(w) \/ Ends(w) \/ SignalMoves(w)
           \/ StopSignal \/ StopReturns
<1> USE DEF storeVars, workerVars
<1>1. ASSUME NEW w \in Workers, EndTask(w), phase[w] # "off", UNCHANGED orchestratorVars
      PROVE  UNCHANGED <<container, signal>> \/ Ends(w)
  BY <1>1 DEF EndTask, ShuttingDown, Ends, TypeOK, WorkerTypeOK
<1>2. ASSUME NEW w \in Workers, Loop(w) \/ LoopCancelled(w) \/ WorkerFault(w)
      PROVE  UNCHANGED <<container, signal>> \/ Ends(w)
  <2>1. UNCHANGED orchestratorVars
    BY <1>2 DEF Loop, LoopCancelled, WorkerFault
  <2>2. CASE Ack(w) \/ PollFails(w) \/ AckFails(w)
    BY <1>1, <2>1, <2>2 DEF Ack, PollFails, AckFails
  <2>3. CASE PollCancelled(w)
    BY <2>1, <2>3 DEF PollCancelled, Ends, TypeOK, WorkerTypeOK
  <2>4. CASE BLPop(w) \/ Register(w) \/ Finish(w) \/ RegisterFails(w) \/ IncrFails(w)
    BY <2>4 DEF BLPop, Register, Finish, RegisterFails, IncrFails
  <2> QED
    BY <1>2, <2>2, <2>3, <2>4 DEF Loop, LoopCancelled, WorkerFault
<1>3. ASSUME NEW w \in Workers, OnSignal(w)
      PROVE  SignalMoves(w)
  BY <1>3 DEF OnSignal, StoreFlag, Cancel, SignalMoves, TypeOK, WorkerTypeOK
<1>4. ASSUME NEW w \in Workers, WorkerCrash(w)
      PROVE  Ends(w)
  BY <1>4 DEF WorkerCrash, Die, Ends, TypeOK
<1>5. CASE GraceExpires
  BY <1>5 DEF GraceExpires, Die, Ends, TypeOK, OrchestratorTypeOK
<1>6. CASE Tick \/ Processing_to_main \/ ScaleUp \/ ScaleDown \/ TickAborted \/ Restart
  BY <1>6 DEF Tick, Processing_to_main, SweepPop, SweepEmpty, SweepKeep, SweepRequeue, Routed,
              SweepRestore, SweepEnd, ScaleUp, ScaleDown, TickAborted, Restart
<1>7. CASE GenerateStep
  BY <1>7 DEF GenerateStep, GenerateNoID, GenerateEnd
<1>8. CASE DestroyStep
  BY <1>5, <1>8 DEF DestroyStep, Skip, Choose, Look, NextPass, DestroyEnd
<1>9. CASE OrchestratorFault
  BY <1>9 DEF OrchestratorFault, SweepPopFails, SweepRouteFails, Routed, SweepRestoreFails,
              ScaleFails, GenerateFails, StopFails, RemoveFails, VictimDone, StatsFail, Look
<1>10. ASSUME NEW t \in Tasks, Handler(t) \/ HandlerFault(t)
       PROVE  UNCHANGED <<container, signal>>
  BY <1>10 DEF Handler, HandlerFault
<1>11. CASE UNCHANGED vars
  BY <1>11 DEF vars
<1> QED
  BY <1>2, <1>3, <1>4, <1>6, <1>7, <1>8, <1>9, <1>10, <1>11
     DEF Next, Failure, ManualStart, Orchestrate, MasterCrash, MeasurementFault

(* Only Generate starts a worker, one at a time. *)
LEMMA RunningStep ==
    ASSUME TypeOK, [Next]_vars, ~ManualStarts
    PROVE  \/ Running' \subseteq Running
           \/ \E w \in Workers : /\ Generate(w)
                                 /\ w \notin Running /\ Running' = Running \cup {w}
<1> USE DEF Running, TypeOK, WorkerTypeOK
<1>1. CASE UNCHANGED <<container, signal>> \/ StopSignal
  BY <1>1 DEF StopSignal
<1>2. CASE StopReturns
  BY <1>2 DEF StopReturns, OrchestratorTypeOK
<1>3. ASSUME NEW w \in Workers, Ends(w) \/ SignalMoves(w)
      PROVE  Running' \subseteq Running
  BY <1>3 DEF Ends, Halt, SignalMoves
<1>4. ASSUME NEW w \in Workers, Generate(w)
      PROVE  w \notin Running /\ Running' = Running \cup {w}
  BY <1>4 DEF Generate, Fresh, Boot
<1> QED
  BY <1>1, <1>2, <1>3, <1>4, ContainerStep

(* Sets of workers are finite. *)
LEMMA WorkersFinite ==
    ASSUME NEW S, S \subseteq Workers
    PROVE  IsFiniteSet(S) /\ Cardinality(S) \in Nat
BY WorkersAssumption, FS_Subset, FS_CardinalityType

(* A part of a set of workers has no more members. *)
LEMMA FewerWorkers ==
    ASSUME NEW S, NEW T, T \subseteq Workers, S \subseteq T
    PROVE  Cardinality(S) <= Cardinality(T)
BY WorkersFinite, FS_Subset

(* While the tick goes by its list, no worker starts. *)
LEMMA KnownRunStep ==
    ASSUME TypeOK, KnownRun, [Next]_vars
    PROVE  KnownRun'
<1> SUFFICES ASSUME ~ManualStarts, Sweeping'
             PROVE  Running' \subseteq known'
  BY DEF KnownRun
<1>1. CASE Tick
  BY <1>1 DEF Tick, GetWorkerContainers, Running, workerVars
<1>2. CASE Sweeping /\ known' = known
  BY <1>2, RunningStep DEF KnownRun, Generate, Sweeping
<1> QED
  BY <1>1, <1>2, SweepingStep

(* Less running and less to start is less together. *)
LEMMA LessRemains ==
    ASSUME NEW a \in Nat, NEW b \in Nat, NEW c \in Nat, NEW d \in Nat, NEW m \in Nat,
           a <= b, c <= d, b + d <= m
    PROVE  a <= m /\ a + c <= m
OBVIOUS

(* ScaleUp asks for what is missing in a list that misses no worker, and   *)
(* each worker started is one less to start.                               *)
LEMMA CappedStep ==
    ASSUME FInv, [Next]_vars
    PROVE  Capped'
<1> DEFINE r == Cardinality(Running)
<1> SUFFICES ASSUME ~ManualStarts
             PROVE  r' <= SystemCap /\ (stage' = "generating" => r' + quota' <= SystemCap)
  BY DEF Capped
<1>1. /\ r \in Nat /\ r' \in Nat /\ quota \in Nat /\ quota' \in Nat /\ SystemCap \in Nat
      /\ Running \subseteq Workers
  BY WorkersFinite, TypeStep, OrchestratorAssumption
     DEF FInv, TypeOK, OrchestratorTypeOK, Running
<1>2. r <= SystemCap /\ (stage = "generating" => r + quota <= SystemCap)
  BY <1>1 DEF FInv, Capped
<1>3. Running' \subseteq Running => r' <= r
  BY <1>1, FewerWorkers
<1> HIDE DEF r
<1>4. ASSUME NEW w \in Workers, Generate(w)
      PROVE  r' <= SystemCap /\ r' + quota' <= SystemCap
  <2>1. w \notin Running /\ Running' = Running \cup {w}
    BY <1>4 DEF Generate, Fresh, Boot, Running, FInv, TypeOK, WorkerTypeOK
  <2>2. r' = r + 1
    BY <1>1, <2>1, WorkersFinite, FS_AddElement DEF r
  <2>3. stage = "generating" /\ quota' = quota - 1
    BY <1>4 DEF Generate
  <2> QED
    BY <1>1, <1>2, <2>2, <2>3
<1>5. CASE Running' \subseteq Running /\ stage' = "generating"
  <2>1. CASE ScaleUp
    <3>1. PICK n \in Decisions(SystemCap) : n >= Cardinality(known) /\ quota' = n - Cardinality(known)
      BY <2>1 DEF ScaleUp, Missing
    <3>2. n \in Nat /\ n <= SystemCap
      BY <1>1 DEF Decisions
    <3>3. Running \subseteq known /\ known \subseteq Workers
      BY <2>1 DEF FInv, KnownRun, Sweeping, ScaleUp, TypeOK, OrchestratorTypeOK
    <3>4. r <= Cardinality(known) /\ Cardinality(known) \in Nat
      BY <3>3, FewerWorkers, WorkersFinite DEF r
    <3> QED
      BY <1>1, <1>3, <1>5, <3>1, <3>2, <3>4
  <2>2. CASE stage = "generating" /\ quota' <= quota
    BY <1>1, <1>2, <1>3, <1>5, <2>2, LessRemains
  <2> QED
    BY <1>1, <1>4, <1>5, <2>1, <2>2, GeneratingStep DEF FInv
<1>6. CASE Running' \subseteq Running /\ stage' # "generating"
  <2>1. r' <= r /\ r <= SystemCap
    BY <1>2, <1>3, <1>6
  <2>2. r' <= SystemCap
    BY <1>1, <2>1
  <2> QED
    BY <1>6, <2>2
<1>7. ASSUME NEW w \in Workers, Generate(w)
      PROVE  stage' = "generating"
  BY <1>7 DEF Generate
<1> QED
  BY <1>1, <1>4, <1>5, <1>6, <1>7, RunningStep DEF FInv, r

(* In the beginning no worker runs. *)
LEMMA FInvInit == Init => FInv
<1> SUFFICES ASSUME Init PROVE FInv
  OBVIOUS
<1>1. Running = {} /\ stage = "waiting"
  BY DEF Init, WorkerInit, OrchestratorInit, Running
<1>2. Cardinality(Running) = 0
  BY <1>1, FS_EmptySet
<1> QED
  BY <1>1, <1>2, TypeCorrectInit, OrchestratorAssumption DEF FInv, KnownRun, Sweeping, Capped

(* Every step of the cluster keeps the number of workers bounded. *)
LEMMA FInvStep == FInv /\ [Next]_vars => FInv'
BY TypeStep, KnownRunStep, CappedStep DEF FInv

(* The fleet never outgrows getSystemCaps, though master and workers crash *)
(* and containers fail to start while the orchestrator is counting.        *)
THEOREM FleetStaysWithinCap == Spec => []FleetWithinCap
<1>1. FInv => FleetWithinCap
  BY DEF FInv, Capped, FleetWithinCap
<1> QED
  BY <1>1, FInvInit, FInvStep, PTL DEF Spec

-----------------------------------------------------------------------------
(* As long as no call fails and the master does not crash, workers end by  *)
(* a crash, which lost counts, or where Destroy has them stop.             *)
Undisturbed == restarts = 0 /\ faults = 0 /\ ~ManualStarts

Destroying == {"scanning", "stopping", "gracing"}

(* Containers on Destroy's list that are still there, exited ones too. *)
Present == {w \in listed : container[w] # "absent"}

(* The list of the tick counts no more workers than run and have crashed   *)
(* since, one container at a time is being stopped, and those to keep and  *)
(* those still to stop are no fewer than the containers left on Destroy's  *)
(* list and no more than run and have crashed.                             *)
Stopping ==
    Undisturbed =>
        /\ \A w \in Workers : signal[w] # "none" =>
             stage = "gracing" /\ w = victim /\ container[w] = "running"
        /\ Sweeping => Cardinality(known) <= Cardinality(Running) + lost
        /\ stage \in Destroying =>
             Running \subseteq listed /\ Cardinality(Present) <= target + quota
        /\ stage = "scanning" => target + quota <= Cardinality(Running) + lost
        /\ stage \in {"stopping", "gracing"} =>
             /\ victim \in Present
             /\ target + quota <= Cardinality(Running \ {victim}) + lost + 1

(* Without one of its members a set has one member less, if that.          *)
LEMMA WithoutOne ==
    ASSUME NEW S, S \subseteq Workers, NEW w
    PROVE  /\ Cardinality(S) \in Nat /\ Cardinality(S \ {w}) \in Nat
           /\ Cardinality(S) <= Cardinality(S \ {w}) + 1
           /\ w \in S => Cardinality(S) = Cardinality(S \ {w}) + 1
<1>1. IsFiniteSet(S) /\ Cardinality(S) \in Nat /\ Cardinality(S \ {w}) \in Nat
  BY WorkersFinite
<1>2. w \in S => Cardinality(S \ {w}) = Cardinality(S) - 1
  BY <1>1, FS_RemoveElement
<1>3. w \notin S => Cardinality(S \ {w}) = Cardinality(S)
  <2>1. w \notin S => S \ {w} = S
    OBVIOUS
  <2> QED
    BY <2>1
<1> DEFINE n == Cardinality(S)
           m == Cardinality(S \ {w})
<1>4. n \in Nat /\ m \in Nat /\ (w \in S => m = n - 1) /\ (w \notin S => m = n)
  BY <1>1, <1>2, <1>3
<1> HIDE DEF n, m
<1>5. n <= m + 1 /\ (w \in S => n = m + 1)
  BY <1>4
<1> QED
  BY <1>4, <1>5 DEF n, m

(* The counters of failures only grow, so that what is undisturbed after a *)
(* step was so before, and the step was none but a crash of a worker.      *)
LEMMA UndisturbedStep ==
    ASSUME TypeOK, [Next]_vars, Undisturbed'
    PROVE  /\ Undisturbed
           /\ \/ UNCHANGED <<container, signal, orchestratorVars, lost>>
              \/ \E w \in Workers : Ends(w) /\ lost' \in {lost, lost + 1}
              \/ \E w \in Workers : SignalMoves(w) /\ UNCHANGED lost
              \/ Tick
              \/ /\ Processing_to_main \/ ScaleUp \/ ScaleDown \/ GenerateStep \/ DestroyStep
                 /\ UNCHANGED lost
<1>1. /\ restarts' = 0 /\ faults' = 0 /\ ~ManualStarts
      /\ restarts \in Nat /\ faults \in Nat /\ lost \in Nat
  BY DEF Undisturbed, TypeOK
<1>2. /\ \A w \in Workers : ~WorkerFault(w)
      /\ \A t \in Tasks : ~HandlerFault(t)
      /\ ~MasterCrash /\ ~OrchestratorFault /\ ~MeasurementFault
  BY <1>1 DEF WorkerFault, HandlerFault, MasterCrash, OrchestratorFault, MeasurementFault, Fault
<1>3. ASSUME NEW t \in Tasks, Handler(t)
      PROVE  UNCHANGED <<container, signal, orchestratorVars, budget>>
  BY <1>3 DEF Handler, workerVars
<1>4. ASSUME NEW w \in Workers, Loop(w) \/ LoopCancelled(w) \/ OnSignal(w)
      PROVE  /\ UNCHANGED <<orchestratorVars, budget>>
             /\ \/ UNCHANGED <<container, signal>>
                \/ \E v \in Workers : Ends(v) \/ SignalMoves(v)
  <2>1. UNCHANGED <<orchestratorVars, budget>>
    BY <1>4 DEF Loop, LoopCancelled, OnSignal
  <2>2. /\ ~ \E v \in Workers : Generate(v)
        /\ ~StopSignal /\ ~StopReturns
    BY <2>1 DEF Generate, StopSignal, StopReturns, VictimDone, orchestratorVars, scaling, TypeOK,
                OrchestratorTypeOK, Counted
  <2>3. \/ UNCHANGED <<container, signal>>
        \/ \E v \in Workers : Ends(v) \/ SignalMoves(v)
    BY <1>1, <2>2, ContainerStep
  <2> QED
    BY <2>1, <2>3
<1>5. ASSUME NEW w \in Workers, WorkerCrash(w)
      PROVE  Ends(w) /\ lost' = lost + 1 /\ UNCHANGED <<restarts, faults>>
  BY <1>5 DEF WorkerCrash, Die, Ends
<1>6. UNCHANGED vars => UNCHANGED <<container, signal, orchestratorVars, budget>>
  BY DEF vars, workerVars
<1>7. \A w \in Workers : ~ManualStart(w)
  BY <1>1 DEF ManualStart
<1>8. UNCHANGED <<restarts, faults>>
  BY <1>2, <1>3, <1>4, <1>5, <1>6, <1>7 DEF Next, Failure, Orchestrate, budget
<1>9. Undisturbed
  BY <1>1, <1>8 DEF Undisturbed
<1> QED
  BY <1>2, <1>3, <1>4, <1>5, <1>6, <1>7, <1>9 DEF Next, Failure, Orchestrate, budget

(* Destroy stops one container after the other and counts each, those too  *)
(* whose process has crashed before.                                       *)
LEMMA StoppingStep ==
    ASSUME FInv, Stopping, [Next]_vars
    PROVE  Stopping'
<1> SUFFICES ASSUME Undisturbed' PROVE Stopping'
  BY DEF Stopping
<1> USE DEF Sweeping, Destroying
<1>1. /\ TypeOK /\ TypeOK' /\ WorkerTypeOK /\ OrchestratorTypeOK /\ ~ManualStarts
      /\ Undisturbed /\ lost \in Nat /\ lost' \in Nat
  BY TypeStep, UndisturbedStep DEF FInv, TypeOK, Undisturbed
<1>2. /\ \A w \in Workers : signal[w] # "none" =>
           stage = "gracing" /\ w = victim /\ container[w] = "running"
      /\ Sweeping => Cardinality(known) <= Cardinality(Running) + lost
      /\ stage \in Destroying =>
           Running \subseteq listed /\ Cardinality(Present) <= target + quota
      /\ stage = "scanning" => target + quota <= Cardinality(Running) + lost
      /\ stage \in {"stopping", "gracing"} =>
           /\ victim \in Present
           /\ target + quota <= Cardinality(Running \ {victim}) + lost + 1
  BY <1>1 DEF Stopping
<1>3. /\ Running \subseteq Workers /\ known \subseteq Workers /\ Present \subseteq Workers
      /\ Cardinality(Running) \in Nat /\ Cardinality(known) \in Nat
      /\ Cardinality(Running \ {victim}) \in Nat /\ Cardinality(Present) \in Nat
      /\ target \in Nat /\ quota \in Nat
  BY <1>1, WorkersFinite DEF Running, Present, OrchestratorTypeOK
<1>4. ASSUME UNCHANGED <<container, signal, stage, known, target, quota, listed, victim, lost>>
      PROVE  Stopping'
  BY <1>2, <1>4 DEF Stopping, Running, Present
<1>5. ASSUME NEW w \in Workers, Ends(w), lost' \in {lost, lost + 1}
      PROVE  Stopping'
  <2>1. /\ UNCHANGED <<stage, known, target, quota, listed, victim>>
        /\ container[w] = "running"
        /\ container' = [container EXCEPT ![w] = "exited"]
        /\ signal' = [signal EXCEPT ![w] = "none"]
    BY <1>5 DEF Ends, Halt, orchestratorVars, scaling
  <2>2. Present' = Present /\ Running' = Running \ {w} /\ w \in Running
    BY <1>1, <2>1 DEF Present, Running, WorkerTypeOK, OrchestratorTypeOK
  <2>3. \A v \in Workers : signal'[v] # "none" =>
          stage' = "gracing" /\ v = victim' /\ container'[v] = "running"
    BY <1>1, <1>2, <2>1 DEF WorkerTypeOK
  <2>4. CASE lost' = lost + 1
    <3>1. /\ Cardinality(Running') \in Nat
          /\ Cardinality(Running) = Cardinality(Running') + 1
      BY <1>3, <2>2, WithoutOne
    <3>2. (Running \ {victim}) \ {w} = Running' \ {victim}
      BY <2>2
    <3>3. /\ Cardinality(Running' \ {victim}) \in Nat
          /\ Cardinality(Running \ {victim}) <= Cardinality(Running' \ {victim}) + 1
      BY <1>3, <3>2, WithoutOne
    <3>4. Sweeping => Cardinality(known) <= Cardinality(Running') + lost'
      BY <1>1, <1>2, <1>3, <2>4, <3>1
    <3>5. stage = "scanning" => target + quota <= Cardinality(Running') + lost'
      BY <1>1, <1>2, <1>3, <2>4, <3>1
    <3>6. stage \in {"stopping", "gracing"} =>
            target + quota <= Cardinality(Running' \ {victim}) + lost' + 1
      BY <1>1, <1>2, <1>3, <2>4, <3>3
    <3> QED
      BY <1>2, <2>1, <2>2, <2>3, <3>4, <3>5, <3>6 DEF Stopping
  <2>5. CASE lost' = lost
    <3>1. lost' # lost + 1
      BY <1>1, <2>5
    <3>2. stage = "gracing" /\ w = victim
      BY <1>2, <1>5, <3>1 DEF Ends
    <3>3. Running' \ {victim} = Running \ {victim}
      BY <2>2, <3>2
    <3> QED
      BY <1>2, <2>1, <2>2, <2>3, <2>5, <3>2, <3>3 DEF Stopping
  <2> QED
    BY <1>5, <2>4, <2>5
<1>6. ASSUME NEW w \in Workers, SignalMoves(w), UNCHANGED lost
      PROVE  Stopping'
  <2>1. UNCHANGED <<container, stage, known, target, quota, listed, victim>>
    BY <1>6 DEF SignalMoves, orchestratorVars, scaling
  <2>2. Running' = Running /\ Present' = Present
    BY <2>1 DEF Running, Present
  <2> QED
    BY <1>2, <1>6, <2>1, <2>2 DEF Stopping, SignalMoves
<1>7. ASSUME stage # "gracing", UNCHANGED signal, stage' \notin Destroying,
             Sweeping' => Cardinality(known') <= Cardinality(Running') + lost'
      PROVE  Stopping'
  BY <1>2, <1>7 DEF Stopping
<1>8. CASE Tick
  <2>1. stage = "waiting" /\ stage' = "sweeping" /\ known' = Running /\ UNCHANGED <<container, signal>>
    BY <1>8 DEF Tick, GetWorkerContainers, workerVars
  <2>2. Running' = Running
    BY <2>1 DEF Running
  <2>3. Cardinality(known') <= Cardinality(Running') + lost'
    BY <1>1, <1>3, <2>1, <2>2
  <2> QED
    BY <1>7, <2>1, <2>3
<1>9. CASE Processing_to_main /\ UNCHANGED lost
  <2>1. /\ Sweeping /\ UNCHANGED <<container, signal, known>>
        /\ stage' \in {"sweeping", "routing", "restoring", "deciding"}
    BY <1>9 DEF Processing_to_main, SweepPop, SweepEmpty, SecondLoop, SweepKeep, SweepRequeue, Routed,
                SweepRestore, SweepEnd, workerVars, orchestratorVars
  <2>2. Running' = Running
    BY <2>1 DEF Running
  <2> QED
    BY <1>2, <1>7, <1>9, <2>1, <2>2
<1>10. CASE ScaleUp
  <2>1. stage = "deciding" /\ stage' = "generating" /\ UNCHANGED signal
    BY <1>10 DEF ScaleUp, workerVars
  <2> QED
    BY <1>7, <2>1
<1>11. CASE ScaleDown /\ UNCHANGED lost
  <2>1. PICK n \in Decisions(SystemCap) : target' = n /\ quota' = Cardinality(known) - n
    BY <1>11 DEF ScaleDown
  <2>2. n \in Nat
    BY OrchestratorAssumption DEF Decisions
  <2>3. /\ UNCHANGED <<container, signal>> /\ stage = "deciding" /\ stage' = "scanning"
        /\ listed' = Running /\ target' + quota' = Cardinality(known)
    BY <1>3, <1>11, <2>1, <2>2 DEF ScaleDown, workerVars
  <2>4. Running' = Running /\ Present' = Running
    BY <2>3 DEF Running, Present
  <2>5. Cardinality(Running) <= Cardinality(known)
    BY <1>1, <1>3, <2>3, FewerWorkers DEF FInv, KnownRun
  <2> QED
    BY <1>2, <1>11, <2>3, <2>4, <2>5 DEF Stopping
<1>12. CASE GenerateStep
  <2>1. stage = "generating" /\ stage' \in {"generating", "waiting"} /\ UNCHANGED signal
    BY <1>12 DEF GenerateStep, Generate, Boot, GenerateNoID, GenerateEnd, workerVars
  <2> QED
    BY <1>7, <2>1
<1>13. CASE DestroyStep /\ UNCHANGED lost
  <2>1. ASSUME NEW w \in Workers, Skip(w)
        PROVE  Stopping'
    BY <1>4, <1>13, <2>1 DEF Skip, Look, workerVars
  <2>2. ASSUME NEW w \in Workers, Choose(w)
        PROVE  Stopping'
    <3>1. /\ UNCHANGED <<container, signal, target, quota, listed>>
          /\ stage = "scanning" /\ stage' = "stopping" /\ victim' = w
          /\ container[w] # "absent" /\ w \in scan
      BY <2>2 DEF Choose, Look, workerVars
    <3>2. Running' = Running /\ Present' = Present /\ w \in Present
      BY <1>1, <3>1 DEF Running, Present, OrchestratorTypeOK
    <3>3. target + quota <= Cardinality(Running \ {w}) + lost + 1
      <4>1. /\ Cardinality(Running \ {w}) \in Nat
            /\ Cardinality(Running) <= Cardinality(Running \ {w}) + 1
        BY <1>3, WithoutOne
      <4> QED
        BY <1>1, <1>2, <1>3, <3>1, <4>1
    <3> QED
      BY <1>2, <1>13, <3>1, <3>2, <3>3 DEF Stopping
  <2>3. CASE NextPass
    BY <1>4, <1>13, <2>3 DEF NextPass, workerVars
  <2>4. CASE DestroyEnd
    BY <1>7, <2>4 DEF DestroyEnd, workerVars
  <2>5. CASE StopSignal
    <3>1. /\ UNCHANGED <<container, victim, target, quota, listed>>
          /\ stage = "stopping" /\ stage' = "gracing"
          /\ \A w \in Workers : signal'[w] # signal[w] => w = victim /\ container[w] = "running"
      BY <1>1, <2>5 DEF StopSignal, scaling, WorkerTypeOK, OrchestratorTypeOK
    <3>2. Running' = Running /\ Present' = Present
      BY <3>1 DEF Running, Present
    <3> QED
      BY <1>2, <1>13, <3>1, <3>2 DEF Stopping
  <2>6. CASE GraceExpires
    <3>1. Ends(victim) /\ victim \in Workers
      BY <1>1, <2>6 DEF GraceExpires, Die, Ends, OrchestratorTypeOK
    <3> QED
      BY <1>5, <1>13, <3>1
  <2>7. CASE StopReturns
    <3>1. /\ stage = "gracing" /\ stage' = "scanning" /\ UNCHANGED <<signal, target, listed>>
          /\ container[victim] # "running" /\ victim \in Workers
          /\ container' = [container EXCEPT ![victim] = "absent"]
          /\ quota' = quota - 1
      BY <1>1, <2>7 DEF StopReturns, VictimDone, Counted, OrchestratorTypeOK
    <3>2. Running' = Running /\ Running \ {victim} = Running
      BY <1>1, <3>1 DEF Running, WorkerTypeOK
    <3>3. Present' = Present \ {victim}
      BY <1>1, <3>1 DEF Present, WorkerTypeOK, OrchestratorTypeOK
    <3>4. Cardinality(Present') \in Nat /\ Cardinality(Present) = Cardinality(Present') + 1
      BY <1>2, <1>3, <3>1, <3>3, WithoutOne
    <3>5. Cardinality(Present') <= target' + quota'
      BY <1>2, <1>3, <3>1, <3>4
    <3>6. target' + quota' <= Cardinality(Running') + lost'
      BY <1>1, <1>2, <1>3, <1>13, <3>1, <3>2
    <3>7. \A w \in Workers : signal'[w] = "none"
      BY <1>2, <3>1
    <3> QED
      BY <1>2, <3>1, <3>2, <3>5, <3>6, <3>7 DEF Stopping
  <2> QED
    BY <1>13, <2>1, <2>2, <2>3, <2>4, <2>5, <2>6, <2>7 DEF DestroyStep
<1> QED
  BY <1>1, <1>4, <1>5, <1>6, <1>8, <1>9, <1>10, <1>11, <1>12, <1>13, UndisturbedStep
     DEF orchestratorVars, scaling

(* What the invariant says of the workers while Destroy scans its list. *)
LEMMA ScanningExact ==
    ASSUME FInv, Stopping
    PROVE  StopsExactly
<1> SUFFICES ASSUME Undisturbed, stage = "scanning"
             PROVE  (target + quota) - Cardinality(Running) \in 0..lost
  BY DEF StopsExactly, Undisturbed
<1>1. /\ Running \subseteq Present /\ Cardinality(Present) <= target + quota
      /\ target + quota <= Cardinality(Running) + lost
  BY DEF Stopping, Destroying, Running, Present
<1>2. /\ Cardinality(Running) \in Nat /\ Cardinality(Present) \in Nat
      /\ Cardinality(Running) <= Cardinality(Present)
  BY <1>1, WorkersFinite, FewerWorkers DEF Present, FInv, TypeOK, OrchestratorTypeOK, Running
<1>3. target \in Nat /\ quota \in Nat /\ lost \in Nat
  BY DEF FInv, TypeOK, OrchestratorTypeOK
<1> QED
  BY <1>1, <1>2, <1>3

(* Destroy stops exactly as many workers as it was asked to, whichever     *)
(* workers crash beside it.                                                *)
THEOREM DestroyStopsExactly == Spec => []StopsExactly
<1>1. Init => Stopping
  BY DEF Init, WorkerInit, OrchestratorInit, Stopping, Sweeping, Destroying
<1>2. FInv /\ Stopping /\ [Next]_vars => FInv' /\ Stopping'
  BY FInvStep, StoppingStep
<1> QED
  BY <1>1, <1>2, ScanningExact, FInvInit, PTL DEF Spec

-----------------------------------------------------------------------------
(* As long as no Redis call fails and the master does not crash, a sweep   *)
(* leaves only pairs of workers that ran at the tick, and empties          *)
(* temp_queue again.  Workers may crash.                                   *)
Swept ==
    faults = 0 /\ restarts = 0 /\ ~ManualStarts =>
        /\ stage \notin {"sweeping", "routing", "restoring"} => temp_queue = <<>>
        /\ \A p \in ToSet(temp_queue) : p.first \in known
        /\ stage \in {"restoring", "deciding"} => \A p \in Pairs : p.first \in known

(* A step before and after which no call has failed and the master has not *)
(* crashed.                                                                *)
LEMMA QuietStep ==
    ASSUME TypeOK, [Next]_vars, faults' = 0, restarts' = 0, ~ManualStarts
    PROVE  /\ faults = 0 /\ restarts = 0
           /\ \/ \E t \in Tasks : Handler(t)
              \/ \E w \in Workers : Loop(w) \/ LoopCancelled(w) \/ OnSignal(w) \/ WorkerCrash(w)
              \/ Orchestrate
              \/ UNCHANGED vars
<1>1. faults \in Nat /\ restarts \in Nat
  BY DEF TypeOK
<1>2. /\ \A w \in Workers : ~WorkerFault(w) /\ ~ManualStart(w)
      /\ \A t \in Tasks : ~HandlerFault(t)
      /\ ~MasterCrash /\ ~OrchestratorFault /\ ~MeasurementFault
  BY <1>1 DEF WorkerFault, HandlerFault, MasterCrash, OrchestratorFault, MeasurementFault, Fault,
              ManualStart
<1>3. \/ \E t \in Tasks : Handler(t)
      \/ \E w \in Workers : Loop(w) \/ LoopCancelled(w) \/ OnSignal(w) \/ WorkerCrash(w)
      \/ Orchestrate
      \/ UNCHANGED vars
  BY <1>2 DEF Next, Failure
<1>4. UNCHANGED <<faults, restarts>>
  BY <1>3 DEF Handler, Loop, LoopCancelled, OnSignal, WorkerCrash, Orchestrate, vars, budget
<1> QED
  BY <1>3, <1>4

(* Handlers and workers add the pairs of running workers and leave the     *)
(* sweep's list alone.                                                     *)
LEMMA PairsOfRunning ==
    ASSUME TypeOK,
           \/ \E t \in Tasks : Handler(t)
           \/ \E w \in Workers : Loop(w) \/ LoopCancelled(w) \/ OnSignal(w) \/ WorkerCrash(w)
    PROVE  /\ UNCHANGED <<temp_queue, hand, stage, known>>
           /\ \A p \in Pairs' \ Pairs : p.first \in Running
<1> USE DEF storeVars, lists, orchestratorVars
<1>1. UNCHANGED <<temp_queue, hand, stage, known>>
  BY DEF Handler, IncrementRequestCount, AcceptRequest, RefuseRequest, Loop, LoopCancelled, OnSignal,
         WorkerCrash, BLPop, Register, Ack, Finish, PollCancelled, StoreFlag, Cancel, Die
<1>2. CASE UNCHANGED processing_queue
  BY <1>1, <1>2 DEF Pairs
<1>3. ASSUME NEW w \in Workers, Register(w)
      PROVE  \A p \in Pairs' \ Pairs : p.first \in Running
  <2>1. holding[w] \in Tasks
    BY <1>3, BusyHolds DEF Register, Busy
  <2>2. ToSet(processing_queue') = ToSet(processing_queue) \cup {Pair(w, holding[w])}
    BY <1>3, <2>1, PairType, AppendToSet DEF Register, TypeOK, StoreTypeOK
  <2>3. Pair(w, holding[w]).first = w /\ w \in Running
    BY <1>3 DEF Pair, Register, Running, TypeOK, WorkerTypeOK
  <2> QED
    BY <1>1, <2>2, <2>3 DEF Pairs
<1>4. ASSUME NEW w \in Workers, Ack(w)
      PROVE  \A p \in Pairs' \ Pairs : p.first \in Running
  <2>1. ToSet(processing_queue') \subseteq ToSet(processing_queue)
    BY <1>4, RemoveFirstToSet DEF Ack, LRem, TypeOK, StoreTypeOK
  <2> QED
    BY <1>1, <2>1 DEF Pairs
<1> QED
  BY <1>1, <1>2, <1>3, <1>4
     DEF Handler, IncrementRequestCount, AcceptRequest, RefuseRequest, Loop, LoopCancelled, OnSignal,
         WorkerCrash, BLPop, Finish, PollCancelled, StoreFlag, Cancel, Die

(* The first loop parks what belongs to a worker of the list and gives the *)
(* rest back; what workers add meanwhile is theirs.                        *)
LEMMA SweptStep ==
    ASSUME TypeOK, KnownRun, Swept, [Next]_vars
    PROVE  Swept'
<1> SUFFICES ASSUME faults' = 0, restarts' = 0, ~ManualStarts PROVE Swept'
  BY DEF Swept
<1>1. /\ stage \notin {"sweeping", "routing", "restoring"} => temp_queue = <<>>
      /\ \A p \in ToSet(temp_queue) : p.first \in known
      /\ stage \in {"restoring", "deciding"} => \A p \in Pairs : p.first \in known
  BY QuietStep DEF Swept
<1>2. stage \in {"restoring", "deciding"} => Running \subseteq known
  BY DEF KnownRun, Sweeping
<1>3. ASSUME UNCHANGED <<temp_queue, stage, known>>, \A p \in Pairs' \ Pairs : p.first \in Running
      PROVE  Swept'
  BY <1>1, <1>2, <1>3 DEF Swept
<1>4. ASSUME stage \notin {"sweeping", "routing", "restoring"}, UNCHANGED temp_queue,
             stage' \notin {"routing", "restoring", "deciding"}
      PROVE  Swept'
  BY <1>1, <1>4, EmptyToSet DEF Swept
<1>5. CASE \/ \E t \in Tasks : Handler(t)
           \/ \E w \in Workers : Loop(w) \/ LoopCancelled(w) \/ OnSignal(w) \/ WorkerCrash(w)
  BY <1>3, <1>5, PairsOfRunning
<1>6. CASE UNCHANGED vars
  BY <1>3, <1>6 DEF vars, storeVars, lists, orchestratorVars, Pairs
<1>7. CASE Processing_to_main
  <2>1. stage # "routing" => hand = None
    BY DEF TypeOK, OrchestratorTypeOK
  <2>2. CASE SweepPop \/ SweepRequeue
    BY <1>1, <2>2 DEF SweepPop, SweepRequeue, Routed, Swept
  <2>3. CASE SweepEmpty
    <3>1. Pairs \subseteq ToSet(temp_queue)
      BY <2>1, <2>3, EmptyToSet DEF SweepEmpty, Filtered, Pairs
    <3>2. UNCHANGED <<temp_queue, known, Pairs>> /\ stage' = "restoring"
      BY <2>3 DEF SweepEmpty, SecondLoop, Pairs, storeVars, lists
    <3> QED
      BY <1>1, <3>1, <3>2 DEF Swept
  <2>4. CASE SweepKeep
    <3>1. ToSet(temp_queue)' = ToSet(temp_queue) \cup {hand}
      BY <2>4, AppendToSet DEF SweepKeep, Parked, Routed, TypeOK, StoreTypeOK, OrchestratorTypeOK
    <3>2. stage' = "sweeping" /\ known' = known /\ hand.first \in known
      BY <2>4 DEF SweepKeep, Routed, Runs
    <3> QED
      BY <1>1, <3>1, <3>2 DEF Swept
  <2>5. CASE SweepRestore
    <3>1. /\ ToSet(temp_queue) = {Head(temp_queue)} \cup ToSet(temp_queue')
          /\ Head(temp_queue) \in TaskPair
      BY <2>5, HeadTailToSet DEF SweepRestore, Moved, TypeOK, StoreTypeOK
    <3>2. ToSet(processing_queue)' = ToSet(processing_queue) \cup {Head(temp_queue)}
      BY <2>5, <3>1, AppendToSet DEF SweepRestore, TypeOK, StoreTypeOK
    <3>3. Pairs' = Pairs /\ UNCHANGED <<stage, known>> /\ stage = "restoring"
      BY <2>5, <3>1, <3>2 DEF SweepRestore, Pairs, orchestratorVars
    <3> QED
      BY <1>1, <3>1, <3>3 DEF Swept
  <2>6. CASE SweepEnd
    BY <1>1, <2>6 DEF SweepEnd, Swept, Pairs, storeVars, lists
  <2> QED
    BY <1>7, <2>2, <2>3, <2>4, <2>5, <2>6 DEF Processing_to_main
<1>8. CASE Tick \/ ScaleUp \/ ScaleDown \/ GenerateStep
  BY <1>4, <1>8 DEF Tick, ScaleUp, ScaleDown, GenerateStep, Generate, GenerateNoID, GenerateEnd,
                    storeVars, lists
<1>9. CASE DestroyStep
  <2>1. /\ stage \in {"scanning", "stopping", "gracing"}
        /\ stage' \in {"scanning", "stopping", "gracing", "waiting"}
    BY <1>9 DEF DestroyStep, Skip, Choose, Look, NextPass, DestroyEnd, StopSignal, GraceExpires,
                StopReturns, VictimDone, orchestratorVars
  <2>2. UNCHANGED temp_queue
    BY <1>9 DEF DestroyStep, Skip, Choose, Look, NextPass, DestroyEnd, StopSignal, GraceExpires, Die,
                StopReturns, VictimDone, storeVars, lists
  <2> QED
    BY <1>4, <2>1, <2>2
<1> QED
  BY <1>5, <1>6, <1>7, <1>8, <1>9, QuietStep DEF Orchestrate

(* After its first loop a sweep has left no pair of a worker that had gone *)
(* before the tick, though workers push pairs all the while.               *)
THEOREM SweepsAreComplete == Spec => []SweepComplete
<1>1. Init => Swept
  BY EmptyToSet DEF Init, StoreInit, OrchestratorInit, Swept
<1>2. FInv /\ Swept /\ [Next]_vars => FInv' /\ Swept'
  BY FInvStep, SweptStep DEF FInv
<1>3. Swept => SweepComplete
  BY DEF Swept, SweepComplete
<1> QED
  BY <1>1, <1>2, <1>3, FInvInit, PTL DEF Spec

-----------------------------------------------------------------------------
(* As long as no call fails and the master does not crash, a decision is   *)
(* carried out: between two ticks as many workers run as were decided on   *)
(* last, less those that have crashed since the tick.  (Docker always has  *)
(* an ID for another container; the model has when Workers has SystemCap.) *)
Adjusting == {"generating", "scanning", "stopping", "gracing"}

(* The IDs that running workers and the pairs to be found still hold. *)
Taken == Running \cup {p.first : p \in Pairs}

(* Between two ticks, no more workers run than decided, and no fewer but   *)
(* for crashes.  While workers are started, those still to start have IDs  *)
(* left; the second loop of Destroy has all that run still before it.      *)
AsDecided ==
    Undisturbed /\ SystemCap <= Cardinality(Workers) =>
        /\ stage = "waiting" =>
             Cardinality(Running) <= target /\ target <= Cardinality(Running) + lost
        /\ stage = "generating" =>
             /\ known = {} /\ target <= SystemCap
             /\ Cardinality(Taken) + quota <= target
             /\ target <= Cardinality(Running) + lost + quota
        /\ stage \notin Destroying => listed = {}
        /\ stage \in Destroying /\ pass = "any" => Running \subseteq scan \cup {victim}

(* The inductive invariant of the decisions. *)
DInv == FInv /\ Stopping /\ Swept /\ AsDecided

(* Whoever holds an ID is one of Workers. *)
LEMMA TakenFinite ==
    ASSUME TypeOK
    PROVE  /\ Running \subseteq Taken /\ Taken \subseteq Workers
           /\ Cardinality(Running) \in Nat /\ Cardinality(Taken) \in Nat
           /\ Cardinality(Running) <= Cardinality(Taken)
<1>1. \A p \in Pairs : p \in TaskPair
  BY ListTypes
<1>2. Running \subseteq Taken /\ Taken \subseteq Workers
  BY <1>1, PairFields DEF Taken, Running
<1> QED
  BY <1>2, WorkersFinite, FewerWorkers

(* An ID is left for every worker still to be started. *)
LEMMA IDsSuffice ==
    ASSUME DInv, Undisturbed, SystemCap <= Cardinality(Workers)
    PROVE  ~GenerateNoID
<1> SUFFICES ASSUME GenerateNoID PROVE FALSE
  OBVIOUS
<1>1. /\ stage = "generating" /\ quota > 0 /\ quota \in Nat /\ TypeOK /\ target \in Nat
      /\ SystemCap \in Nat
  BY OrchestratorAssumption DEF GenerateNoID, DInv, FInv, TypeOK, OrchestratorTypeOK
<1>2. /\ known = {} /\ listed = {} /\ target <= SystemCap
      /\ Cardinality(Taken) + quota <= target
  BY <1>1 DEF DInv, AsDecided, Destroying
<1>3. Workers = Taken
  BY <1>1, <1>2, TakenFinite DEF GenerateNoID, Fresh, Running, Taken
<1>4. Cardinality(Taken) \in Nat /\ SystemCap <= Cardinality(Taken)
  BY <1>1, <1>3, TakenFinite
<1> QED
  BY <1>1, <1>2, <1>4

(* Destroy's second loop takes every container that is left on its list,   *)
(* so that Destroy ends with none left to stop, or with none running.      *)
LEMMA DestroyEndsExactly ==
    ASSUME DInv, Undisturbed, SystemCap <= Cardinality(Workers), DestroyEnd
    PROVE  Cardinality(Running) <= target /\ target <= Cardinality(Running) + lost
<1>1. /\ stage = "scanning" /\ victim = None /\ target \in Nat /\ quota \in Nat /\ lost \in Nat
      /\ listed \subseteq Workers
  BY DEF DestroyEnd, DInv, FInv, TypeOK, OrchestratorTypeOK
<1>2. /\ Running \subseteq listed /\ Cardinality(Present) <= target + quota
      /\ target + quota <= Cardinality(Running) + lost
  BY <1>1 DEF DInv, Stopping, Destroying
<1>3. /\ Cardinality(Running) \in Nat /\ Cardinality(Present) \in Nat
      /\ Cardinality(Running) <= Cardinality(Present)
  BY <1>1, <1>2, WorkersFinite, FewerWorkers DEF Running, Present
<1>4. CASE quota = 0
  BY <1>1, <1>2, <1>3, <1>4
<1>5. CASE scan = {} /\ pass = "any"
  <2>1. Running = {}
    BY <1>1, <1>5, NoneAssumption DEF DInv, AsDecided, Destroying, Running
  <2>2. Cardinality(Running) = 0
    BY <2>1, FS_EmptySet
  <2> QED
    BY <1>1, <1>2, <2>2
<1> QED
  BY <1>4, <1>5 DEF DestroyEnd

(* A worker less that runs is one more that is lost. *)
LEMMA OneMoreLost ==
    ASSUME NEW a \in Nat, NEW b \in Nat
    PROVE  a <= a + 1 /\ a + (b + 1) = (a + 1) + b
OBVIOUS

(* Fewer IDs taken leave room for as many. *)
LEMMA FewerTaken ==
    ASSUME NEW a \in Nat, NEW b \in Nat, NEW c \in Nat, NEW m \in Nat, a <= b, b + c <= m
    PROVE  a + c <= m
OBVIOUS

(* Every step that adjusts the fleet brings it to the target or keeps it   *)
(* there, and a crash is one more that is lost.                            *)
LEMMA AsDecidedStep ==
    ASSUME DInv, [Next]_vars
    PROVE  AsDecided'
<1>0. SUFFICES ASSUME Undisturbed', SystemCap <= Cardinality(Workers) PROVE AsDecided'
  BY DEF AsDecided
<1> USE DEF Adjusting, Destroying
<1> DEFINE r == Cardinality(Running)
           u == Cardinality(Taken)
<1>1. /\ Undisturbed /\ ~ManualStarts /\ TypeOK /\ TypeOK' /\ lost \in Nat /\ lost' \in Nat
      /\ quota \in Nat /\ target \in Nat /\ SystemCap \in Nat
  BY <1>0, UndisturbedStep, TypeStep, OrchestratorAssumption
     DEF DInv, FInv, Undisturbed, TypeOK, OrchestratorTypeOK
<1>2. /\ stage = "waiting" => r <= target /\ target <= r + lost
      /\ stage = "generating" =>
           known = {} /\ target <= SystemCap /\ u + quota <= target /\ target <= r + lost + quota
      /\ stage \notin Destroying => listed = {}
      /\ stage \in Destroying /\ pass = "any" => Running \subseteq scan \cup {victim}
  BY <1>0, <1>1 DEF DInv, AsDecided
<1>3. /\ Sweeping => Cardinality(known) <= r + lost
      /\ \A w \in Workers : signal[w] # "none" => stage = "gracing" /\ w = victim
  BY <1>1 DEF DInv, Stopping
<1>4. /\ r \in Nat /\ u \in Nat /\ r' \in Nat /\ u' \in Nat
      /\ Running \subseteq Workers /\ Taken \subseteq Workers
  <2>1. \A p \in Pairs' : p \in TaskPair
    <3>1. /\ processing_queue' \in Seq(TaskPair) /\ temp_queue' \in Seq(TaskPair)
          /\ hand' \in TaskPair \cup {None}
      BY <1>1 DEF TypeOK, StoreTypeOK, OrchestratorTypeOK
    <3>2. \A q \in Seq(TaskPair) : ToSet(q) \subseteq TaskPair
      BY ElementOfSeq, LenProperties DEF ToSet
    <3> QED
      BY <3>1, <3>2 DEF Pairs
  <2>2. Running' \subseteq Workers /\ Taken' \subseteq Workers
    BY <2>1, PairFields DEF Taken, Running
  <2> QED
    BY <1>1, <2>2, TakenFinite, WorkersFinite
<1>5. /\ Taken' \subseteq Taken => u' <= u
      /\ Running' = Running => r' = r
      /\ \A w \in Running : Running' = Running \ {w} => r = r' + 1
  BY <1>4, FewerWorkers, WithoutOne
<1>6. ASSUME stage' = "waiting" => r' <= target' /\ target' <= r' + lost',
             stage' = "generating" =>
               /\ known' = {} /\ target' <= SystemCap
               /\ u' + quota' <= target' /\ target' <= r' + lost' + quota',
             stage' \notin Destroying => listed' = {},
             stage' \in Destroying /\ pass' = "any" => Running' \subseteq scan' \cup {victim'}
      PROVE  AsDecided'
  BY <1>6 DEF AsDecided
<1> HIDE DEF r, u
<1>7. ASSUME UNCHANGED orchestratorVars, Running' \subseteq Running, Taken' \subseteq Taken,
             stage # "gracing" =>
               \/ Running' = Running /\ lost' = lost
               \/ \E w \in Running : Running' = Running \ {w} /\ lost' = lost + 1
      PROVE  AsDecided'
  <2>1. UNCHANGED <<stage, known, target, quota, listed, scan, pass, victim>>
    BY <1>7 DEF orchestratorVars, scaling
  <2>2. r \in Nat /\ r' \in Nat /\ lost \in Nat /\ lost' \in Nat /\ target \in Nat /\ quota \in Nat
        /\ u \in Nat /\ u' \in Nat /\ u' <= u
    BY <1>1, <1>4, <1>5, <1>7
  <2>3. ASSUME stage # "gracing"
        PROVE  r' <= r /\ r' + lost' = r + lost
    <3>1. CASE r' = r /\ lost' = lost
      BY <2>2, <3>1
    <3>2. CASE r = r' + 1 /\ lost' = lost + 1
      BY <2>2, <3>2, OneMoreLost
    <3> QED
      BY <1>5, <1>7, <2>3, <3>1, <3>2
  <2>4. ASSUME stage = "waiting"
        PROVE  r' <= target /\ target <= r' + lost'
    <3>1. r <= target /\ target <= r + lost /\ r' <= r /\ r' + lost' = r + lost
      BY <1>2, <2>3, <2>4
    <3>2. r' <= target
      BY <2>2, <3>1, LessRemains
    <3> QED
      BY <3>1, <3>2
  <2>5. ASSUME stage = "generating"
        PROVE  u' + quota <= target /\ target <= r' + lost' + quota
    <3>1. u + quota <= target /\ target <= r + lost + quota /\ r' + lost' = r + lost
      BY <1>2, <2>3, <2>5
    <3>2. u' + quota <= target
      BY <2>2, <3>1, FewerTaken
    <3> QED
      BY <3>1, <3>2
  <2> QED
    BY <1>2, <1>6, <1>7, <2>1, <2>4, <2>5
<1>8. CASE \/ \E t \in Tasks : Handler(t)
           \/ \E w \in Workers : Loop(w) \/ LoopCancelled(w) \/ OnSignal(w) \/ WorkerCrash(w)
  <2>1. UNCHANGED orchestratorVars
    BY <1>8 DEF Handler, Loop, LoopCancelled, OnSignal, WorkerCrash
  <2>2. \A p \in Pairs' \ Pairs : p.first \in Running
    BY <1>1, <1>8, PairsOfRunning
  <2>3. ~ \E w \in Workers : Generate(w)
    BY <1>1, <2>1 DEF Generate, orchestratorVars, scaling
  <2>4. Running' \subseteq Running
    BY <1>1, <2>3, RunningStep
  <2>5. Taken' \subseteq Taken
    BY <2>2, <2>4 DEF Taken
  <2>6. CASE \E w \in Workers : WorkerCrash(w)
    <3>1. PICK w \in Workers : WorkerCrash(w)
      BY <2>6
    <3>2. w \in Running /\ Running' = Running \ {w} /\ lost' = lost + 1
      BY <1>1, <3>1 DEF WorkerCrash, Die, Halt, Running, TypeOK, WorkerTypeOK
    <3> QED
      BY <1>7, <2>1, <2>4, <2>5, <3>2
  <2>7. CASE ~ \E w \in Workers : WorkerCrash(w)
    <3>1. lost' = lost
      BY <1>8, <2>7 DEF Handler, Loop, LoopCancelled, OnSignal, budget
    <3>2. lost' # lost + 1
      BY <1>1, <3>1
    <3>3. ~StopSignal /\ ~StopReturns
      BY <1>1, <2>1 DEF StopSignal, StopReturns, VictimDone, orchestratorVars, scaling
    <3>4. stage # "gracing" => UNCHANGED container
      BY <1>1, <1>3, <2>3, <3>2, <3>3, ContainerStep DEF Ends, SignalMoves
    <3>5. stage # "gracing" => Running' = Running
      BY <3>4 DEF Running
    <3> QED
      BY <1>7, <2>1, <2>4, <2>5, <3>1, <3>5
  <2> QED
    BY <2>6, <2>7
<1>9. CASE UNCHANGED vars
  <2>1. UNCHANGED <<orchestratorVars, Running, Taken, lost>>
    BY <1>9 DEF vars, budget, storeVars, lists, workerVars, orchestratorVars, Running, Pairs, Taken
  <2> QED
    BY <1>7, <2>1
<1>10. CASE Tick \/ Processing_to_main
  <2>1. /\ UNCHANGED listed /\ stage \notin Adjusting
        /\ stage' \in {"sweeping", "routing", "restoring", "deciding"}
    BY <1>10 DEF Tick, Processing_to_main, SweepPop, SweepEmpty, SecondLoop, SweepKeep, SweepRequeue,
                 Routed, SweepRestore, SweepEnd, scaling, orchestratorVars
  <2> QED
    BY <1>2, <1>6, <2>1
<1>11. CASE ScaleUp /\ UNCHANGED lost
  <2>1. PICK n \in Decisions(SystemCap) :
            n >= Cardinality(known) /\ target' = n /\ quota' = n - Cardinality(known)
    BY <1>11 DEF ScaleUp, Missing
  <2>2. n \in Nat /\ n <= SystemCap
    BY <1>1 DEF Decisions
  <2>3. /\ stage = "deciding" /\ stage' = "generating" /\ known' = {} /\ listed' = listed
        /\ UNCHANGED <<container, Pairs>>
    BY <1>11 DEF ScaleUp, storeVars, lists, workerVars, Pairs
  <2>4. Running' = Running /\ Taken' = Taken
    BY <2>3 DEF Running, Taken
  <2>5. known \subseteq Workers /\ Taken \subseteq known
    BY <1>1, <2>3 DEF Sweeping, DInv, FInv, KnownRun, Swept, Undisturbed, Taken, TypeOK,
                      OrchestratorTypeOK
  <2>6. /\ Cardinality(known) \in Nat /\ u <= Cardinality(known)
        /\ Cardinality(known) <= r + lost
    BY <1>3, <2>3, <2>5, FewerWorkers, WorkersFinite DEF Sweeping, u
  <2>7. u' = u /\ r' = r
    BY <2>4 DEF r, u
  <2>8. /\ target' <= SystemCap
        /\ u' + quota' <= target' /\ target' <= r' + lost' + quota'
    BY <1>1, <1>4, <1>11, <2>1, <2>2, <2>6, <2>7
  <2> QED
    BY <1>2, <1>6, <2>3, <2>8
<1>12. CASE ScaleDown
  <2>1. stage' = "scanning" /\ pass' = "idle"
    BY <1>12 DEF ScaleDown
  <2> QED
    BY <1>6, <2>1
<1>13. CASE GenerateStep /\ UNCHANGED lost
  <2>1. ASSUME NEW w \in Workers, Generate(w)
        PROVE  AsDecided'
    <3>1. /\ stage = "generating" /\ stage' = "generating" /\ quota' = quota - 1
          /\ container' = [container EXCEPT ![w] = "running"] /\ Fresh(w)
          /\ UNCHANGED <<target, known, listed, Pairs>>
      BY <2>1 DEF Generate, Boot, storeVars, lists, Pairs
    <3>2. /\ w \notin Running /\ w \notin Taken
          /\ Running' = Running \cup {w} /\ Taken' = Taken \cup {w}
      BY <1>1, <3>1 DEF Fresh, Running, Taken, TypeOK, WorkerTypeOK
    <3>3. r' = r + 1 /\ u' = u + 1
      BY <1>4, <3>2, WorkersFinite, FS_AddElement DEF r, u
    <3>4. u' + quota' <= target' /\ target' <= r' + lost' + quota'
      BY <1>1, <1>2, <1>4, <1>13, <3>1, <3>3
    <3> QED
      BY <1>2, <1>6, <3>1, <3>4
  <2>2. CASE GenerateEnd
    <3>1. /\ stage = "generating" /\ stage' = "waiting" /\ quota = 0
          /\ UNCHANGED <<container, target, listed>>
      BY <2>2 DEF GenerateEnd, workerVars, scaling
    <3>2. Running' = Running /\ r <= u
      BY <1>1, <3>1, TakenFinite DEF Running, r, u
    <3>3. r' <= target' /\ target' <= r' + lost'
      BY <1>1, <1>2, <1>4, <1>5, <1>13, <3>1, <3>2
    <3> QED
      BY <1>2, <1>6, <3>1, <3>3
  <2> QED
    BY <1>0, <1>1, <1>13, <2>1, <2>2, IDsSuffice DEF GenerateStep
<1>14. CASE DestroyStep /\ UNCHANGED lost
  <2>1. ASSUME stage \in Destroying, stage' \in Destroying,
               pass' = "any" => Running' \subseteq scan' \cup {victim'}
        PROVE  AsDecided'
    BY <1>6, <2>1
  <2>2. ASSUME NEW w \in Workers, Skip(w) \/ Choose(w)
        PROVE  AsDecided'
    <3>1. /\ stage = "scanning" /\ stage' \in Destroying /\ scan' = scan \ {w}
          /\ UNCHANGED <<container, pass>> /\ victim = None
      BY <1>1, <2>2 DEF Skip, Choose, Look, workerVars, TypeOK, OrchestratorTypeOK
    <3>2. pass = "any" => w \notin Running \/ victim' = w
      BY <2>2 DEF Skip, Choose, Running
    <3>3. None \notin Running /\ Running' = Running
      BY <3>1, NoneAssumption DEF Running
    <3> QED
      BY <1>2, <2>1, <3>1, <3>2, <3>3
  <2>3. CASE NextPass
    <3>1. /\ stage = "scanning" /\ stage' = "scanning" /\ scan' = listed
          /\ UNCHANGED container
      BY <2>3 DEF NextPass, workerVars
    <3>2. Running' = Running /\ Running \subseteq listed
      BY <1>1, <3>1 DEF Running, DInv, Stopping
    <3> QED
      BY <2>1, <3>1, <3>2
  <2>4. CASE DestroyEnd
    <3>1. /\ stage' = "waiting" /\ listed' = {} /\ UNCHANGED <<container, target>>
      BY <2>4 DEF DestroyEnd, workerVars
    <3>2. r' = r
      BY <1>5, <3>1 DEF Running
    <3>3. r <= target /\ target <= r + lost
      BY <1>0, <1>1, <2>4, DestroyEndsExactly DEF r
    <3> QED
      BY <1>6, <1>14, <3>1, <3>2, <3>3
  <2>5. CASE StopSignal
    <3>1. /\ stage = "stopping" /\ stage' = "gracing"
          /\ UNCHANGED <<container, scan, pass, victim>>
      BY <2>5 DEF StopSignal, scaling
    <3>2. Running' = Running
      BY <3>1 DEF Running
    <3> QED
      BY <1>2, <2>1, <3>1, <3>2
  <2>6. CASE GraceExpires
    <3>1. /\ stage = "gracing" /\ UNCHANGED <<stage, scan, pass, victim>>
      BY <2>6 DEF GraceExpires, orchestratorVars, scaling
    <3>2. Running' \subseteq Running
      BY <1>1, <2>6 DEF GraceExpires, Die, Halt, Running, TypeOK, WorkerTypeOK
    <3> QED
      BY <1>2, <2>1, <3>1, <3>2
  <2>7. CASE StopReturns
    <3>1. /\ stage = "gracing" /\ stage' = "scanning"
          /\ container' = [container EXCEPT ![victim] = "absent"] /\ container[victim] # "running"
          /\ UNCHANGED <<scan, pass>>
      BY <2>7 DEF StopReturns, VictimDone
    <3>2. Running' = Running /\ victim \notin Running
      BY <1>1, <3>1 DEF Running, TypeOK, WorkerTypeOK
    <3> QED
      BY <1>2, <2>1, <3>1, <3>2
  <2> QED
    BY <1>14, <2>2, <2>3, <2>4, <2>5, <2>6, <2>7 DEF DestroyStep
<1> QED
  BY <1>0, <1>1, <1>8, <1>9, <1>10, <1>11, <1>12, <1>13, <1>14, QuietStep DEF Orchestrate, Undisturbed

(* In the beginning nothing has been decided. *)
LEMMA DInvInit == Init => DInv
<1> SUFFICES ASSUME Init PROVE DInv
  OBVIOUS
<1>1. FInv /\ Stopping /\ Swept
  BY FInvInit, EmptyToSet
     DEF Init, StoreInit, WorkerInit, OrchestratorInit, Stopping, Sweeping, Destroying, Swept
<1>2. /\ Running = {} /\ stage = "waiting" /\ target = 0 /\ listed = {} /\ lost = 0
  BY DEF Init, WorkerInit, OrchestratorInit, Running
<1>3. Cardinality(Running) = 0
  BY <1>2, FS_EmptySet
<1> QED
  BY <1>1, <1>2, <1>3 DEF DInv, AsDecided, Destroying

(* All parts of the invariant of the decision together. *)
LEMMA DInvStep == DInv /\ [Next]_vars => DInv'
BY FInvStep, StoppingStep, SweptStep, AsDecidedStep DEF DInv, FInv

(* What the invariant says of a fleet between two ticks. *)
LEMMA DecidedIsReached ==
    ASSUME DInv
    PROVE  StopsExactly /\ DecisionReached
<1>1. StopsExactly
  BY ScanningExact DEF DInv
<1>2. ASSUME Undisturbed, SystemCap <= Cardinality(Workers), stage = "waiting"
      PROVE  target - Cardinality(Running) \in 0..lost
  <2>1. Cardinality(Running) <= target /\ target <= Cardinality(Running) + lost
    BY <1>2 DEF DInv, AsDecided
  <2>2. Cardinality(Running) \in Nat /\ target \in Nat /\ lost \in Nat
    BY TakenFinite DEF DInv, FInv, TypeOK, OrchestratorTypeOK
  <2> QED
    BY <2>1, <2>2
<1> QED
  BY <1>1, <1>2 DEF DecisionReached, Undisturbed

(* Whenever the orchestrator waits for the next tick, and no call has      *)
(* failed so far, as many workers run as it decided on, but for those that *)
(* have crashed since the list was made: Generate and Destroy carry a      *)
(* decision out exactly, though workers push pairs, finish tasks, exit and *)
(* crash meanwhile, and make good what crashed before.                     *)
THEOREM DecisionsAreReached == Spec => []DecisionReached
BY DecidedIsReached, DInvInit, DInvStep, PTL DEF Spec

-----------------------------------------------------------------------------
(* Whose task is whose.  A registered worker's pair is where a sweep finds *)
(* it, unless the record of its task has ended.                            *)
OwnsPair ==
    ~ManualStarts =>
        \A w \in Workers : Busy(w) /\ registered[w] =>
            Pair(w, holding[w]) \in Pairs \/ Place(holding[w]) = "none"

(* The inductive invariant of ownership. *)
OInv == RInv /\ KnownRun /\ OwnsPair /\ ExclusiveExecution

(* A worker is registered only with the task it had in hand before. *)
LEMMA RegisteredStep ==
    ASSUME TypeOK, [Next]_vars, NEW w \in Workers, registered'[w]
    PROVE  /\ holding'[w] = holding[w]
           /\ registered[w] \/ Pair(w, holding[w]) \in Pairs'
<1> USE DEF storeVars, workerVars
<1>1. ASSUME NEW v \in Workers, EndTask(v) \/ Halt(v)
      PROVE  v # w /\ holding'[w] = holding[w] /\ registered[w]
  BY <1>1 DEF EndTask, Halt, TypeOK, WorkerTypeOK
<1>2. CASE UNCHANGED <<holding, registered>>
  BY <1>2
<1>3. ASSUME NEW v \in Workers, Register(v)
      PROVE  holding'[w] = holding[w] /\ (registered[w] \/ Pair(w, holding[w]) \in Pairs')
  <2>1. holding[v] \in Tasks
    BY <1>3, BusyHolds DEF Register, Busy
  <2>2. ToSet(processing_queue') = ToSet(processing_queue) \cup {Pair(v, holding[v])}
    BY <1>3, <2>1, PairType, AppendToSet DEF Register, TypeOK, StoreTypeOK
  <2>3. v = w \/ registered[w]
    BY <1>3 DEF Register, TypeOK, WorkerTypeOK
  <2> QED
    BY <1>3, <2>2, <2>3 DEF Register, Pairs
<1>4. ASSUME NEW v \in Workers, BLPop(v)
      PROVE  holding'[w] = holding[w] /\ registered[w]
  BY <1>4, PollingHoldsNothing DEF BLPop, TypeOK, WorkerTypeOK
<1>5. ASSUME NEW v \in Workers, Loop(v) \/ LoopCancelled(v) \/ OnSignal(v) \/ WorkerFault(v)
                                 \/ WorkerCrash(v) \/ ManualStart(v)
      PROVE  holding'[w] = holding[w] /\ (registered[w] \/ Pair(w, holding[w]) \in Pairs')
  BY <1>1, <1>2, <1>3, <1>4, <1>5
     DEF Loop, LoopCancelled, OnSignal, WorkerFault, WorkerCrash, ManualStart, Finish, Ack,
         PollCancelled, StoreFlag, Cancel, PollFails, RegisterFails, IncrFails, AckFails, Die, Boot
<1>6. ASSUME NEW t \in Tasks, Handler(t) \/ HandlerFault(t)
      PROVE  UNCHANGED <<holding, registered>>
  BY <1>6 DEF Handler, HandlerFault
<1>7. CASE GraceExpires
  BY <1>1, <1>7 DEF GraceExpires, Die, TypeOK, OrchestratorTypeOK
<1>8. CASE DestroyStep
  BY <1>2, <1>7, <1>8 DEF DestroyStep, Skip, Choose, Look, NextPass, DestroyEnd, StopSignal, StopReturns,
                          VictimDone
<1>9. CASE Tick \/ Processing_to_main \/ ScaleUp \/ ScaleDown \/ GenerateStep \/ MasterCrash
           \/ MeasurementFault
  BY <1>2, <1>9 DEF Tick, Processing_to_main, SweepPop, SweepEmpty, SweepKeep, SweepRequeue, Routed,
                    SweepRestore, SweepEnd, ScaleUp, ScaleDown, GenerateStep, Generate, Boot,
                    GenerateNoID, GenerateEnd, MasterCrash, Restart, MeasurementFault, TickAborted
<1>10. CASE OrchestratorFault
  BY <1>2, <1>10 DEF OrchestratorFault, SweepPopFails, SweepRouteFails, Routed, SweepRestoreFails,
                     ScaleFails, GenerateFails, StopFails, RemoveFails, VictimDone, StatsFail, Look
<1>11. CASE UNCHANGED vars
  BY <1>2, <1>11 DEF vars
<1> QED
  BY <1>2, <1>5, <1>6, <1>8, <1>9, <1>10, <1>11 DEF Next, Failure, Orchestrate

(* A sweep takes a pair away from nobody who runs: its owner would be in   *)
(* the list made at the tick.                                              *)
LEMMA OwnsPairStep ==
    ASSUME OInv, [Next]_vars
    PROVE  OwnsPair'
<1> SUFFICES ASSUME ~ManualStarts, NEW w \in Workers, Busy(w)', registered'[w]
             PROVE  (Pair(w, holding[w]) \in Pairs \/ Place(holding[w]) = "none")'
  BY DEF OwnsPair
<1>1. TypeOK /\ TypeOK' /\ RecordStep
  BY TypeStep, EveryRecordStep DEF OInv, RInv, IInv
<1>2. holding'[w] = holding[w] /\ (registered[w] \/ Pair(w, holding[w]) \in Pairs')
  BY <1>1, RegisteredStep
<1>3. PICK t \in Tasks : t = holding[w] /\ t = holding'[w]
  BY <1>1, <1>2 DEF TypeOK, WorkerTypeOK
<1>4. PICK p \in TaskPair : p = Pair(w, t) /\ p.first = w /\ p.second = t
  BY PairType DEF Pair
<1>5. SUFFICES p \in Pairs' \/ Place(t)' = "none"
  BY <1>3, <1>4
<1>6. CASE p \in Pairs'
  BY <1>6
<1>7. CASE p \notin Pairs'
  <2>1. registered[w] /\ Busy(w)
    BY <1>1, <1>2, <1>3, <1>4, <1>7, NoneAssumption DEF TypeOK, WorkerTypeOK
  <2>2. p \in Pairs \/ Place(t) = "none"
    BY <1>3, <1>4, <2>1 DEF OInv, OwnsPair
  <2>3. CASE p \in Pairs
    <3>1. PairStep(p)
      BY <1>1, <1>4, <2>3 DEF RecordStep, TaskStep
    <3>2. ~(p = hand /\ ~Runs(p.first))
      <4>1. w \in Running
        BY <1>1, <2>1 DEF TypeOK, WorkerTypeOK, Busy, Running
      <4>2. p = hand => stage = "routing"
        BY <1>1, ListTypes DEF TypeOK, OrchestratorTypeOK
      <4> QED
        BY <1>4, <4>1, <4>2 DEF OInv, KnownRun, Sweeping, Runs
    <3> QED
      BY <1>4, <1>7, <3>1, <3>2 DEF PairStep
  <2>4. CASE Place(t) = "none"
    <3>1. Tracked(t)
      BY <1>3, <2>1 DEF OInv, RInv, InHandTracked
    <3>2. req[t] # "counted"
      BY <3>1 DEF OInv, RInv, Unsent
    <3>3. StepOf(t)
      BY <1>1 DEF RecordStep, TaskStep
    <3> QED
      BY <2>4, <3>2, <3>3 DEF StepOf
  <2> QED
    BY <2>2, <2>3, <2>4
<1> QED
  BY <1>6, <1>7

(* What a busy worker's task being in task_queue would mean. *)
LEMMA BusyDoesNotWait ==
    ASSUME OInv, ~ManualStarts, NEW w \in Workers, Busy(w)
    PROVE  ~Waits(holding[w])
<1>1. PICK t \in Tasks : t = holding[w]
  BY BusyHolds DEF OInv, RInv, IInv
<1>2. Alone(t)
  BY DEF OInv, RInv, Apart
<1>3. CASE registered[w]
  <2>1. Paired(t) \/ Place(t) = "none"
    BY <1>1, <1>3 DEF OInv, OwnsPair, Paired, Pair
  <2> QED
    BY <1>1, <1>2, <2>1 DEF Alone, Place
<1>4. CASE ~registered[w]
  BY <1>1, <1>2, <1>4 DEF Alone, Carried, Holds
<1> QED
  BY <1>3, <1>4

(* A task taken from task_queue is in nobody else's hands. *)
LEMMA ExclusiveStep ==
    ASSUME OInv, [Next]_vars
    PROVE  ExclusiveExecution'
<1> SUFFICES ASSUME ~ManualStarts, NEW v \in Workers, NEW w \in Workers,
                    Busy(v)', Busy(w)', holding'[v] = holding'[w]
             PROVE  v = w
  BY DEF ExclusiveExecution
<1>1. TypeOK /\ TypeOK' /\ RecordStep
  BY TypeStep, EveryRecordStep DEF OInv, RInv, IInv
<1>2. PICK t \in Tasks : t = holding'[v] /\ t = holding'[w]
  BY <1>1 DEF TypeOK, WorkerTypeOK
<1>3. ASSUME NEW u \in Workers, holding'[u] = t
      PROVE  (holding[u] = t /\ Busy(u)) \/ (Waits(t) /\ Holds(u, t)')
  <2>1. CASE holding[u] = t
    BY <1>1, <2>1, NoneAssumption DEF TypeOK, WorkerTypeOK
  <2>2. CASE holding[u] # t
    <3>1. Waits(t)
      BY <1>1, <1>3, <2>2, NoneAssumption DEF RecordStep
    <3>2. ~registered'[u]
      BY <1>1, <1>3, <2>2, RegisteredStep
    <3> QED
      BY <1>3, <3>1, <3>2 DEF Holds
  <2> QED
    BY <2>1, <2>2
<1>4. CASE Waits(t)
  <2>1. \A u \in Workers : ~(holding[u] = t /\ Busy(u))
    BY <1>4, BusyDoesNotWait
  <2>2. Holds(v, t)' /\ Holds(w, t)'
    BY <1>2, <1>3, <2>1
  <2> QED
    BY <1>1, <2>2 DEF RecordStep, TaskStep, Alone
<1>5. CASE ~Waits(t)
  BY <1>2, <1>3, <1>5 DEF OInv, ExclusiveExecution
<1> QED
  BY <1>4, <1>5

(* In the beginning nobody has a task. *)
LEMMA OInvInit == Init => OInv
BY RInvInit, FInvInit DEF OInv, FInv, OwnsPair, ExclusiveExecution, Init, WorkerInit, Busy

(* All parts of the invariant of ownership together. *)
LEMMA OInvStep == OInv /\ [Next]_vars => OInv'
BY RInvStep, KnownRunStep, OwnsPairStep, ExclusiveStep DEF OInv, RInv, IInv

(* Two workers never work on the same task, whatever crashes or fails.     *)
THEOREM NoTaskHasTwoWorkers == Spec => []ExclusiveExecution
<1>1. OInv => ExclusiveExecution
  BY DEF OInv
<1> QED
  BY <1>1, OInvInit, OInvStep, PTL DEF Spec

(* What a registered worker owns is there, or has been dealt with. *)
LEMMA OwnedIsSafe == OInv => CrashSafe
<1> SUFFICES ASSUME OInv, ~ManualStarts, NEW w \in Workers, phase[w] = "running", registered[w]
             PROVE  Pair(w, holding[w]) \in Pairs \/ holding[w] \in done \cup dropped
  BY DEF CrashSafe
<1>1. Busy(w)
  BY DEF Busy
<1>2. PICK t \in Tasks : t = holding[w]
  BY <1>1, BusyHolds DEF OInv, RInv, IInv
<1>3. Pair(w, t) \in Pairs \/ Place(t) = "none"
  BY <1>1, <1>2 DEF OInv, OwnsPair
<1>4. Tracked(t)
  BY <1>1, <1>2 DEF OInv, RInv, InHandTracked
<1> QED
  BY <1>2, <1>3, <1>4, TrackedIs

(* A worker that registered its task can crash at any time: a sweep finds  *)
(* its pair, unless the task is dealt with or was destroyed before.        *)
THEOREM RegisteredTasksSurvive == Spec => []CrashSafe
BY OwnedIsSafe, OInvInit, OInvStep, PTL DEF Spec

-----------------------------------------------------------------------------
(* As long as nothing makes a worker leave, and no call fails, every task  *)
(* is run once: nobody is told to stop, each pair's owner runs, so a sweep *)
(* gives nothing back, and what is done waits no more.  The master may     *)
(* crash and leave a sweep half done.                                      *)
Peaceful == downs = 0 /\ crashes = 0 /\ faults = 0 /\ ~ManualStarts

(* Nobody is told to stop, and each pair's owner runs. *)
NobodyLeaves ==
    /\ stage \notin {"scanning", "stopping", "gracing"}
    /\ \A w \in Workers : signal[w] = "none"
    /\ \A p \in Pairs : p.first \in Running

(* What is done neither waits nor is about to run. *)
DoneIsOver ==
    /\ \A t \in done : ~Waits(t)
    /\ \A w \in Workers : phase[w] \in {"popped", "running"} => holding[w] \notin done
    /\ \A w \in Workers : phase[w] = "running" => holding[w] \in Runnable

(* task_completed is the number of runnable tasks that are done. *)
CountIsRight ==
    /\ IsFiniteSet(done)
    /\ task_completed = Cardinality(done \cap Runnable)

(* The inductive invariant of the counter of tasks. *)
CInv == OInv /\ (Peaceful => NobodyLeaves /\ DoneIsOver /\ CountIsRight)

(* What goes on beside the handlers and the workers' loops while nobody    *)
(* leaves: workers are started and pairs go round.                         *)
Background ==
    /\ UNCHANGED <<task_queue, task_completed, done, holding, signal>>
    /\ stage' \notin {"scanning", "stopping", "gracing"}
    /\ Running \subseteq Running'
    /\ \A p \in Pairs' : p \in Pairs
    /\ \A w \in Workers : phase'[w] \in {phase[w], "polling"}

(* The sweep moves pairs and adds none; it gives no task back as long as   *)
(* every owner runs.                                                       *)
LEMMA PeacefulSweep ==
    ASSUME RInv, KnownRun, ~ManualStarts, NobodyLeaves, Processing_to_main
    PROVE  Background
<1>1. TypeOK
  BY DEF RInv, IInv
<1>2. ~SweepRequeue
  <2> SUFFICES ASSUME SweepRequeue PROVE FALSE
    OBVIOUS
  <2>1. stage = "routing" /\ hand \in TaskPair /\ ~Runs(hand.first)
    BY <1>1 DEF SweepRequeue, Routed, TypeOK, OrchestratorTypeOK
  <2>2. hand \in Pairs /\ Running \subseteq known
    BY <1>1, <2>1, ListTypes DEF Pairs, KnownRun, Sweeping
  <2> QED
    BY <2>1, <2>2 DEF NobodyLeaves, Runs
<1>3. SweepPop \/ SweepEmpty \/ SweepKeep \/ SweepRestore \/ SweepEnd
  BY <1>2 DEF Processing_to_main
<1>4. \A p \in Pairs' : p \in Pairs
  <2>1. stage # "routing" => hand = None
    BY <1>1 DEF TypeOK, OrchestratorTypeOK
  <2>2. CASE SweepPop
    <3>1. ToSet(processing_queue) = {Head(processing_queue)} \cup ToSet(processing_queue')
      BY <1>1, <2>2, HeadTailToSet DEF SweepPop, TypeOK, StoreTypeOK
    <3>2. hand' = Head(processing_queue) /\ UNCHANGED temp_queue
      BY <2>2 DEF SweepPop
    <3> QED
      BY <3>1, <3>2 DEF Pairs
  <2>3. CASE SweepKeep
    <3>1. hand \in TaskPair /\ hand # None
      BY <1>1, <2>3 DEF SweepKeep, Routed, TypeOK, OrchestratorTypeOK
    <3>2. ToSet(temp_queue') = ToSet(temp_queue) \cup {hand}
      BY <1>1, <2>3, <3>1, AppendToSet DEF SweepKeep, Parked, TypeOK, StoreTypeOK
    <3>3. hand' = None /\ UNCHANGED processing_queue
      BY <2>3 DEF SweepKeep, Routed
    <3> QED
      BY <3>1, <3>2, <3>3 DEF Pairs
  <2>4. CASE SweepRestore
    <3>1. /\ ToSet(temp_queue) = {Head(temp_queue)} \cup ToSet(temp_queue')
          /\ Head(temp_queue) \in TaskPair
      BY <1>1, <2>4, HeadTailToSet DEF SweepRestore, Moved, TypeOK, StoreTypeOK
    <3>2. ToSet(processing_queue') = ToSet(processing_queue) \cup {Head(temp_queue)}
      BY <1>1, <2>4, <3>1, AppendToSet DEF SweepRestore, TypeOK, StoreTypeOK
    <3>3. UNCHANGED hand
      BY <2>4 DEF SweepRestore, orchestratorVars
    <3> QED
      BY <3>1, <3>2, <3>3 DEF Pairs
  <2>5. CASE SweepEmpty \/ SweepEnd
    BY <2>5 DEF SweepEmpty, SweepEnd, Pairs, storeVars, lists
  <2> QED
    BY <1>3, <2>2, <2>3, <2>4, <2>5
<1>5. /\ UNCHANGED <<task_queue, task_completed, done, workerVars>>
      /\ stage' \in {"sweeping", "routing", "restoring", "deciding"}
  BY <1>3 DEF SweepPop, SweepEmpty, SecondLoop, SweepKeep, SweepRestore, SweepEnd, Routed,
              storeVars, lists, counters, history, orchestratorVars
<1> QED
  BY <1>4, <1>5 DEF Background, workerVars, Running

(* The rest of a tick, up to the start of containers. *)
LEMMA PeacefulTick ==
    ASSUME TypeOK, NobodyLeaves,
           \/ Tick \/ ScaleUp \/ GenerateStep \/ Restart \/ UNCHANGED vars
    PROVE  Background
<1> USE DEF storeVars, lists, counters, history, workerVars
<1>1. \A p \in Pairs' : p \in Pairs
  BY DEF Tick, ScaleUp, GenerateStep, Generate, GenerateNoID, GenerateEnd, Restart, vars,
         orchestratorVars, Pairs
<1>2. CASE UNCHANGED <<container, phase>>
  BY <1>1, <1>2 DEF Tick, ScaleUp, GenerateStep, Generate, Boot, GenerateNoID, GenerateEnd, Restart,
                    vars, orchestratorVars, Background, NobodyLeaves, Running
<1>3. ASSUME NEW w \in Workers, Generate(w)
      PROVE  Background
  BY <1>1, <1>3 DEF Generate, Boot, Goto, Background, Running, TypeOK, WorkerTypeOK
<1> QED
  BY <1>2, <1>3 DEF Tick, ScaleUp, GenerateStep, GenerateNoID, GenerateEnd, Restart, vars

(* A step after which all is peaceful. *)
LEMMA PeacefulStep ==
    ASSUME CInv, [Next]_vars, Peaceful'
    PROVE  /\ Peaceful
           /\ \/ \E t \in Tasks : Handler(t)
              \/ \E w \in Workers : Loop(w)
              \/ Background
<1>1. /\ downs' = 0 /\ crashes' = 0 /\ faults' = 0 /\ ~ManualStarts
      /\ downs \in Nat /\ crashes \in Nat /\ faults \in Nat
      /\ TypeOK /\ RInv /\ KnownRun
  BY DEF Peaceful, CInv, OInv, RInv, IInv, TypeOK, OrchestratorTypeOK
<1>2. /\ \A w \in Workers : ~WorkerCrash(w) /\ ~WorkerFault(w) /\ ~ManualStart(w)
      /\ \A t \in Tasks : ~HandlerFault(t)
      /\ ~OrchestratorFault /\ ~MeasurementFault /\ ~ScaleDown
  BY <1>1 DEF WorkerCrash, WorkerFault, HandlerFault, OrchestratorFault, MeasurementFault, Fault,
              ManualStart, ScaleDown
<1>3. \/ \E t \in Tasks : Handler(t)
      \/ \E w \in Workers : Loop(w) \/ LoopCancelled(w) \/ OnSignal(w)
      \/ Tick \/ Processing_to_main \/ ScaleUp \/ GenerateStep \/ DestroyStep
      \/ Restart \/ UNCHANGED vars
  BY <1>2 DEF Next, Failure, Orchestrate, MasterCrash
<1>4. UNCHANGED <<crashes, faults>>
  BY <1>2 DEF Next, Failure, Handler, Loop, LoopCancelled, OnSignal, Orchestrate, MasterCrash, vars,
              budget
<1>5. UNCHANGED downs
  <2>1. CASE UNCHANGED orchestratorVars
    BY <2>1 DEF orchestratorVars, scaling
  <2>2. CASE Tick \/ Processing_to_main
    BY <2>2 DEF Tick, Processing_to_main, SweepPop, SweepEmpty, SweepKeep, SweepRequeue, Routed,
                SweepRestore, SweepEnd, orchestratorVars, scaling
  <2>3. CASE ScaleUp \/ GenerateStep \/ Restart
    BY <2>3 DEF ScaleUp, GenerateStep, Generate, GenerateNoID, GenerateEnd, Restart, scaling
  <2>4. CASE DestroyStep
    BY <2>4 DEF DestroyStep, Skip, Choose, Look, NextPass, DestroyEnd, StopSignal, GraceExpires,
                StopReturns, VictimDone, orchestratorVars, scaling
  <2> QED
    BY <1>3, <2>1, <2>2, <2>3, <2>4 DEF Handler, Loop, LoopCancelled, OnSignal, vars
<1>6. Peaceful
  BY <1>1, <1>4, <1>5 DEF Peaceful
<1>7. NobodyLeaves
  BY <1>6 DEF CInv
<1>8. ~DestroyStep
  BY <1>7 DEF NobodyLeaves, DestroyStep, Skip, Choose, Look, NextPass, DestroyEnd, StopSignal,
              GraceExpires, StopReturns
<1>9. \A w \in Workers : ~LoopCancelled(w) /\ ~OnSignal(w)
  BY <1>7 DEF NobodyLeaves, LoopCancelled, PollCancelled, OnSignal, StoreFlag, Cancel
<1> QED
  BY <1>1, <1>3, <1>6, <1>7, <1>8, <1>9, PeacefulSweep, PeacefulTick

(* What a worker's step leaves alone while nobody leaves. *)
LEMMA WorkersStay ==
    ASSUME TypeOK, NobodyLeaves, NEW w \in Workers, Loop(w)
    PROVE  /\ NobodyLeaves'
           /\ UNCHANGED <<container, signal, orchestratorVars>>
           /\ \A v \in Workers \ {w} : phase'[v] = phase[v] /\ holding'[v] = holding[v]
<1>1. ~ShuttingDown(w)
  BY DEF NobodyLeaves, ShuttingDown
<1>2. UNCHANGED <<container, signal, orchestratorVars>>
  BY <1>1 DEF Loop, BLPop, Register, Finish, Ack, EndTask
<1>3. \A v \in Workers \ {w} : phase'[v] = phase[v] /\ holding'[v] = holding[v]
  BY <1>1 DEF Loop, BLPop, Register, Dispatch, Finish, Ack, EndTask, Goto, TypeOK, WorkerTypeOK
<1>4. \A p \in Pairs' \ Pairs : p.first \in Running
  BY PairsOfRunning
<1> QED
  BY <1>2, <1>3, <1>4 DEF NobodyLeaves, Running, orchestratorVars

(* A worker finishes what nobody has finished before: its task was neither *)
(* done nor in task_queue when it was taken, and no other worker has it.   *)
LEMMA WorkerRunsOnce ==
    ASSUME CInv, Peaceful, NEW w \in Workers, Loop(w)
    PROVE  DoneIsOver' /\ CountIsRight'
<1> DEFINE h == holding[w]
<1>1. /\ TypeOK /\ NobodyLeaves /\ DoneIsOver /\ CountIsRight /\ ~ManualStarts
      /\ OInv /\ ExclusiveExecution
  BY DEF CInv, OInv, RInv, IInv, Peaceful
<1>2. \A v \in Workers \ {w} : phase'[v] = phase[v] /\ holding'[v] = holding[v]
  BY <1>1, WorkersStay
<1>3. Busy(w) => ~Waits(h) /\ h \in Tasks
  BY <1>1, BusyDoesNotWait, BusyHolds
<1>4. \A v \in Workers \ {w} : Busy(w) /\ phase[v] \in {"popped", "running"} => holding[v] # h
  BY <1>1 DEF ExclusiveExecution, Busy
<1>5. CASE BLPop(w)
  <2>1. PICK t \in Tasks : t = Head(task_queue)
    BY <1>1, <1>5, HeadTailToSet DEF BLPop, TypeOK, StoreTypeOK
  <2>2. t \in ToSet(task_queue) /\ ToSet(task_queue') \subseteq ToSet(task_queue)
    BY <1>1, <1>5, <2>1, HeadTailToSet DEF BLPop, TypeOK, StoreTypeOK
  <2>3. t \notin done
    BY <1>1, <2>2 DEF DoneIsOver, Waits
  <2>4. UNCHANGED <<done, task_completed>> /\ phase'[w] = "popped" /\ holding'[w] = t
    BY <1>1, <1>5, <2>1 DEF BLPop, Goto, counters, history, TypeOK, WorkerTypeOK
  <2>5. DoneIsOver'
    BY <1>1, <1>2, <2>2, <2>3, <2>4 DEF DoneIsOver, Waits
  <2> QED
    BY <1>1, <2>4, <2>5 DEF CountIsRight
<1>6. CASE Register(w)
  <2>1. /\ UNCHANGED <<task_queue, task_completed, holding>>
        /\ done' = done \cup ({h} \ Runnable)
        /\ phase'[w] = IF h \in Runnable THEN "running" ELSE "acking"
    BY <1>1, <1>6 DEF Register, Dispatch, Selected, Goto, counters, TypeOK, WorkerTypeOK
  <2>2. phase[w] = "popped" /\ Busy(w) /\ h \notin done
    BY <1>1, <1>6 DEF Register, Busy, DoneIsOver
  <2>3. DoneIsOver'
    BY <1>1, <1>2, <1>3, <1>4, <2>1, <2>2 DEF DoneIsOver, Waits
  <2>4. IsFiniteSet(done') /\ done' \cap Runnable = done \cap Runnable
    <3>1. CASE h \in Runnable
      BY <1>1, <2>1, <3>1 DEF CountIsRight
    <3>2. CASE h \notin Runnable
      BY <1>1, <2>1, <3>2, FS_AddElement DEF CountIsRight
    <3> QED
      BY <3>1, <3>2
  <2> QED
    BY <1>1, <2>1, <2>3, <2>4 DEF CountIsRight
<1>7. CASE Finish(w)
  <2>1. /\ UNCHANGED <<task_queue, holding>>
        /\ task_completed' = task_completed + 1
        /\ done' = done \cup {h}
        /\ phase'[w] = "acking"
    BY <1>1, <1>7 DEF Finish, Goto, lists, TypeOK, WorkerTypeOK
  <2>2. Busy(w) /\ h \notin done /\ h \in Runnable
    BY <1>1, <1>7 DEF Finish, Busy, DoneIsOver
  <2>3. DoneIsOver'
    BY <1>1, <1>2, <1>3, <1>4, <2>1, <2>2 DEF DoneIsOver, Waits
  <2>4. IsFiniteSet(done') /\ IsFiniteSet(done \cap Runnable)
    BY <1>1, <2>1, FS_AddElement, FS_Subset DEF CountIsRight
  <2>5. done' \cap Runnable = (done \cap Runnable) \cup {h} /\ h \notin done \cap Runnable
    BY <2>1, <2>2
  <2>6. Cardinality(done' \cap Runnable) = Cardinality(done \cap Runnable) + 1
    BY <2>4, <2>5, FS_AddElement
  <2> QED
    BY <1>1, <2>1, <2>3, <2>4, <2>6 DEF CountIsRight
<1>8. CASE Ack(w)
  <2>1. UNCHANGED <<task_queue, task_completed, done>> /\ phase'[w] = "polling"
    BY <1>1, <1>8 DEF Ack, EndTask, ShuttingDown, Goto, NobodyLeaves, counters, history, TypeOK,
                      WorkerTypeOK
  <2>2. DoneIsOver'
    BY <1>1, <1>2, <2>1 DEF DoneIsOver, Waits
  <2> QED
    BY <1>1, <2>1, <2>2 DEF CountIsRight
<1> QED
  BY <1>5, <1>6, <1>7, <1>8 DEF Loop

(* A new request is of a task nobody has done. *)
LEMMA HandlerRunsOnce ==
    ASSUME CInv, Peaceful, NEW t \in Tasks, Handler(t)
    PROVE  NobodyLeaves' /\ DoneIsOver' /\ CountIsRight'
<1>1. TypeOK /\ NobodyLeaves /\ DoneIsOver /\ CountIsRight /\ RInv
  BY DEF CInv, OInv, RInv, IInv
<1>2. /\ UNCHANGED <<processing_queue, temp_queue, task_completed, done, workerVars, orchestratorVars>>
      /\ \/ UNCHANGED task_queue
         \/ req[t] = "counted" /\ task_queue' = Append(task_queue, t)
  BY DEF Handler, IncrementRequestCount, AcceptRequest, RefuseRequest, storeVars, lists, counters,
         history
<1>3. NobodyLeaves'
  BY <1>1, <1>2 DEF NobodyLeaves, Pairs, Running, workerVars, orchestratorVars
<1>4. \A u \in Tasks : Waits(u)' => Waits(u) \/ u \notin done
  <2>1. CASE UNCHANGED task_queue
    BY <2>1 DEF Waits
  <2>2. CASE req[t] = "counted" /\ task_queue' = Append(task_queue, t)
    <3>1. t \notin done
      BY <1>1, <2>2 DEF RInv, Unsent, Tracked
    <3>2. ToSet(task_queue') = ToSet(task_queue) \cup {t}
      BY <1>1, <2>2, AppendToSet DEF TypeOK, StoreTypeOK
    <3> QED
      BY <3>1, <3>2 DEF Waits
  <2> QED
    BY <1>2, <2>1, <2>2
<1>5. done \subseteq Tasks
  BY <1>1 DEF TypeOK, StoreTypeOK
<1> QED
  BY <1>1, <1>2, <1>3, <1>4, <1>5 DEF DoneIsOver, CountIsRight, workerVars

(* In the beginning nothing is done and nothing counted. *)
LEMMA CInvInit == Init => CInv
<1> SUFFICES ASSUME Init PROVE CInv
  OBVIOUS
<1>1. OInv
  BY OInvInit
<1>2. NobodyLeaves
  BY EmptyToSet DEF Init, StoreInit, WorkerInit, OrchestratorInit, NobodyLeaves, Pairs
<1>3. DoneIsOver
  BY DEF Init, StoreInit, WorkerInit, DoneIsOver
<1>4. CountIsRight
  <2>1. done = {} /\ task_completed = 0
    BY DEF Init, StoreInit
  <2> QED
    BY <2>1, FS_EmptySet DEF CountIsRight
<1> QED
  BY <1>1, <1>2, <1>3, <1>4 DEF CInv

(* All parts of the invariant of counting together. *)
LEMMA CInvStep == CInv /\ [Next]_vars => CInv'
<1> SUFFICES ASSUME CInv, [Next]_vars PROVE CInv'
  OBVIOUS
<1>1. OInv'
  BY OInvStep DEF CInv
<1>2. SUFFICES ASSUME Peaceful' PROVE NobodyLeaves' /\ DoneIsOver' /\ CountIsRight'
  BY <1>1 DEF CInv
<1>3. Peaceful /\ TypeOK /\ NobodyLeaves /\ DoneIsOver /\ CountIsRight
  BY <1>2, PeacefulStep DEF CInv, OInv, RInv, IInv
<1>4. ASSUME NEW t \in Tasks, Handler(t)
      PROVE  NobodyLeaves' /\ DoneIsOver' /\ CountIsRight'
  BY <1>3, <1>4, HandlerRunsOnce
<1>5. ASSUME NEW w \in Workers, Loop(w)
      PROVE  NobodyLeaves' /\ DoneIsOver' /\ CountIsRight'
  BY <1>3, <1>5, WorkersStay, WorkerRunsOnce
<1>6. CASE Background
  <2>1. NobodyLeaves'
    BY <1>3, <1>6 DEF NobodyLeaves, Background
  <2>2. DoneIsOver' /\ CountIsRight'
    BY <1>3, <1>6 DEF DoneIsOver, CountIsRight, Background, Waits
  <2> QED
    BY <2>1, <2>2
<1> QED
  BY <1>2, <1>4, <1>5, <1>6, PeacefulStep

(* As long as no worker has to leave and no call fails, no task is run     *)
(* twice and none goes uncounted, though sweeps run beside the workers and *)
(* a crash of the master can cut them short.                               *)
THEOREM CalmClusterCountsOnce == Spec => []ExactlyOnceWhenCalm
<1>1. CInv => ExactlyOnceWhenCalm
  BY DEF CInv, Peaceful, CountIsRight, ExactlyOnceWhenCalm
<1> QED
  BY <1>1, CInvInit, CInvStep, PTL DEF Spec
=============================================================================
