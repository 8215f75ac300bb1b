------------------------------ MODULE KubeLite ------------------------------
(***************************************************************************)
(* The whole cluster: HTTP handlers, workers and the orchestrator's        *)
(* goroutine around one Redis database, with the failures that can hit     *)
(* them.  Each action below is an action of one component while the others *)
(* stand still.                                                            *)
(***************************************************************************)
EXTENDS Controller, Orchestrator

CONSTANTS MaxCrashes,   \* bound: crashes of worker containers
          MaxRestarts,  \* bound: crashes of the master, started again each time
          MaxFaults,    \* bound: failing Redis or Docker calls
          MaxCompleted, \* bound: tasks run; out of reach unless workers are
                        \* started by hand, see Finish in Loop
          ManualStarts  \* may an operator start workers with docker run?

ASSUME BoundsAssumption ==
    /\ MaxCrashes \in Nat
    /\ MaxRestarts \in Nat
    /\ MaxFaults \in Nat
    /\ MaxCompleted \in Nat
    /\ ManualStarts \in BOOLEAN

VARIABLES crashes,  \* bound counters, see MaxCrashes,
          restarts, \* MaxRestarts
          faults,   \* and MaxFaults
          lost      \* history: workers that crashed since the last tick

budget == <<crashes, restarts, faults, lost>>
vars == <<storeVars, req, workerVars, orchestratorVars, budget>>

TypeOK ==
    /\ StoreTypeOK
    /\ ControllerTypeOK
    /\ WorkerTypeOK
    /\ OrchestratorTypeOK
    /\ crashes \in Nat
    /\ restarts \in Nat
    /\ faults \in Nat
    /\ lost \in Nat

Init ==
    /\ StoreInit
    /\ ControllerInit
    /\ WorkerInit
    /\ OrchestratorInit
    /\ crashes = 0
    /\ restarts = 0
    /\ faults = 0
    /\ lost = 0

-----------------------------------------------------------------------------
(* One step of the handler of task t's request. *)
Handler(t) ==
    /\ IncrementRequestCount(t) \/ AcceptRequest(t) \/ RefuseRequest(t)
    /\ UNCHANGED <<workerVars, orchestratorVars, budget>>

(* One step of worker w's polling loop.  A sweep that began before w was   *)
(* started by hand can give w's task back each time w has registered it,   *)
(* so there the number of tasks run needs a bound.                         *)
Loop(w) ==
    /\ \/ BLPop(w) \/ Register(w) \/ Ack(w)
       \/ Finish(w) /\ task_completed < MaxCompleted
    /\ UNCHANGED <<req, orchestratorVars, budget>>

LoopCancelled(w) ==
    /\ PollCancelled(w)
    /\ UNCHANGED <<req, orchestratorVars, budget>>

(* One step of worker w's signal goroutine. *)
OnSignal(w) ==
    /\ StoreFlag(w) \/ Cancel(w)
    /\ UNCHANGED <<req, orchestratorVars, budget>>

(* One step of Processing_to_main, of Generate, and of Destroy. *)
Processing_to_main ==
    SweepPop \/ SweepEmpty \/ SweepKeep \/ SweepRequeue \/ SweepRestore \/ SweepEnd

GenerateStep == (\E w \in Workers : Generate(w)) \/ GenerateNoID \/ GenerateEnd

DestroyStep ==
    \/ \E w \in Workers : Skip(w) \/ Choose(w)
    \/ NextPass \/ DestroyEnd
    \/ StopSignal \/ GraceExpires \/ StopReturns

Orchestrate ==
    /\ \/ Tick /\ lost' = 0
       \/ /\ Processing_to_main \/ ScaleUp \/ ScaleDown \/ GenerateStep \/ DestroyStep
          /\ UNCHANGED lost
    /\ UNCHANGED <<req, crashes, restarts, faults>>

-----------------------------------------------------------------------------
(* A worker is killed: out of memory, docker kill, power. *)
WorkerCrash(w) ==
    /\ crashes < MaxCrashes
    /\ crashes' = crashes + 1
    /\ lost' = lost + 1
    /\ Die(w)
    /\ UNCHANGED <<req, orchestratorVars, restarts, faults>>

(* The master is killed and started again; its open requests break off. *)
MasterCrash ==
    /\ restarts < MaxRestarts
    /\ restarts' = restarts + 1
    /\ Restart
    /\ req' = [t \in Tasks |-> IF req[t] = "counted" THEN "refused" ELSE req[t]]
    /\ UNCHANGED <<crashes, faults, lost>>

(* A Redis or Docker call fails. *)
Fault ==
    /\ faults < MaxFaults
    /\ faults' = faults + 1
    /\ UNCHANGED <<crashes, restarts, lost>>

HandlerFault(t) ==
    /\ Fault
    /\ CountLost(t) \/ PushFails(t)
    /\ UNCHANGED <<workerVars, orchestratorVars>>

WorkerFault(w) ==
    /\ Fault
    /\ PollFails(w) \/ RegisterFails(w) \/ IncrFails(w) \/ AckFails(w)
    /\ UNCHANGED <<req, orchestratorVars>>

OrchestratorFault ==
    /\ Fault
    /\ \/ SweepPopFails \/ SweepRouteFails \/ SweepRestoreFails \/ ScaleFails
       \/ GenerateFails \/ StopFails \/ RemoveFails \/ \E w \in Workers : StatsFail(w)
    /\ UNCHANGED req

MeasurementFault ==
    /\ Fault
    /\ TickAborted
    /\ UNCHANGED req

(* docker run --label role=worker kubelite-worker:latest (README.md). *)
ManualStart(w) ==
    /\ ManualStarts
    /\ Fresh(w)
    /\ Boot(w)
    /\ UNCHANGED <<storeVars, req, orchestratorVars, budget>>

-----------------------------------------------------------------------------
Failure ==
    \/ \E w \in Workers : WorkerCrash(w) \/ WorkerFault(w)
    \/ \E t \in Tasks : HandlerFault(t)
    \/ MasterCrash \/ OrchestratorFault \/ MeasurementFault

Next ==
    \/ \E t \in Tasks : Handler(t)
    \/ \E w \in Workers : Loop(w) \/ LoopCancelled(w) \/ OnSignal(w) \/ ManualStart(w)
    \/ Orchestrate
    \/ Failure

Spec == Init /\ [][Next]_vars

(* The goroutines of running processes get the CPU, the tasks terminate and *)
(* Docker answers: one condition per goroutine.  Nothing is assumed of     *)
(* clients, failures and operators, and nothing of a cancelled BLPop.      *)
Fairness ==
    /\ \A w \in Workers : WF_vars(Loop(w)) /\ WF_vars(OnSignal(w))
    /\ WF_vars(Orchestrate)

FairSpec == Spec /\ Fairness
=============================================================================
