---------------------------- MODULE MasterServer ----------------------------
(***************************************************************************)
(* The master process as its users see it: the cluster of KubeLite with    *)
(* the dashboard's task panel in front of its request handlers and the     *)
(* handlers of GET /metrics beside its orchestrator.  The orchestrator's   *)
(* goroutine measures and publishes between its sweep and its decision,    *)
(* and publishes once more at the end of the tick.                         *)
(***************************************************************************)
EXTENDS Correctness, TaskPanel, Telemetry

serverVars == <<vars, panelVars, telemetryVars>>

ServerTypeOK == TypeOK /\ PanelTypeOK /\ TelemetryTypeOK

ServerInit == Init /\ PanelInit /\ TelemetryInit

-----------------------------------------------------------------------------
(* The browser. *)
Click(t) == handleClick(t) /\ UNCHANGED <<vars, telemetryVars>>

PanelEnds == (\E t \in Clicks : submitTask(t) \/ SubmitFails(t))
             /\ UNCHANGED <<vars, telemetryVars>>

(* POST /request and POST /evaluate. *)
Intake(t) ==
    /\ Posted(t)
    /\ Handler(t) \/ HandlerFault(t)
    /\ UNCHANGED <<panelVars, telemetryVars>>

(* The workers, and their crashes and faults. *)
WorkerSide(w) ==
    /\ Loop(w) \/ LoopCancelled(w) \/ OnSignal(w) \/ WorkerCrash(w) \/ WorkerFault(w)
    /\ UNCHANGED <<panelVars, telemetryVars>>

(* Where the goroutine does not measure or publish. *)
Elsewhere ==
    /\ lock = "free"
    /\ stage = "waiting" => meter = "idle"
    /\ stage = "deciding" => meter = "measured"

Goroutine ==
    /\ \/ Elsewhere /\ Orchestrate /\ UNCHANGED telemetryVars
       \/ Meter /\ UNCHANGED vars
    /\ UNCHANGED panelVars

GoroutineFault ==
    /\ \/ Elsewhere /\ OrchestratorFault /\ UNCHANGED telemetryVars
       \/ /\ MeasurementFault
          /\ lock = "free" /\ meter # "sampled"
          /\ meter' = "idle"
          /\ UNCHANGED <<sample, lock, cache, published, get>>
       \/ Fault /\ BaselineFails /\ UNCHANGED <<storeVars, req, workerVars, orchestratorVars>>
    /\ UNCHANGED panelVars

(* GET /metrics. *)
Ask(g) == GetMetrics(g) /\ UNCHANGED <<vars, panelVars>>

Answers(g) == Get(g) /\ UNCHANGED <<vars, panelVars>>

AnswerFault(g) ==
    Fault /\ GetFails(g) /\ UNCHANGED <<storeVars, req, workerVars, orchestratorVars, panelVars>>

ServerCrash == MasterCrash /\ TelemetryRestart /\ UNCHANGED panelVars

-----------------------------------------------------------------------------
ServerNext ==
    \/ \E t \in Clicks : Click(t)
    \/ PanelEnds
    \/ \E t \in Tasks : Intake(t)
    \/ \E w \in Workers : WorkerSide(w)
    \/ \E g \in Gets : Ask(g) \/ Answers(g) \/ AnswerFault(g)
    \/ Goroutine \/ GoroutineFault \/ ServerCrash

(* The orchestrator's goroutine and the handlers of /metrics get the CPU;  *)
(* nobody need click or ask, and clients' requests may be lost.            *)
ServerSpec ==
    /\ ServerInit /\ [][ServerNext]_serverVars
    /\ WF_serverVars(Goroutine)
    /\ \A g \in Gets : WF_serverVars(Answers(g))

-----------------------------------------------------------------------------
(* What the panel's log calls queued has been counted and is tracked (see  *)
(* Accounted), whatever became of the master and the workers since, as     *)
(* long as Redis fails no command.                                         *)
LoggedIsKept ==
    LET logged == {t \in Clicks : log[t] = "queued"}
    IN faults = 0 => Cardinality(logged) <= total_request /\ \A t \in logged : Tracked(t)

(* What a handler reads from clusterCache is one triple the orchestrator   *)
(* published last, never a mixture of two.                                 *)
NoTornAnswer == \A g \in Gets : get[g].stage = "reading" => cache = published

(* An answer of /metrics is put together from three commands while clients *)
(* and workers go on.  Yet it never shows more tasks waiting than requests *)
(* made, however often sweeps have put tasks back, as long as Redis fails  *)
(* no command.                                                             *)
QueueWithinRequests ==
    faults = 0 => \A g \in Gets : get[g].stage = "answered" => get[g].queue <= get[g].requests

(* The worker count of /metrics is that of the running containers whenever *)
(* the orchestrator waits for the next tick: starts, stops and crashes up  *)
(* to the tick before are in it, and only workers that have crashed since  *)
(* that tick are counted still.                                            *)
CountIsLive ==
    restarts = 0 /\ faults = 0 /\ stage = "waiting" /\ meter = "idle" =>
        cache.workers - Cardinality(Running) \in 0..lost

(* Nobody waits for ever at the lock of clusterCache: neither the          *)
(* orchestrator for handlers that come and go, nor they for it.            *)
NobodyWaits ==
    /\ lock # "free" ~> lock = "free"
    /\ \A g \in Gets : get[g].stage # "none" ~> get[g].stage = "none"
=============================================================================
