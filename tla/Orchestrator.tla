---------------------------- MODULE Orchestrator ----------------------------
(***************************************************************************)
(* The master's background goroutine (Master/orchestrator): every tick it  *)
(* lists the running workers, sweeps processing_queue for tasks of workers *)
(* that are gone (Processing_to_main), decides a number of workers, and    *)
(* starts (Generate) or stops (Destroy) containers to reach it.            *)
(*                                                                         *)
(*  waiting -> sweeping <-> routing                                        *)
(*                \-> restoring -> deciding -> generating --> waiting      *)
(*                                     \-> scanning <-> stopping/gracing   *)
(*                                                                         *)
(* The number decided is any the formula can give: at least one worker and *)
(* at most what getSystemCaps allows; Autoscaler is about which.           *)
(***************************************************************************)
EXTENDS Worker, ScalingFormula

CONSTANTS SystemCap,  \* min(y, z) of getSystemCaps
          MaxDowns    \* bound: how many ticks may decide to scale down

ASSUME OrchestratorAssumption == SystemCap \in Nat /\ MaxDowns \in Nat

VARIABLES stage,      \* what the goroutine is about to do
          known,      \* currentWorkers: the containers running at the tick
          hand,       \* the TaskPair popped from processing_queue
          target,     \* noOfContainer
          quota,      \* containers still to start, or to stop
          listed,     \* the containers Destroy listed
          scan,       \* those its current loop has yet to look at
          pass,       \* which of its two loops is running
          victim,     \* the container being stopped
          downs       \* bound counter, see MaxDowns

scaling == <<target, quota, listed, scan, pass, victim, downs>>
orchestratorVars == <<stage, known, hand, scaling>>

Stages == {"waiting", "sweeping", "routing", "restoring", "deciding",
           "generating", "scanning", "stopping", "gracing"}

OrchestratorTypeOK ==
    /\ stage \in Stages
    /\ known \subseteq Workers
    /\ hand \in TaskPair \cup {None}
    /\ stage = "routing" <=> hand # None
    /\ target \in Nat
    /\ quota \in Nat
    /\ listed \subseteq Workers
    /\ scan \subseteq listed
    /\ pass \in {"idle", "any"}
    /\ victim \in Workers \cup {None}
    /\ stage \in {"stopping", "gracing"} <=> victim # None
    /\ victim # None => quota > 0
    /\ downs \in Nat

OrchestratorInit ==
    /\ stage = "waiting"
    /\ known = {}
    /\ hand = None
    /\ target = 0
    /\ quota = 0
    /\ listed = {}
    /\ scan = {}
    /\ pass = "idle"
    /\ victim = None
    /\ downs = 0

(* The TaskPairs a sweep can still find. *)
Pairs == ToSet(processing_queue) \cup ToSet(temp_queue) \cup ({hand} \ {None})

(* Docker never gives an ID twice; a member of Workers may stand for a new *)
(* container once nothing refers to the old one any more.                  *)
Fresh(w) ==
    /\ container[w] # "running"
    /\ w \notin known \cup listed \cup {p.first : p \in Pairs}

-----------------------------------------------------------------------------
(* Mutant: ListOptions{All: true} lists exited containers as well. *)
ListsAll == {{w \in Workers : container[w] # "absent"}}

(* Mutant: the error of ContainerList is ignored, the list is empty. *)
ListsNone == {Running, {}}

(* What GetWorkerContainers returns without an error. *)
GetWorkerContainers == {Running}

(* The tick: <-ticker.C and GetWorkerContainers. *)
Tick ==
    /\ stage = "waiting"
    /\ stage' = "sweeping"
    /\ known' \in GetWorkerContainers
    /\ UNCHANGED <<storeVars, workerVars, hand, scaling>>

(* First loop of Processing_to_main: LPop processing_queue ... *)
SweepPop ==
    /\ stage = "sweeping"
    /\ processing_queue # <<>>
    /\ hand' = Head(processing_queue)
    /\ processing_queue' = Tail(processing_queue)
    /\ stage' = "routing"
    /\ UNCHANGED <<task_queue, temp_queue, counters, history, workerVars, known, scaling>>

(* Mutant: the loop may end before the list is empty. *)
LoopedEnough == TRUE

Filtered == processing_queue = <<>>

(* Mutant: the second loop is missing. *)
NoSecondLoop == "deciding"

SecondLoop == "restoring"

(* ... until it is empty.  The entry is always a worker's TaskPair, so the *)
(* branch that skips corrupted JSON is never taken.                        *)
SweepEmpty ==
    /\ stage = "sweeping"
    /\ Filtered
    /\ stage' = SecondLoop
    /\ UNCHANGED <<storeVars, workerVars, known, hand, scaling>>

Routed ==
    /\ stage = "routing"
    /\ stage' = "sweeping"
    /\ hand' = None
    /\ UNCHANGED <<processing_queue, counters, done, workerVars, known, scaling>>

(* Mutant: a live worker's pair is not pushed on temp_queue. *)
Unparked == temp_queue

Parked == Append(temp_queue, hand)

(* Mutant: the map holds 64-character IDs only, so no HOSTNAME is in it. *)
NoneRuns(w) == FALSE

(* mp[task.First] *)
Runs(w) == w \in known

(* Mutant: the pair of a worker that is gone is thrown away. *)
Discarded == task_queue

GivenBack == Append(task_queue, hand.second)

(* The owner is running: its pair is parked. *)
SweepKeep ==
    /\ Routed
    /\ Runs(hand.first)
    /\ temp_queue' = Parked
    /\ UNCHANGED <<task_queue, dropped>>

(* The owner is gone: its task goes back to the end of task_queue. *)
SweepRequeue ==
    /\ Routed
    /\ ~Runs(hand.first)
    /\ task_queue' = GivenBack
    /\ UNCHANGED <<temp_queue, dropped>>

(* Mutant: the pair is read with LINDEX and stays in temp_queue. *)
Copied == temp_queue

Moved == Tail(temp_queue)

(* Second loop: LMove temp_queue to processing_queue, oldest first ... *)
SweepRestore ==
    /\ stage = "restoring"
    /\ temp_queue # <<>>
    /\ processing_queue' = Append(processing_queue, Head(temp_queue))
    /\ temp_queue' = Moved
    /\ UNCHANGED <<task_queue, counters, history, workerVars, orchestratorVars>>

(* ... until it is empty. *)
SweepEnd ==
    /\ stage = "restoring"
    /\ temp_queue = <<>>
    /\ stage' = "deciding"
    /\ UNCHANGED <<storeVars, workerVars, known, hand, scaling>>

-----------------------------------------------------------------------------
(* Mutant: Generate(noOfContainer), the running ones are not subtracted. *)
All(n) == n

(* Mutant: the difference is taken the wrong way round. *)
Swapped(n) == Cardinality(known) - n

Missing(n) == n - Cardinality(known)

(* noOfContainer is at least len(currentWorkers): Generate the difference. *)
ScaleUp ==
    /\ stage = "deciding"
    /\ \E n \in Decisions(SystemCap) :
         /\ n >= Cardinality(known)
         /\ target' = n
         /\ quota' = Missing(n)
    /\ stage' = "generating"
    /\ known' = {}
    /\ UNCHANGED <<storeVars, workerVars, hand, listed, scan, pass, victim, downs>>

(* It is smaller: Destroy lists the running workers anew, but how many to  *)
(* stop was computed from the list made at the tick.                       *)
ScaleDown ==
    /\ stage = "deciding"
    /\ downs < MaxDowns
    /\ downs' = downs + 1
    /\ \E n \in Decisions(SystemCap) :
         /\ n < Cardinality(known)
         /\ target' = n
         /\ quota' = Cardinality(known) - n
    /\ stage' = "scanning"
    /\ known' = {}
    /\ listed' = Running
    /\ scan' = Running
    /\ pass' = "idle"
    /\ UNCHANGED <<storeVars, workerVars, hand, victim>>

(* Generate: create and start one container, as often as asked. *)
Generate(w) ==
    /\ stage = "generating"
    /\ quota > 0
    /\ Fresh(w)
    /\ Boot(w)
    /\ quota' = quota - 1
    /\ UNCHANGED <<storeVars, stage, known, hand, target, listed, scan, pass, victim, downs>>

(* The bound: no ID in Workers is left to stand for a new container. *)
GenerateNoID ==
    /\ stage = "generating"
    /\ quota > 0
    /\ \A w \in Workers : ~Fresh(w)
    /\ quota' = 0
    /\ UNCHANGED <<storeVars, workerVars, stage, known, hand, target, listed, scan, pass, victim, downs>>

GenerateEnd ==
    /\ stage = "generating"
    /\ quota = 0
    /\ stage' = "waiting"
    /\ UNCHANGED <<storeVars, workerVars, known, hand, scaling>>

-----------------------------------------------------------------------------
(* Destroy's loops look at each listed container once, in Docker's order.  *)
Look(w) ==
    /\ stage = "scanning"
    /\ quota > 0
    /\ w \in scan
    /\ scan' = scan \ {w}
    /\ UNCHANGED <<storeVars, workerVars, known, hand, target, quota, listed, pass, downs>>

(* ContainerStats fails for a removed container; the first loop passes by  *)
(* a container whose CPU was in use, and may pass by any running one.      *)
Skip(w) ==
    /\ Look(w)
    /\ \/ container[w] = "absent"
       \/ pass = "idle" /\ container[w] = "running"
    /\ UNCHANGED <<stage, victim>>

(* IsCpuIdle: less than 0.1% of a CPU used in the second before; a task    *)
(* being run uses far more.                                                *)
IsCpuIdle(w) == phase[w] # "running"

(* The first loop takes an idle container, the second any that is there. *)
Choose(w) ==
    /\ Look(w)
    /\ container[w] # "absent"
    /\ pass = "idle" => IsCpuIdle(w)
    /\ stage' = "stopping"
    /\ victim' = w

(* The first loop ends with containers left to stop. *)
NextPass ==
    /\ stage = "scanning"
    /\ quota > 0
    /\ scan = {}
    /\ pass = "idle"
    /\ pass' = "any"
    /\ scan' = listed
    /\ UNCHANGED <<storeVars, workerVars, stage, known, hand, target, quota, listed, victim, downs>>

DestroyEnd ==
    /\ stage = "scanning"
    /\ quota = 0 \/ (scan = {} /\ pass = "any")
    /\ stage' = "waiting"
    /\ quota' = 0
    /\ listed' = {}
    /\ scan' = {}
    /\ pass' = "idle"
    /\ UNCHANGED <<storeVars, workerVars, known, hand, target, victim, downs>>

(* ContainerStop: the daemon sends SIGTERM ... *)
StopSignal ==
    /\ stage = "stopping"
    /\ stage' = "gracing"
    /\ signal' = [signal EXCEPT ![victim] =
                    IF container[victim] = "running" /\ @ = "none" THEN "sent" ELSE @]
    /\ UNCHANGED <<storeVars, container, phase, holding, registered, known, hand, scaling>>

(* Mutant: -1 in the second loop, Docker waits without a limit. *)
Endless(loop) == IF loop = "idle" THEN 0 ELSE -1

(* The seconds Docker waits; a negative number is no limit. *)
Timeout(loop) == IF loop = "idle" THEN 0 ELSE 30

(* ... and SIGKILL when they are over. *)
GraceExpires ==
    /\ stage = "gracing"
    /\ Timeout(pass) >= 0
    /\ Die(victim)
    /\ UNCHANGED orchestratorVars

(* Mutant: cnt++ is missing. *)
Uncounted == quota

Counted == quota - 1

(* The container has been dealt with: cnt++. *)
VictimDone ==
    /\ quota' = Counted
    /\ victim' = None
    /\ stage' = "scanning"
    /\ UNCHANGED <<storeVars, phase, holding, registered, signal,
                   known, hand, target, listed, scan, pass, downs>>

(* ContainerStop returns once the process is gone; ContainerRemove. *)
StopReturns ==
    /\ stage = "gracing"
    /\ container[victim] # "running"
    /\ container' = [container EXCEPT ![victim] = "absent"]
    /\ VictimDone

-----------------------------------------------------------------------------
(* Failures of Redis and Docker, as the goroutine meets them. *)

(* LPop fails: on to the second loop.  The command may have taken effect.  *)
SweepPopFails ==
    /\ stage = "sweeping"
    /\ stage' = "restoring"
    /\ \/ UNCHANGED <<processing_queue, dropped>>
       \/ /\ processing_queue # <<>>
          /\ processing_queue' = Tail(processing_queue)
          /\ Drop(Head(processing_queue).second)
    /\ UNCHANGED <<task_queue, temp_queue, counters, done, workerVars, known, hand, scaling>>

(* RPush fails, and nobody looks at its error. *)
SweepRouteFails ==
    /\ Routed
    /\ Drop(hand.second)
    /\ UNCHANGED <<task_queue, temp_queue>>

(* LMove fails: what is left in temp_queue stays there until the next tick. *)
SweepRestoreFails ==
    /\ stage = "restoring"
    /\ stage' = "deciding"
    /\ UNCHANGED <<storeVars, workerVars, known, hand, scaling>>

(* A measurement fails: the rest of the tick is skipped. *)
TickAborted ==
    /\ stage = "deciding"
    /\ stage' = "waiting"
    /\ known' = {}
    /\ UNCHANGED <<storeVars, workerVars, hand, scaling>>

(* Generate or Destroy cannot reach Docker: nothing comes of the decision. *)
ScaleFails ==
    /\ stage = "deciding"
    /\ stage' = "waiting"
    /\ known' = {}
    /\ target' \in Decisions(SystemCap)
    /\ UNCHANGED <<storeVars, workerVars, hand, quota, listed, scan, pass, victim, downs>>

(* ContainerCreate or ContainerStart fails: the loop goes on. *)
GenerateFails ==
    /\ stage = "generating"
    /\ quota > 0
    /\ quota' = quota - 1
    /\ UNCHANGED <<storeVars, workerVars, stage, known, hand, target, listed, scan, pass, victim, downs>>

(* ContainerStats fails: Destroy passes by the container. *)
StatsFail(w) == Look(w) /\ UNCHANGED <<stage, victim>>

(* ContainerStop fails, and nobody looks at its error: no SIGTERM, the     *)
(* forced ContainerRemove kills the process.                               *)
StopFails ==
    /\ stage = "stopping"
    /\ stage' = "gracing"
    /\ UNCHANGED <<storeVars, workerVars, known, hand, scaling>>

(* ContainerRemove fails, after a ContainerStop that did its work or that  *)
(* failed as well: the container stays as it is, and is counted.           *)
RemoveFails ==
    /\ stage \in {"stopping", "gracing"}
    /\ UNCHANGED container
    /\ VictimDone

(* The master process ends and is started again: its locals are gone. *)
Restart ==
    /\ stage' = "waiting"
    /\ known' = {}
    /\ hand' = None
    /\ target' = 0
    /\ quota' = 0
    /\ listed' = {}
    /\ scan' = {}
    /\ pass' = "idle"
    /\ victim' = None
    /\ IF stage = "routing" THEN Drop(hand.second) ELSE UNCHANGED dropped
    /\ UNCHANGED <<lists, counters, done, workerVars, downs>>
=============================================================================
