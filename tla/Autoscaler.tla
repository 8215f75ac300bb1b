----------------------------- MODULE Autoscaler -----------------------------
(***************************************************************************)
(* What the orchestrator measures and what it makes of it: the control     *)
(* loop of Orchestrate around CalculateDesiredContainers, seen from the    *)
(* numbers.  Workers are counted, not told apart; the moves of single      *)
(* tasks are in KubeLite, of which this module keeps how many tasks wait,  *)
(* are being run, and have lost their worker.                              *)
(*                                                                         *)
(*  waiting -> listed -> cpu -> measured -> queued -> counted -> decided   *)
(*          -> waiting                                                     *)
(*                                                                         *)
(* The ticker keeps one tick for a loop that is late and drops the others. *)
(***************************************************************************)
EXTENDS ScalingFormula

(* NanoCPUs: half a CPU for every worker, which is 50% of one CPU. *)
CpuQuota == 50

CONSTANTS Cpus,         \* runtime.NumCPU() of the host
          HostMemoryMB, \* getHostMemoryMB(), 0 if it cannot be read
          CpuLevels,    \* what a busy worker may show, % of one CPU
          MemLevels,    \* what a worker may show, % of its limit
          Word,         \* number of values of a uint64 (2^64)
          Bursts,       \* how many requests come at a time
          MaxRequests,  \* bound: requests
          MaxPeriods,   \* bound: periods of 10 s between two samples
          MaxDeaths,    \* bound: workers that crash
          MaxRestarts,  \* bound: crashes of the master
          MaxFaults     \* bound: failing Redis or Docker calls

ASSUME HostAssumption == Cpus \in Nat \ {0} /\ HostMemoryMB \in Nat
ASSUME LevelsAssumption == CpuLevels \subseteq 0..CpuQuota /\ MemLevels \subseteq 0..100
ASSUME WordAssumption == Word \in Nat \ {0}
ASSUME BurstsAssumption == Bursts \subseteq Nat
ASSUME LimitsAssumption ==
    {MaxRequests, MaxPeriods, MaxDeaths, MaxRestarts, MaxFaults} \subseteq Nat

VARIABLES fleet,         \* running workers
          backlog,       \* length of task_queue
          busy,          \* workers with a task in hand
          orphans,       \* TaskPairs of workers that are gone
          total_request, task_completed,  \* the counters in Redis
          stage, ticked, \* the loop, and the ticks in ticker.C
          oldRequest, oldTask,            \* the counters at the last sample
          sample,        \* the locals of one round of the loop
          clients,       \* Docker clients opened and not closed
          arrived,       \* history: requests since the last sample
          periods,       \* history: periods of 10 s since then
          exact,         \* history: the last sample read the counter
          deaths, restarts, faults        \* bound counters

cluster == <<fleet, backlog, busy, orphans, total_request, task_completed>>
loop == <<stage, oldRequest, oldTask, sample, clients>>
limits == <<deaths, restarts, faults>>
vars == <<cluster, loop, ticked, arrived, periods, exact, limits>>

Cap == HostCap(Cpus, HostMemoryMB)

Samples == [workers : Nat, cpu : Nat, mem : Nat, queue : Nat,
            request : Nat, rps : Nat, tps : Int, target : Int,
            arrived : Nat, periods : Nat, exact : BOOLEAN]

NoSample == [workers |-> 0, cpu |-> 0, mem |-> 0, queue |-> 0,
             request |-> 0, rps |-> 0, tps |-> 0, target |-> 0,
             arrived |-> 0, periods |-> 0, exact |-> TRUE]

TypeOK ==
    /\ fleet \in Nat /\ backlog \in Nat /\ busy \in 0..fleet /\ orphans \in Nat
    /\ total_request \in Nat /\ task_completed \in Nat
    /\ stage \in {"waiting", "listed", "cpu", "measured", "queued", "counted", "decided"}
    /\ ticked \in 0..1
    /\ oldRequest \in Nat /\ oldTask \in Nat
    /\ sample \in Samples
    /\ clients \in Nat
    /\ arrived \in Nat /\ periods \in Nat /\ exact \in BOOLEAN
    /\ deaths \in Nat /\ restarts \in Nat /\ faults \in Nat

Init ==
    /\ fleet = 0 /\ backlog = 0 /\ busy = 0 /\ orphans = 0
    /\ total_request = 0 /\ task_completed = 0
    /\ stage = "waiting" /\ ticked = 0
    /\ oldRequest = 0 /\ oldTask = 0
    /\ sample = NoSample
    /\ clients = 1      \* that of the baseline, never closed
    /\ arrived = 0 /\ periods = 0 /\ exact = TRUE
    /\ deaths = 0 /\ restarts = 0 /\ faults = 0

-----------------------------------------------------------------------------
(* The cluster the loop observes. *)

Arrive(burst) ==
    /\ total_request + burst <= MaxRequests
    /\ total_request' = total_request + burst
    /\ backlog' = backlog + burst
    /\ arrived' = arrived + burst
    /\ UNCHANGED <<fleet, busy, orphans, task_completed, loop, ticked, periods, exact, limits>>

Take ==
    /\ backlog > 0
    /\ busy < fleet
    /\ backlog' = backlog - 1
    /\ busy' = busy + 1
    /\ UNCHANGED <<fleet, orphans, total_request, task_completed,
                   loop, ticked, arrived, periods, exact, limits>>

(* A task ends; a body that cannot be run is not counted. *)
TaskEnds ==
    /\ busy > 0
    /\ busy' = busy - 1
    /\ task_completed' \in {task_completed, task_completed + 1}
    /\ UNCHANGED <<fleet, backlog, orphans, total_request,
                   loop, ticked, arrived, periods, exact, limits>>

WorkerDies ==
    /\ deaths < MaxDeaths
    /\ fleet > 0
    /\ deaths' = deaths + 1
    /\ fleet' = fleet - 1
    /\ \/ busy > 0 /\ busy' = busy - 1 /\ orphans' = orphans + 1
       \/ busy < fleet /\ UNCHANGED <<busy, orphans>>
    /\ UNCHANGED <<backlog, total_request, task_completed,
                   loop, ticked, arrived, periods, exact, restarts, faults>>

(* 10 seconds have passed; ticker.C holds one tick.  The bound leaves room *)
(* for the rounds that end without a sample.                               *)
TimerFires ==
    /\ periods < MaxPeriods + faults
    /\ periods' = periods + 1
    /\ ticked' = 1
    /\ UNCHANGED <<cluster, loop, arrived, exact, limits>>

-----------------------------------------------------------------------------
(* <-ticker.C, GetWorkerContainers, and the sweep, which puts the tasks of *)
(* dead workers back.                                                      *)
Tick ==
    /\ stage = "waiting"
    /\ ticked = 1
    /\ ticked' = 0
    /\ stage' = "listed"
    /\ sample' = [NoSample EXCEPT !.workers = fleet]
    /\ clients' = clients + 1
    /\ backlog' = backlog + orphans
    /\ orphans' = 0
    /\ UNCHANGED <<fleet, busy, total_request, task_completed,
                   oldRequest, oldTask, arrived, periods, exact, limits>>

(* The mean over the workers that run by then, of whom the idle ones show  *)
(* no CPU; each of the two functions lists them anew.                      *)
ClusterAverage(level, loaded, listed) ==
    IF listed > 0 THEN (level * loaded) \div listed ELSE 0

ReadCPU(loaded) ==
    /\ stage = "listed"
    /\ stage' = "cpu"
    /\ \E c \in CpuLevels : sample' = [sample EXCEPT !.cpu = ClusterAverage(c, loaded, fleet)]
    /\ UNCHANGED <<cluster, oldRequest, oldTask, clients, ticked, arrived, periods, exact>>

ReadMemory(answering) ==
    /\ stage = "cpu"
    /\ stage' = "measured"
    /\ \E m \in MemLevels : sample' = [sample EXCEPT !.mem = ClusterAverage(m, answering, fleet)]
    /\ UNCHANGED <<cluster, oldRequest, oldTask, clients, ticked, arrived, periods, exact>>

GetTotalClusterCPU == ReadCPU(busy) /\ UNCHANGED limits

GetTotalClusterMemory == ReadMemory(fleet) /\ UNCHANGED limits

GetQueueLength ==
    /\ stage = "measured"
    /\ stage' = "queued"
    /\ sample' = [sample EXCEPT !.queue = backlog]
    /\ UNCHANGED <<cluster, oldRequest, oldTask, clients, ticked, arrived, periods, exact, limits>>

(* Mutant: the difference is taken in int64. *)
Signed(request) == request - oldRequest

(* request - uint64(oldRequest) *)
NewRequests(request) == (request - oldRequest) % Word

(* The loop keeps what it read and how it differs from the last sample. *)
ReadRequests(request, read) ==
    /\ stage = "queued"
    /\ stage' = "counted"
    /\ exact' = read
    /\ sample' = [sample EXCEPT !.request = request,
                                !.rps = NewRequests(request),
                                !.arrived = arrived,
                                !.periods = periods,
                                !.exact = exact /\ read]
    /\ arrived' = 0
    /\ periods' = 0
    /\ UNCHANGED <<cluster, oldRequest, oldTask, clients, ticked>>

GetRequestCount == ReadRequests(total_request, TRUE) /\ UNCHANGED limits

(* Mutant: oldRequest += request. *)
Accumulated == oldRequest + sample.request

Remembered == sample.request

(* Mutant: max(x, min(y, z)). *)
AtLeastCap(x) == Larger(x, Cap)

(* min(x, min(y, z)) *)
Capped(x) == Smaller(x, Cap)

(* GetTotal_Task and the decision. *)
Decide ==
    /\ stage = "counted"
    /\ stage' = "decided"
    /\ oldRequest' = Remembered
    /\ oldTask' = task_completed
    /\ LET x == CalculateDesiredContainers(sample.workers, sample.cpu, sample.mem,
                    sample.queue, sample.rps, task_completed - oldTask)
       IN sample' = [sample EXCEPT !.tps = task_completed - oldTask,
                                   !.target = Capped(x)]
    /\ UNCHANGED <<cluster, clients, ticked, arrived, periods, exact, limits>>

(* Mutant: cli.Close() is forgotten. *)
Unclosed == clients

Closed == clients - 1

RoundEnds ==
    /\ stage' = "waiting"
    /\ sample' = NoSample
    /\ clients' = Closed
    /\ UNCHANGED <<total_request, backlog, oldRequest, oldTask,
                   ticked, arrived, periods, exact, deaths, restarts>>

(* Mutant: Generate(noOfContainer). *)
All == sample.target

(* reqContainers *)
Missing == sample.target - sample.workers

(* Generate, some of whose containers may fail. *)
Grow(failed) ==
    /\ stage = "decided"
    /\ sample.target >= sample.workers
    /\ failed \in 0..Missing
    /\ fleet' = fleet + Missing - failed
    /\ RoundEnds
    /\ UNCHANGED <<busy, orphans, task_completed>>

(* Destroy(workers - target): it stops that many of the workers it finds,  *)
(* idle ones first.  The task of a busy one is finished within its grace   *)
(* or left behind.                                                         *)
Shrink ==
    /\ stage = "decided"
    /\ sample.target < sample.workers
    /\ fleet' = Larger(fleet - (sample.workers - sample.target), 0)
    /\ busy' = Smaller(busy, fleet')
    /\ \E finished \in 0..(busy - busy') :
         /\ orphans' = orphans + (busy - busy') - finished
         /\ \E counted \in {0, finished} : task_completed' = task_completed + counted
    /\ RoundEnds
    /\ UNCHANGED faults

-----------------------------------------------------------------------------
Fault == faults < MaxFaults /\ faults' = faults + 1

(* The error of GetRequestCount is dropped, its value is 0. *)
GetRequestCountFails ==
    /\ Fault
    /\ ReadRequests(0, FALSE)
    /\ UNCHANGED <<deaths, restarts>>

(* The stats of a worker cannot be read: it counts as one without load. *)
StatsFail ==
    /\ Fault
    /\ \/ busy > 0 /\ ReadCPU(busy - 1)
       \/ fleet > 0 /\ ReadMemory(fleet - 1)
    /\ UNCHANGED <<deaths, restarts>>

(* Another measurement fails: "continue", and the client stays open. *)
RoundAborted ==
    /\ Fault
    /\ stage \in {"listed", "cpu", "measured", "counted"}
    /\ stage' = "waiting"
    /\ sample' = NoSample
    /\ arrived' = arrived + sample.arrived
    /\ periods' = periods + sample.periods
    /\ exact' = (exact /\ sample.exact)
    /\ UNCHANGED <<cluster, oldRequest, oldTask, clients, ticked, deaths, restarts>>

(* The master is started again; its counters start at zero, those in Redis *)
(* do not.                                                                 *)
MasterRestarts ==
    /\ restarts < MaxRestarts
    /\ restarts' = restarts + 1
    /\ stage' = "waiting"
    /\ ticked' = 0
    /\ oldRequest' = 0
    /\ oldTask' = 0
    /\ sample' = NoSample
    /\ clients' = 1
    /\ arrived' = 0
    /\ periods' = 0
    /\ exact' = FALSE
    /\ UNCHANGED <<cluster, deaths, faults>>

-----------------------------------------------------------------------------
Round ==
    \/ Tick \/ GetTotalClusterCPU \/ GetTotalClusterMemory
    \/ GetQueueLength \/ GetRequestCount \/ Decide
    \/ Grow(0) /\ UNCHANGED faults
    \/ Shrink

(* Some containers cannot be started; Destroy cannot list the containers. *)
StartFails == Fault /\ \E failed \in 1..Cap : Grow(failed)

StopFails ==
    /\ Fault
    /\ stage = "decided"
    /\ sample.target < sample.workers
    /\ RoundEnds
    /\ UNCHANGED <<fleet, busy, orphans, task_completed>>

Next ==
    \/ \E burst \in Bursts : Arrive(burst)
    \/ Take \/ TaskEnds \/ WorkerDies \/ TimerFires
    \/ Round
    \/ StartFails \/ StopFails \/ GetRequestCountFails \/ StatsFail \/ RoundAborted \/ MasterRestarts

Spec == Init /\ [][Next]_vars

(* Workers take and end tasks, the clock goes on, the loop runs. *)
FairSpec ==
    Spec /\ WF_vars(Take) /\ WF_vars(TaskEnds) /\ WF_vars(TimerFires) /\ WF_vars(Round)

-----------------------------------------------------------------------------
(* Whatever was measured, and whatever was misread, a round decides on a   *)
(* number the cluster's model allows: KubeLite picks any of Decisions.     *)
DecisionAllowed == stage = "decided" => sample.target \in Decisions(Cap)

(* orchestrator.go: the workers never use more than 80% of the host's CPUs *)
(* and memory, though Generate adds to a list that is old by then.         *)
HostNotOvercommitted ==
    /\ 5 * fleet <= 8 * Cpus
    /\ HostMemoryMB > 0 => 320 * fleet <= HostMemoryMB

(* There is a worker for every five waiting tasks, or the host is full.    *)
BacklogCovered ==
    stage = "decided" => sample.target = Cap \/ 5 * sample.target >= sample.queue

(* A round that sees no request, no backlog and no worker above the        *)
(* targets does not add workers.                                           *)
Calm ==
    /\ stage = "decided"
    /\ sample.arrived = 0 /\ sample.queue = 0
    /\ sample.cpu <= TargetCPU /\ sample.mem <= TargetMem

(* A calm round adds none, however many ticks were dropped and rounds were *)
(* broken off since the last sample, through failing calls and restarts of *)
(* the master: oldRequest is always the counter at the last sample that    *)
(* was used.  The master must have read it itself and not have misread it: *)
(* the first sample after a restart counts what came before, and after a   *)
(* misread counter this sample and the next are wrong.                     *)
CalmAddsNone == Calm /\ sample.exact => sample.target <= Larger(1, sample.workers)

(* A round closes the Docker client it opened, so that there are never     *)
(* more than that of the baseline and that of the round.  (The continue    *)
(* after a failing measurement skips the cli.Close() of its round.)        *)
ClientsClosed == clients <= 2 + faults

(* When requests cease, every task is served and one worker remains.       *)
Settles == <>[](backlog = 0 /\ busy = 0 /\ orphans = 0 /\ fleet = 1)

-----------------------------------------------------------------------------
(* scripts/heavy_cpu_spike: workers that use all the CPU they may have     *)
(* make the autoscaler add workers.                                        *)
SaturationGrows ==
    stage = "decided" /\ sample.workers > 0 /\ sample.cpu = CpuQuota
        => sample.target > sample.workers \/ sample.target = Cap

(* scripts/steady_balanced_load: no unnecessary scaling.                   *)
NoUnnecessaryScaling == Calm => sample.target <= Larger(1, sample.workers)
=============================================================================
