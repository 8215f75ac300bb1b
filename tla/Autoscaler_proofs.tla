-------------------------- MODULE Autoscaler_proofs --------------------------
(***************************************************************************)
(* What the autoscaler decides, for every host, load and sequence of       *)
(* failures.                                                               *)
(***************************************************************************)
EXTENDS Autoscaler, TLAPS

(* The caps are natural numbers, and respect 80% of the host.              *)
LEMMA CapProperties ==
    /\ Cap \in Nat
    /\ 5 * Cap <= 8 * Cpus
    /\ HostMemoryMB > 0 => 320 * Cap <= HostMemoryMB
  <1> USE HostAssumption
  <1>1. CpuCap(Cpus) \in Nat /\ 5 * CpuCap(Cpus) <= 8 * Cpus
    BY DEF CpuCap
  <1>2. MemoryCap(Cpus, HostMemoryMB) \in Nat
    BY <1>1 DEF MemoryCap
  <1>3. HostMemoryMB > 0 => 320 * MemoryCap(Cpus, HostMemoryMB) <= HostMemoryMB
    BY DEF MemoryCap
  <1> QED
    BY <1>1, <1>2, <1>3 DEF Cap, HostCap, Smaller

(* The formula asks for at least one worker, whatever was measured.        *)
LEMMA DesiredAtLeastOne ==
    ASSUME NEW n \in Nat, NEW cpu \in Nat, NEW mem \in Nat, NEW q \in Nat,
           NEW r \in Nat, NEW t \in Int
    PROVE  /\ CalculateDesiredContainers(n, cpu, mem, q, r, t) \in Nat \ {0}
           /\ 5 * CalculateDesiredContainers(n, cpu, mem, q, r, t) >= q
  <1> DEFINE rd == ResourceDemand(n, cpu, mem)
             td == TrafficDemand(q, r, t)
  <1>1. rd \in Int
    BY DEF ResourceDemand, Larger, TargetCPU, TargetMem
  <1>2. td \in Int /\ td >= 4 * q
    BY DEF TrafficDemand, Larger
  <1> HIDE DEF rd, td
  <1>3. CeilDiv(rd, TargetCPU * TargetMem) \in Int
    BY <1>1 DEF CeilDiv, TargetCPU, TargetMem
  <1>4. CeilDiv(td, 20) \in Int /\ 20 * CeilDiv(td, 20) >= td
    BY <1>2 DEF CeilDiv
  <1>5. 5 * CeilDiv(td, 20) >= q
    BY <1>2, <1>4
  <1> QED
    BY <1>3, <1>4, <1>5 DEF CalculateDesiredContainers, Larger, MinWorkers, rd, td

-----------------------------------------------------------------------------
(* A mean of percentages is a natural number, and so is a uint64.          *)
LEMMA AverageIsNatural ==
    ASSUME NEW level \in Nat, NEW loaded \in Nat, NEW listed \in Nat
    PROVE  ClusterAverage(level, loaded, listed) \in Nat
  <1> DEFINE sum == level * loaded
  <1>1. sum \in Nat
    OBVIOUS
  <1> HIDE DEF sum
  <1>2. listed > 0 => sum \div listed \in Nat
    BY <1>1
  <1> QED
    BY <1>2 DEF ClusterAverage, sum

(* A difference of counters, wrapped around, is a number. *)
LEMMA WordIsNatural ==
    ASSUME NEW a \in Int
    PROVE  a % Word \in Nat
  BY WordAssumption

(* The inductive invariant: the types, the host's share, and how the list  *)
(* of the tick bounds the fleet until the round ends.                      *)
RoundBounded ==
    /\ fleet <= Cap
    /\ sample.workers <= Cap
    /\ stage # "waiting" => fleet <= sample.workers /\ clients > 0

IInv == TypeOK /\ RoundBounded /\ DecisionAllowed /\ BacklogCovered

(* What sample is before the first round. *)
LEMMA NoSampleTyped == NoSample \in Samples /\ NoSample.workers = 0
  BY DEF NoSample, Samples

(* Before the first round nothing has been sampled. *)
LEMMA IInvInit == Init => IInv
  <1> SUFFICES ASSUME Init PROVE IInv
    OBVIOUS
  <1>1. TypeOK
    BY NoSampleTyped DEF Init, TypeOK
  <1>2. RoundBounded
    BY NoSampleTyped, CapProperties DEF Init, RoundBounded
  <1>3. DecisionAllowed /\ BacklogCovered
    BY DEF Init, DecisionAllowed, BacklogCovered
  <1> QED
    BY <1>1, <1>2, <1>3 DEF IInv

(* What the loop observes changes without it: the fleet only shrinks.      *)
LEMMA ClusterStep ==
    ASSUME IInv,
           \/ \E burst \in Bursts : Arrive(burst)
           \/ Take \/ TaskEnds \/ WorkerDies \/ TimerFires
    PROVE  IInv'
  <1> USE CapProperties, LimitsAssumption
      DEF IInv, TypeOK, RoundBounded, DecisionAllowed, BacklogCovered,
          cluster, loop, limits
  <1>1. ASSUME NEW burst \in Bursts, Arrive(burst) PROVE IInv'
    BY <1>1, BurstsAssumption DEF Arrive
  <1>2. CASE Take
    BY <1>2 DEF Take
  <1>3. CASE TaskEnds
    BY <1>3 DEF TaskEnds
  <1>4. CASE WorkerDies
    <2>1. /\ fleet' \in Nat /\ fleet' <= fleet
          /\ busy' \in 0..fleet' /\ orphans' \in Nat
      BY <1>4 DEF WorkerDies
    <2>2. /\ UNCHANGED <<backlog, total_request, task_completed, stage, ticked,
                         oldRequest, oldTask, sample, clients,
                         arrived, periods, exact, restarts, faults>>
          /\ deaths' \in Nat
      BY <1>4 DEF WorkerDies
    <2>3. TypeOK'
      BY <2>1, <2>2
    <2>4. RoundBounded'
      <3>1. sample.workers \in Nat /\ Cap \in Nat /\ fleet \in Nat
        BY DEF Samples
      <3> QED
        BY <2>1, <2>2, <3>1
    <2>5. DecisionAllowed' /\ BacklogCovered'
      BY <2>2
    <2> QED
      BY <2>3, <2>4, <2>5
  <1>5. CASE TimerFires
    BY <1>5 DEF TimerFires
  <1> QED
    BY <1>1, <1>2, <1>3, <1>4, <1>5

(* Measuring fills the sample in and decides nothing yet.                  *)
LEMMA SampleStep ==
    ASSUME IInv,
           \/ Tick \/ GetTotalClusterCPU \/ GetTotalClusterMemory \/ StatsFail \/ GetQueueLength
           \/ GetRequestCount \/ GetRequestCountFails
    PROVE  IInv'
  <1> USE CapProperties
      DEF IInv, TypeOK, RoundBounded, DecisionAllowed, BacklogCovered, Samples,
          cluster, limits
  <1>1. CASE Tick
    <2>1. /\ [NoSample EXCEPT !.workers = fleet] \in Samples
          /\ [NoSample EXCEPT !.workers = fleet].workers = fleet
      BY NoSampleTyped
    <2> QED
      BY <1>1, <2>1 DEF Tick
  <1>2. ASSUME NEW n \in Nat, ReadCPU(n) \/ ReadMemory(n),
               deaths' \in Nat, restarts' \in Nat, faults' \in Nat
        PROVE  IInv'
    <2>1. \A level \in CpuLevels \cup MemLevels : ClusterAverage(level, n, fleet) \in Nat
      <3>1. CpuLevels \cup MemLevels \subseteq Nat /\ fleet \in Nat /\ n \in Nat
        BY <1>2, LevelsAssumption DEF CpuQuota
      <3> QED
        BY <3>1, AverageIsNatural
    <2>2. /\ sample' \in Samples
          /\ sample'.workers = sample.workers
      BY <1>2, <2>1 DEF ReadCPU, ReadMemory
    <2> QED
      BY <1>2, <2>2 DEF ReadCPU, ReadMemory
  <1>3. CASE GetTotalClusterCPU \/ GetTotalClusterMemory
    BY <1>2, <1>3 DEF GetTotalClusterCPU, GetTotalClusterMemory
  <1>4. CASE StatsFail
    BY <1>2, <1>4, LimitsAssumption DEF StatsFail, Fault
  <1>5. CASE GetQueueLength
    BY <1>5 DEF GetQueueLength
  <1>6. ASSUME NEW request \in Nat, NEW read \in BOOLEAN, ReadRequests(request, read),
               deaths' \in Nat, restarts' \in Nat, faults' \in Nat
        PROVE  IInv'
    <2> DEFINE rate == NewRequests(request)
               both == (exact /\ read)
    <2>1. rate \in Nat /\ both \in BOOLEAN
      BY WordIsNatural DEF NewRequests
    <2>2. sample' = [sample EXCEPT !.request = request, !.rps = rate, !.arrived = arrived,
                                   !.periods = periods, !.exact = both]
      BY <1>6 DEF ReadRequests
    <2> HIDE DEF rate, both
    <2>3. sample' \in Samples /\ sample'.workers = sample.workers
      BY <1>6, <2>1, <2>2
    <2>4. exact' \in BOOLEAN
      BY <1>6 DEF ReadRequests
    <2> QED
      BY <1>6, <2>3, <2>4 DEF ReadRequests
  <1>7. CASE GetRequestCount
    BY <1>6, <1>7 DEF GetRequestCount
  <1>8. CASE GetRequestCountFails
    <2>1. \E read \in BOOLEAN : ReadRequests(0, read)
      BY <1>8, Zenon DEF GetRequestCountFails
    <2>2. deaths' \in Nat /\ restarts' \in Nat /\ faults' \in Nat
      BY <1>8 DEF GetRequestCountFails, Fault
    <2> QED
      BY <1>6, <2>1, <2>2
  <1> QED
    BY <1>1, <1>3, <1>4, <1>5, <1>7, <1>8

(* The decision: the formula's number, cut down to the cap.                *)
LEMMA DecideStep ==
    ASSUME IInv, Decide
    PROVE  IInv'
  <1> DEFINE x == CalculateDesiredContainers(sample.workers, sample.cpu, sample.mem,
                      sample.queue, sample.rps, task_completed - oldTask)
  <1>0. /\ sample.workers \in Nat /\ sample.cpu \in Nat /\ sample.mem \in Nat
        /\ sample.queue \in Nat /\ sample.rps \in Nat
        /\ task_completed - oldTask \in Int
    BY DEF IInv, TypeOK, Samples
  <1>1. x \in Nat \ {0} /\ 5 * x >= sample.queue
    BY <1>0, DesiredAtLeastOne
  <1>2. sample' = [sample EXCEPT !.tps = task_completed - oldTask,
                                 !.target = Smaller(x, Cap)]
    BY DEF Decide, Capped
  <1> HIDE DEF x
  <1>3. Smaller(x, Cap) \in Decisions(Cap)
    BY <1>1, CapProperties DEF Smaller, Decisions
  <1>4. Smaller(x, Cap) = Cap \/ 5 * Smaller(x, Cap) >= sample.queue
    BY <1>1, CapProperties DEF Smaller
  <1>5. Smaller(x, Cap) \in Int
    BY <1>1, CapProperties DEF Smaller
  <1>6. /\ sample' \in Samples
        /\ sample'.workers = sample.workers /\ sample'.queue = sample.queue
        /\ sample'.target = Smaller(x, Cap)
    <2>1. sample \in Samples
      BY DEF IInv, TypeOK
    <2> DEFINE i == task_completed - oldTask
               j == Smaller(x, Cap)
    <2>2. i \in Int /\ j \in Int /\ sample' = [sample EXCEPT !.tps = i, !.target = j]
      BY <1>0, <1>2, <1>5
    <2> HIDE DEF i, j
    <2>3. sample' \in Samples /\ sample'.workers = sample.workers
          /\ sample'.queue = sample.queue /\ sample'.target = j
      BY <2>1, <2>2 DEF Samples
    <2> QED
      BY <2>3 DEF j
  <1>7. /\ stage = "counted" /\ stage' = "decided"
        /\ oldRequest' = Remembered /\ oldTask' = task_completed
        /\ UNCHANGED <<cluster, clients, ticked, arrived, periods, exact, limits>>
    BY DEF Decide
  <1>8. Remembered \in Nat
    BY DEF Remembered, IInv, TypeOK, Samples
  <1>9. TypeOK'
    BY <1>6, <1>7, <1>8 DEF IInv, TypeOK, cluster, limits
  <1>10. RoundBounded'
    BY <1>6, <1>7 DEF IInv, RoundBounded, cluster
  <1>11. DecisionAllowed' /\ BacklogCovered'
    BY <1>3, <1>4, <1>6 DEF DecisionAllowed, BacklogCovered
  <1> QED
    BY <1>9, <1>10, <1>11 DEF IInv

(* Acting on it: a fleet that is no larger than the list plus what is      *)
(* missing stays within the cap.                                           *)
LEMMA ActStep ==
    ASSUME IInv,
           \/ Grow(0) /\ UNCHANGED faults
           \/ Shrink \/ StartFails \/ StopFails \/ RoundAborted \/ MasterRestarts
    PROVE  IInv'
  <1> USE CapProperties
      DEF IInv, TypeOK, RoundBounded, DecisionAllowed, BacklogCovered, Samples,
          cluster, limits
  <1>1. ASSUME stage = "decided" PROVE sample.target \in Nat /\ sample.target <= Cap
    BY <1>1 DEF Decisions
  <1>2. ASSUME NEW failed \in Nat, Grow(failed), faults' \in Nat PROVE IInv'
    BY <1>1, <1>2, NoSampleTyped DEF Grow, Missing, RoundEnds, Closed
  <1>3. CASE Grow(0) /\ UNCHANGED faults
    BY <1>2, <1>3
  <1>4. CASE StartFails
    BY <1>2, <1>4 DEF StartFails, Fault
  <1>5. CASE Shrink
    BY <1>1, <1>5, NoSampleTyped DEF Shrink, RoundEnds, Closed, Larger, Smaller
  <1>6. CASE StopFails
    BY <1>1, <1>6, NoSampleTyped DEF StopFails, RoundEnds, Closed, Fault
  <1>7. CASE RoundAborted
    <2>1. exact' \in BOOLEAN
      BY <1>7 DEF RoundAborted
    <2>2. /\ stage' = "waiting" /\ sample' = NoSample /\ faults' = faults + 1
          /\ arrived' = arrived + sample.arrived /\ periods' = periods + sample.periods
          /\ UNCHANGED <<cluster, oldRequest, oldTask, clients, ticked, deaths, restarts>>
      BY <1>7 DEF RoundAborted, Fault
    <2> QED
      BY <2>1, <2>2, NoSampleTyped
  <1>8. CASE MasterRestarts
    <2>1. exact' \in BOOLEAN
      BY <1>8 DEF MasterRestarts
    <2>2. /\ stage' = "waiting" /\ ticked' = 0 /\ oldRequest' = 0 /\ oldTask' = 0
          /\ sample' = NoSample /\ clients' = 1 /\ arrived' = 0 /\ periods' = 0
          /\ restarts' = restarts + 1
          /\ UNCHANGED <<cluster, deaths, faults>>
      BY <1>8 DEF MasterRestarts
    <2> QED
      BY <2>1, <2>2, NoSampleTyped
  <1> QED
    BY <1>3, <1>4, <1>5, <1>6, <1>7, <1>8

(* Every step of a round keeps the fleet within the host. *)
LEMMA IInvStep == IInv /\ [Next]_vars => IInv'
  <1> SUFFICES ASSUME IInv, [Next]_vars PROVE IInv'
    OBVIOUS
  <1>1. CASE UNCHANGED vars
    BY <1>1
    DEF vars, cluster, loop, limits, IInv, TypeOK, RoundBounded, DecisionAllowed, BacklogCovered
  <1>2. CASE Next
    BY <1>2, ClusterStep, SampleStep, DecideStep, ActStep DEF Next, Round
  <1> QED
    BY <1>1, <1>2

(* The invariant of the control loop holds throughout. *)
LEMMA IInvHolds == Spec => []IInv
  BY IInvInit, IInvStep, PTL DEF Spec

(* Every number a round decides on is one the cluster's model picks from:  *)
(* at least one worker, unless the host has no room, and never more than   *)
(* getSystemCaps allows, for every load, misreading and wrapped counter.   *)
THEOREM EveryDecisionAllowed == Spec => []DecisionAllowed
  <1>1. IInv => DecisionAllowed
    BY DEF IInv
  <1> QED
    BY <1>1, IInvHolds, PTL

(* There is a worker for five waiting tasks or the host is full, on every  *)
(* host and for every backlog.                                             *)
THEOREM EveryBacklogCovered == Spec => []BacklogCovered
  <1>1. IInv => BacklogCovered
    BY DEF IInv
  <1> QED
    BY <1>1, IInvHolds, PTL

(* The workers never use more than 80% of the host's CPUs and memory.      *)
THEOREM HostRespected == Spec => []HostNotOvercommitted
  <1>1. IInv => HostNotOvercommitted
    BY CapProperties, HostAssumption DEF IInv, TypeOK, RoundBounded, HostNotOvercommitted
  <1> QED
    BY <1>1, IInvHolds, PTL

(* The sample, the counters and the fleet have their types even when the   *)
(* difference of two counters wraps around (orchestrator.go:60).           *)
THEOREM AutoscalerTypes == Spec => []TypeOK
  <1>1. IInv => TypeOK
    BY DEF IInv
  <1> QED
    BY <1>1, IInvHolds, PTL

-----------------------------------------------------------------------------
(* The client of the baseline, that of the round, and one for each fault.  *)
ClientOfRound == clients <= (IF stage = "waiting" THEN 1 ELSE 2) + faults

(* A client left open belongs to the round or to a failed call. *)
LEMMA ClientsStep == IInv /\ ClientOfRound /\ [Next]_vars => ClientOfRound'
  <1> SUFFICES ASSUME IInv, ClientOfRound, [Next]_vars
               PROVE  ClientOfRound'
    OBVIOUS
  <1> USE DEF ClientOfRound
  <1>1. clients \in Nat /\ faults \in Nat
    BY DEF IInv, TypeOK
  <1>2. CASE UNCHANGED <<clients, stage, faults>>
    BY <1>2
  <1>3. CASE (\E burst \in Bursts : Arrive(burst)) \/ Take \/ TaskEnds \/ WorkerDies \/ TimerFires
    BY <1>2, <1>3 DEF Arrive, Take, TaskEnds, WorkerDies, TimerFires, loop, limits
  <1>4. CASE Tick
    BY <1>1, <1>4 DEF Tick, limits
  <1>5. CASE GetTotalClusterCPU \/ GetTotalClusterMemory \/ GetQueueLength \/ GetRequestCount \/ Decide
    BY <1>5 DEF GetTotalClusterCPU, ReadCPU, GetTotalClusterMemory, ReadMemory, GetQueueLength,
                GetRequestCount, ReadRequests, Decide, limits
  <1>6. CASE stage = "decided" /\ RoundEnds /\ (UNCHANGED faults \/ Fault)
    BY <1>1, <1>6 DEF RoundEnds, Closed, Fault
  <1>7. CASE Round
    BY <1>4, <1>5, <1>6, <1>7 DEF Round, Grow, Shrink
  <1>8. CASE StartFails \/ StopFails
    BY <1>6, <1>8 DEF StartFails, StopFails, Grow
  <1>9. CASE GetRequestCountFails \/ StatsFail
    <2>1. stage # "waiting" /\ UNCHANGED clients /\ faults' = faults + 1
      BY <1>9 DEF GetRequestCountFails, StatsFail, ReadCPU, ReadMemory, ReadRequests, Fault
    <2> QED
      BY <1>1, <2>1
  <1>10. CASE RoundAborted
    BY <1>1, <1>10 DEF RoundAborted, Fault
  <1>11. CASE MasterRestarts
    BY <1>1, <1>11 DEF MasterRestarts
  <1>12. CASE UNCHANGED vars
    BY <1>2, <1>12 DEF vars, loop, limits
  <1> QED
    BY <1>3, <1>7, <1>8, <1>9, <1>10, <1>11, <1>12 DEF Next

(* Only a fault leaves a Docker client open behind its round.              *)
THEOREM RoundsCloseClients == Spec => []ClientsClosed
  <1>1. Init => ClientOfRound
    BY DEF Init, ClientOfRound
  <1>2. IInv /\ ClientOfRound => ClientsClosed
    BY DEF IInv, TypeOK, ClientOfRound, ClientsClosed
  <1> QED
    BY <1>1, <1>2, IInvHolds, ClientsStep, PTL DEF Spec

-----------------------------------------------------------------------------
(* Unless the loop has yet to read the counter, or has misread it, it has  *)
(* every request either in a counter of its own or still to be counted.    *)
Counts ==
    /\ oldTask <= task_completed
    /\ stage \notin {"counted", "decided"} => sample.arrived = 0
    /\ exact /\ stage # "counted" => total_request = oldRequest + arrived
    /\ exact /\ stage = "counted" => total_request = sample.request + arrived
    /\ sample.exact /\ stage = "counted" =>
         /\ exact
         /\ sample.request = oldRequest + sample.arrived
         /\ sample.arrived = 0 => sample.rps = 0

(* Measurements within the targets ask for no more than there are.         *)
LEMMA TargetsMet ==
    ASSUME NEW n \in Nat, NEW cpu \in 0..TargetCPU, NEW mem \in 0..TargetMem, NEW t \in Nat
    PROVE  CalculateDesiredContainers(n, cpu, mem, 0, 0, t) <= Larger(1, n)
  <1> DEFINE most == Larger(cpu * TargetMem, mem * TargetCPU)
  <1>1. most \in 0..5250
    <2>1. cpu \in 0..70 /\ mem \in 0..75 /\ most = Larger(cpu * 75, mem * 70)
      BY DEF TargetCPU, TargetMem
    <2> HIDE DEF most
    <2>2. most = cpu * 75 \/ most = mem * 70
      BY <2>1, Zenon DEF Larger
    <2>3. cpu * 75 \in 0..5250
      BY <2>1
    <2>4. mem * 70 \in 0..5250
      BY <2>1
    <2> QED
      BY <2>2, <2>3, <2>4
  <1> HIDE DEF most
  <1>2. n * most \in Int /\ n * most <= n * 5250
    <2>1. PICK d \in Nat : most + d = 5250
      <3>1. 5250 - most \in Nat /\ most + (5250 - most) = 5250
        BY <1>1
      <3> QED
        BY <3>1
    <2>2. n * most \in Nat /\ n * d \in Nat
      BY <1>1
    <2>3. n * (most + d) = n * most + n * d
      BY <1>1
    <2> QED
      BY <2>1, <2>2, <2>3
  <1> DEFINE rd == n * most
  <1> HIDE DEF rd
  <1>3. CeilDiv(rd, 5250) <= n
    BY <1>2 DEF rd, CeilDiv
  <1>4. CeilDiv(rd, 5250) \in Int
    BY <1>2 DEF rd, CeilDiv
  <1>5. CeilDiv(TrafficDemand(0, 0, t), 20) = 0
    BY DEF CeilDiv, TrafficDemand, Larger
  <1>6. CeilDiv(ResourceDemand(n, cpu, mem), TargetCPU * TargetMem) = CeilDiv(rd, 5250)
    BY DEF ResourceDemand, rd, most, TargetCPU, TargetMem
  <1> QED
    BY <1>3, <1>4, <1>5, <1>6 DEF CalculateDesiredContainers, Larger, MinWorkers

CalmInv == Counts /\ CalmAddsNone

(* The decision of a round that saw nothing new.                           *)
LEMMA CalmDecision ==
    ASSUME IInv, CalmInv, Decide
    PROVE  CalmInv'
  <1> DEFINE tps == task_completed - oldTask
             x == CalculateDesiredContainers(sample.workers, sample.cpu, sample.mem,
                      sample.queue, sample.rps, tps)
             target == Smaller(x, Cap)
  <1>1. /\ sample \in Samples /\ task_completed \in Nat /\ oldTask \in Nat
        /\ oldRequest \in Nat /\ total_request \in Nat /\ arrived \in Nat
        /\ exact \in BOOLEAN
    BY DEF IInv, TypeOK
  <1>2. /\ stage = "counted" /\ stage' = "decided"
        /\ oldRequest' = sample.request /\ oldTask' = task_completed
        /\ UNCHANGED <<task_completed, total_request, arrived, exact>>
    BY DEF Decide, Remembered, cluster, limits
  <1>3. sample' = [sample EXCEPT !.tps = tps, !.target = target]
    BY DEF Decide, Capped
  <1>4. Counts'
    <2>1. exact => total_request = sample.request + arrived
      BY <1>2 DEF CalmInv, Counts
    <2>2. stage' # "counted" /\ oldTask' <= task_completed'
      BY <1>1, <1>2
    <2> QED
      BY <1>2, <2>1, <2>2 DEF Counts
  <1>5. x \in Nat /\ Cap \in Nat
    <2>1. /\ sample.workers \in Nat /\ sample.cpu \in Nat /\ sample.mem \in Nat
          /\ sample.queue \in Nat /\ sample.rps \in Nat /\ tps \in Int
      BY <1>1 DEF Samples
    <2> QED
      BY <2>1, DesiredAtLeastOne, CapProperties
  <1> HIDE DEF x
  <1>6. target \in Int /\ target <= x
    BY <1>5 DEF Smaller
  <1> HIDE DEF target
  <1>7. /\ sample'.workers = sample.workers /\ sample'.queue = sample.queue
        /\ sample'.cpu = sample.cpu /\ sample'.mem = sample.mem
        /\ sample'.arrived = sample.arrived /\ sample'.exact = sample.exact
        /\ sample'.target = target
    BY <1>1, <1>3, <1>6 DEF Samples
  <1>8. ASSUME sample.exact, Calm'
        PROVE  target <= Larger(1, sample.workers)
    <2>1. /\ sample.arrived = 0 /\ sample.queue = 0
          /\ sample.cpu <= TargetCPU /\ sample.mem <= TargetMem
      BY <1>7, <1>8 DEF Calm
    <2>2. sample.rps = 0 /\ oldTask <= task_completed
      BY <1>2, <1>8, <2>1 DEF CalmInv, Counts
    <2>3. tps \in Nat
      BY <1>1, <2>2
    <2>4. sample.workers \in Nat /\ sample.cpu \in 0..TargetCPU /\ sample.mem \in 0..TargetMem
      BY <1>1, <2>1 DEF Samples, TargetCPU, TargetMem
    <2> HIDE DEF tps
    <2>5. x <= Larger(1, sample.workers)
      BY <2>1, <2>2, <2>3, <2>4, TargetsMet DEF x
    <2> QED
      BY <1>5, <1>6, <2>4, <2>5 DEF Larger
  <1>9. CalmAddsNone'
    BY <1>2, <1>7, <1>8 DEF CalmAddsNone
  <1> QED
    BY <1>4, <1>9 DEF CalmInv

(* A calm round adds no worker. *)
LEMMA CalmStep == IInv /\ CalmInv /\ [Next]_vars => CalmInv'
  <1> SUFFICES ASSUME IInv, CalmInv, [Next]_vars
               PROVE  CalmInv'
    OBVIOUS
  <1>1. /\ sample \in Samples /\ task_completed \in Nat /\ oldTask \in Nat
        /\ oldRequest \in Nat /\ total_request \in Nat /\ arrived \in Nat
        /\ exact \in BOOLEAN
    BY DEF IInv, TypeOK
  <1> USE DEF CalmInv, Counts, CalmAddsNone, Calm
  <1>2. CASE Decide
    BY <1>2, CalmDecision
  <1>3. CASE \E burst \in Bursts : Arrive(burst)
    <2>1. PICK burst \in Bursts : Arrive(burst)
      BY <1>3
    <2>2. /\ total_request' = total_request + burst
          /\ arrived' = arrived + burst
          /\ UNCHANGED <<stage, oldRequest, oldTask, sample, task_completed, exact>>
      BY <2>1 DEF Arrive, loop, limits
    <2>3. burst \in Nat /\ sample.request \in Nat
      BY <1>1, BurstsAssumption DEF Samples
    <2> QED
      BY <1>1, <2>2, <2>3
  <1>4. CASE Take \/ WorkerDies \/ TimerFires \/ UNCHANGED vars
    BY <1>4 DEF Take, WorkerDies, TimerFires, cluster, loop, limits, vars
  <1>5. CASE TaskEnds
    BY <1>1, <1>5 DEF TaskEnds, loop, limits
  <1>6. CASE Tick
    <2>1. /\ [NoSample EXCEPT !.workers = fleet].arrived = 0
          /\ stage = "waiting" /\ stage' = "listed"
          /\ UNCHANGED <<oldRequest, oldTask, total_request, task_completed, arrived, exact>>
      BY <1>6 DEF Tick, NoSample
    <2> QED
      BY <1>1, <1>6, <2>1 DEF Tick
  <1>7. ASSUME NEW n \in Nat, ReadCPU(n) \/ ReadMemory(n) \/ GetQueueLength PROVE CalmInv'
    <2>1. /\ stage \in {"listed", "cpu", "measured"} /\ stage' \in {"cpu", "measured", "queued"}
          /\ sample'.arrived = sample.arrived
          /\ UNCHANGED <<oldRequest, oldTask, total_request, task_completed, arrived, exact>>
      BY <1>1, <1>7 DEF ReadCPU, ReadMemory, GetQueueLength, Samples, cluster
    <2> QED
      BY <1>1, <2>1
  <1>8. CASE GetTotalClusterCPU \/ GetTotalClusterMemory \/ GetQueueLength
    <2>1. busy \in Nat /\ fleet \in Nat
      BY DEF IInv, TypeOK
    <2> QED
      BY <1>7, <1>8, <2>1 DEF GetTotalClusterCPU, GetTotalClusterMemory
  <1>9. ASSUME NEW request \in Nat, NEW read \in BOOLEAN, ReadRequests(request, read),
               read => request = total_request
        PROVE  CalmInv'
    <2>1. request - oldRequest = 0 => (request - oldRequest) % Word = 0
      BY <1>1, WordAssumption
    <2>2. /\ sample'.request = request /\ sample'.arrived = arrived
          /\ sample'.exact = (exact /\ read)
          /\ sample'.rps = (request - oldRequest) % Word
      BY <1>1, <1>9 DEF ReadRequests, NewRequests, Samples
    <2>3. /\ stage = "queued" /\ stage' = "counted" /\ arrived' = 0 /\ exact' = read
          /\ UNCHANGED <<oldRequest, oldTask, total_request, task_completed>>
      BY <1>9 DEF ReadRequests, cluster
    <2>4. exact' => total_request' = sample'.request + arrived'
      BY <1>1, <1>9, <2>2, <2>3
    <2>5. sample'.exact => /\ exact'
                           /\ sample'.request = oldRequest' + sample'.arrived
                           /\ sample'.arrived = 0 => sample'.rps = 0
      BY <1>1, <1>9, <2>1, <2>2, <2>3
    <2> QED
      BY <2>3, <2>4, <2>5
  <1>10. CASE GetRequestCount
    BY <1>1, <1>9, <1>10 DEF GetRequestCount
  <1>11. CASE GetRequestCountFails
    BY <1>9, <1>11 DEF GetRequestCountFails
  <1>12. NoSample.arrived = 0
    BY DEF NoSample
  <1>13. ASSUME stage = "decided", RoundEnds, task_completed' \in Nat,
                task_completed <= task_completed'
         PROVE  CalmInv'
    BY <1>1, <1>12, <1>13 DEF RoundEnds
  <1>14. CASE (\E failed : Grow(failed)) \/ StopFails
    BY <1>1, <1>13, <1>14 DEF Grow, StopFails
  <1>15. CASE Shrink
    <2>1. task_completed' \in Nat /\ task_completed <= task_completed'
      BY <1>1, <1>15 DEF Shrink
    <2> QED
      BY <1>13, <1>15, <2>1 DEF Shrink
  <1>16. CASE StatsFail
    <2>1. (busy > 0 => busy - 1 \in Nat) /\ (fleet > 0 => fleet - 1 \in Nat)
      BY DEF IInv, TypeOK
    <2> QED
      BY <1>7, <1>16, <2>1 DEF StatsFail
  <1>17. CASE RoundAborted
    <2>1. /\ stage # "decided" /\ stage' = "waiting" /\ sample' = NoSample
          /\ arrived' = arrived + sample.arrived /\ exact' = (exact /\ sample.exact)
          /\ UNCHANGED <<oldRequest, oldTask, total_request, task_completed>>
      BY <1>17 DEF RoundAborted, cluster
    <2>2. sample.arrived \in Nat /\ sample.request \in Nat
      BY <1>1 DEF Samples
    <2>3. exact' => exact /\ sample.exact
      BY <2>1, Zenon
    <2>4. ASSUME exact' PROVE total_request = oldRequest + arrived'
      <3>1. exact /\ sample.exact
        BY <2>3, <2>4
      <3>2. CASE stage = "counted"
        <4>1. sample.request = oldRequest + sample.arrived /\ total_request = sample.request + arrived
          BY <3>1, <3>2
        <4> QED
          BY <1>1, <2>1, <2>2, <4>1
      <3>3. CASE stage # "counted"
        <4>1. sample.arrived = 0 /\ total_request = oldRequest + arrived
          BY <2>1, <3>1, <3>3
        <4> QED
          BY <1>1, <2>1, <4>1
      <3> QED
        BY <3>2, <3>3
    <2> QED
      BY <1>1, <1>12, <2>1, <2>4
  <1>18. CASE MasterRestarts
    BY <1>1, <1>12, <1>18 DEF MasterRestarts, cluster
  <1> QED
    BY <1>2, <1>3, <1>4, <1>5, <1>6, <1>8, <1>10, <1>11, <1>14, <1>15, <1>16, <1>17, <1>18
    DEF Next, Round, StartFails

(* A round without requests, backlog or load adds no workers, however late *)
(* its tick was and whatever failed before it, if the master has read its  *)
(* counter itself at the last sample and reads it now.                     *)
THEOREM CalmIsCalm == Spec => []CalmAddsNone
  <1>1. Init => CalmInv
    BY DEF Init, NoSample, CalmInv, Counts, CalmAddsNone, Calm
  <1>2. CalmInv => CalmAddsNone
    BY DEF CalmInv
  <1> QED
    BY <1>1, <1>2, IInvHolds, CalmStep, PTL DEF Spec
=============================================================================
