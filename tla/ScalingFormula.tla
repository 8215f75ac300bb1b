--------------------------- MODULE ScalingFormula ---------------------------
(***************************************************************************)
(* The autoscaling formula of Master/orchestrator/orchestrator.go as pure  *)
(* operators.  Percentages are whole percents; rates are counted per tick  *)
(* of 10 seconds, so that rps = newRequests / 10.  The floating point      *)
(* divisions become fractions over a common denominator, rounded up at the *)
(* end as the code does with math.Ceil.                                    *)
(***************************************************************************)
EXTENDS Integers

Larger(a, b) == IF a >= b THEN a ELSE b
Smaller(a, b) == IF a <= b THEN a ELSE b
CeilDiv(a, d) == (a + d - 1) \div d

(* Mutant: x is not raised to minWorkers. *)
MinWorkersMissing == 0

MinWorkers == 1
TargetCPU == 70
TargetMem == 75

(* currentWorkers * max(cpu / 70, mem / 75), over 70 * 75. *)
ResourceDemand(workers, cpu, mem) ==
    workers * Larger(cpu * TargetMem, mem * TargetCPU)

(* Mutant: one worker for ten waiting tasks. *)
TrafficDemandHalved(queue, newRequests, newTasks) ==
    2 * queue + Larger(newRequests - newTasks, 0)

(* queueLength / 5, and (rps - tps) / 2 when rps > tps, over 20. *)
TrafficDemand(queue, newRequests, newTasks) ==
    4 * queue + Larger(newRequests - newTasks, 0)

CalculateDesiredContainers(workers, cpu, mem, queue, newRequests, newTasks) ==
    Larger(MinWorkers,
           Larger(CeilDiv(ResourceDemand(workers, cpu, mem), TargetCPU * TargetMem),
                  CeilDiv(TrafficDemand(queue, newRequests, newTasks), 20)))

(* getSystemCaps: 80% of the host's CPUs at half a CPU each, 80% of its    *)
(* memory at 256 MB each; a host whose memory cannot be read (0) is        *)
(* limited by its CPUs alone.                                              *)
CpuCap(cpus) == (8 * cpus) \div 5
MemoryCap(cpus, memoryMB) == IF memoryMB = 0 THEN CpuCap(cpus) ELSE memoryMB \div 320
HostCap(cpus, memoryMB) == Smaller(CpuCap(cpus), MemoryCap(cpus, memoryMB))

(* The numbers of workers a tick can decide on under a cap. *)
Decisions(cap) == IF cap = 0 THEN {0} ELSE 1..cap
=============================================================================
