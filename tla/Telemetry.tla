------------------------------ MODULE Telemetry ------------------------------
(***************************************************************************)
(* What the master shows on GET /metrics: the orchestrator's goroutine     *)
(* measures the workers and publishes a triple in clusterCache, under a    *)
(* sync.RWMutex; each handler (GetMetrics) reads the cache and then, one   *)
(* command at a time, Redis (Master/metrics, controller/metricsHandler.go). *)
(*                                                                         *)
(*  meter:  baseline -> idle -> cpu -> sampled -> measured -> idle         *)
(*  lock:   free -> pending -> memory -> count -> free                     *)
(*  get:    none -> (blocked ->) reading -> queue -> requests -> answered  *)
(*               -> none                                                   *)
(***************************************************************************)
EXTENDS Orchestrator

CONSTANTS CpuStats,  \* what ContainerStats may say of a worker's CPU,
          MemStats,  \* and of its memory
          Word,      \* number of values of a uint64
          Gets       \* requests for /metrics at a time

ASSUME TelemetryAssumption == Word \in Nat \ {0} /\ IsFiniteSet(Gets)

(* Every number Docker sends is unsigned (uint64 in DockerStats and        *)
(* DockerMemoryStats), and it keeps a container's usage within its limit.  *)
ASSUME StatsAssumption ==
    /\ \A v \in CpuStats : {v.total, v.preTotal, v.system, v.preSystem, v.online} \subseteq Nat
    /\ \A v \in MemStats : /\ {v.usage, v.limit} \subseteq Nat
                           /\ \A key \in DOMAIN v.stats : v.stats[key] \in Nat
                           /\ v.limit = 0 \/ v.usage <= v.limit

VARIABLES meter,     \* how far the goroutine's measurements have come
          sample,    \* cpuUsage, memoryUsage and the count it publishes
          lock,      \* UpdateClusterMetrics: which field is next
          cache,     \* clusterCache
          published, \* history: the last triple published
          get        \* get[g]: a handler of GET /metrics

goroutineVars == <<meter, sample, lock>>
telemetryVars == <<goroutineVars, cache, published, get>>

Triple(cpu, mem, workers) == [cpu |-> cpu, mem |-> mem, workers |-> workers]
Triples == [cpu : Nat, mem : 0..100, workers : Nat]

NoGet == [stage |-> "none", queue |-> 0, requests |-> 0]

TelemetryTypeOK ==
    /\ meter \in {"baseline", "idle", "cpu", "sampled", "measured"}
    /\ lock \in {"free", "pending", "memory", "count"}
    /\ {sample, cache, published} \subseteq Triples
    /\ get \in [Gets -> [stage : {"none", "blocked", "reading", "queue", "requests",
                                  "answered"}, queue : Nat, requests : Nat]]
    /\ \A g \in Gets : get[g].stage = "blocked" => lock # "free"

TelemetryInit ==
    /\ meter = "baseline"
    /\ lock = "free"
    /\ sample = Triple(0, 0, 0)
    /\ cache = Triple(0, 0, 0)
    /\ published = cache
    /\ get = [g \in Gets |-> NoGet]

-----------------------------------------------------------------------------
(* ContainerStats and what it is made of; None: the call failed. *)

fetchContainerCPU(v) ==
    LET cpuDelta == (v.total - v.preTotal) % Word
        systemDelta == (v.system - v.preSystem) % Word
    IN IF systemDelta > 0 /\ cpuDelta > 0
         THEN (cpuDelta * v.online * 100) \div systemDelta ELSE 0

(* The page cache, by the key of cgroup v2 or that of v1. *)
PageCache(stats) ==
    IF "inactive_file" \in DOMAIN stats THEN stats["inactive_file"]
    ELSE IF "total_inactive_file" \in DOMAIN stats THEN stats["total_inactive_file"] ELSE 0

(* Mutant: a page cache read later than the usage makes it negative. *)
Difference(v) == v.usage - PageCache(v.stats)

MemUsed(v) == IF v.usage < PageCache(v.stats) THEN 0 ELSE v.usage - PageCache(v.stats)

fetchContainerMemory(v) == IF v.limit = 0 THEN 0 ELSE (MemUsed(v) * 100) \div v.limit

(* The mean over all containers listed; one that cannot be read adds none. *)
ClusterMean(percent) ==
    IF DOMAIN percent = {} THEN 0
    ELSE MapThenSumSet(LAMBDA w : percent[w], DOMAIN percent) \div Cardinality(DOMAIN percent)

GetTotalClusterCPU ==
    /\ stage = "deciding" /\ meter = "idle"
    /\ meter' = "cpu"
    /\ \E stats \in [Running -> CpuStats \cup {None}] :
         sample' = [sample EXCEPT !.cpu = ClusterMean([w \in Running |->
                      IF stats[w] = None THEN 0 ELSE fetchContainerCPU(stats[w])])]
    /\ UNCHANGED <<lock, cache, published, get>>

GetTotalClusterMemory ==
    /\ meter = "cpu"
    /\ meter' = "sampled"
    /\ \E stats \in [Running -> MemStats \cup {None}] :
         sample' = [sample EXCEPT !.mem = ClusterMean([w \in Running |->
                      IF stats[w] = None THEN 0 ELSE fetchContainerMemory(stats[w])])]
    /\ UNCHANGED <<lock, cache, published, get>>

-----------------------------------------------------------------------------
(* UpdateClusterMetrics(cpu, memory, workerCount): mu.Lock() ... *)
UpdateClusterMetrics(cpu, mem, workers) ==
    /\ lock = "free"
    /\ lock' = "pending"
    /\ sample' = Triple(cpu, mem, workers)
    /\ UNCHANGED <<meter, cache, published, get>>

Baseline ==
    meter = "baseline" /\ UpdateClusterMetrics(0, 0, Cardinality(Running))

ShowSample ==
    meter = "sampled" /\ UpdateClusterMetrics(sample.cpu, sample.mem, Cardinality(known))

(* Mutant: the number of workers listed at the tick. *)
ListedCount == sample.workers

NewCount == target

(* The second call, after Generate or Destroy. *)
ShowTarget ==
    /\ meter = "measured" /\ stage = "waiting"
    /\ UpdateClusterMetrics(sample.cpu, sample.mem, NewCount)

Readers == {g \in Gets : get[g].stage = "reading"}

(* ... once those who read have done so, the three fields ... *)
WriteCPU ==
    /\ lock = "pending"
    /\ Readers = {}
    /\ lock' = "memory"
    /\ cache' = [cache EXCEPT !.cpu = sample.cpu]
    /\ UNCHANGED <<meter, sample, published, get>>

WriteMemory ==
    /\ lock = "memory"
    /\ lock' = "count"
    /\ cache' = [cache EXCEPT !.mem = sample.mem]
    /\ UNCHANGED <<meter, sample, published, get>>

(* Mutant: no defer mu.Unlock(). *)
LockKept == "kept"

Unlock == "free"

(* ... and mu.Unlock(), which lets all in who came to read meanwhile. *)
WriteWorkers ==
    /\ lock = "count"
    /\ lock' = Unlock
    /\ cache' = [cache EXCEPT !.workers = sample.workers]
    /\ published' = sample
    /\ get' = [g \in Gets |-> IF get[g].stage = "blocked" /\ lock' = "free"
                               THEN [get[g] EXCEPT !.stage = "reading"] ELSE get[g]]
    /\ meter' = IF meter = "sampled" THEN "measured" ELSE "idle"
    /\ UNCHANGED sample

Meter ==
    \/ GetTotalClusterCPU \/ GetTotalClusterMemory
    \/ Baseline \/ ShowSample \/ ShowTarget
    \/ WriteCPU \/ WriteMemory \/ WriteWorkers

(* The containers cannot be listed at the start: there is no baseline. *)
BaselineFails ==
    /\ meter = "baseline" /\ lock = "free"
    /\ meter' = "idle"
    /\ UNCHANGED <<lock, sample, cache, published, get>>

-----------------------------------------------------------------------------
(* Mutant: GetCachedClusterMetrics without RLock. *)
ReadAnyway == "reading"

(* A writer that waits or writes keeps new readers out. *)
RLock == IF lock = "free" THEN "reading" ELSE "blocked"

(* Mutant: the requests are read before the queue. *)
RequestsFirst == <<"reading", "requests", "queue", "answered">>

ReadOrder == <<"reading", "queue", "requests", "answered">>

After(s) == ReadOrder[1 + CHOOSE i \in DOMAIN ReadOrder : ReadOrder[i] = s]

Proceeds(g, s) == get[g].stage = s /\ UNCHANGED <<goroutineVars, cache, published>>

GetMetrics(g) ==
    /\ Proceeds(g, "none")
    /\ get' = [get EXCEPT ![g].stage = RLock]

(* The three fields, then the deferred RUnlock. *)
GetCachedClusterMetrics(g) ==
    /\ Proceeds(g, "reading")
    /\ get' = [get EXCEPT ![g].stage = After("reading")]

(* A read of Redis; the handler drops its error and shows the value, 0. *)
GetQueueLength(g, length) ==
    /\ Proceeds(g, "queue")
    /\ get' = [get EXCEPT ![g] = [stage |-> After("queue"), queue |-> length,
                                  requests |-> @.requests]]

GetRequestCount(g, count) ==
    /\ Proceeds(g, "requests")
    /\ get' = [get EXCEPT ![g] = [stage |-> After("requests"), queue |-> @.queue,
                                  requests |-> count]]

(* GetTotal_Task, whose numbers no property tells apart, and the answer. *)
Encode(g) ==
    /\ Proceeds(g, "answered")
    /\ get' = [get EXCEPT ![g] = NoGet]

Get(g) ==
    \/ GetCachedClusterMetrics(g)
    \/ GetQueueLength(g, Len(task_queue))
    \/ GetRequestCount(g, total_request)
    \/ Encode(g)

GetFails(g) == GetQueueLength(g, 0) \/ GetRequestCount(g, 0)

(* The master is started again. *)
TelemetryRestart ==
    /\ meter' = "baseline"
    /\ lock' = "free"
    /\ sample' = Triple(0, 0, 0)
    /\ cache' = Triple(0, 0, 0)
    /\ published' = Triple(0, 0, 0)
    /\ get' = [g \in Gets |-> NoGet]
=============================================================================
