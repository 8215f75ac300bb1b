# A formal model of KubeLite

KubeLite is a small task engine: a master accepts tasks over HTTP and puts them
on a Redis list, Docker containers labelled `role=worker` take them off and run
them, and a goroutine of the master watches load and starts or stops worker
containers.  This directory holds a TLA+ model of it, the TLC configurations
that check the model on small instances, and theorems about it that TLAPS
proves for every instance.  Paths of source files are relative to `src/`.

## 1. Inventory

| Component | State | Operations | Source |
|---|---|---|---|
| Redis store | lists `task_queue`, `processing_queue`, `temp_queue`; counters `total_request`, `task_completed` | RPUSH, BLPOP, LPOP, LREM, LMOVE, INCR, each atomic | `Master/data`, used everywhere |
| HTTP intake | the handlers in flight, one goroutine per request | `Request`, `IncrementRequestCount` | `Master/controller/request.go` |
| Worker | the task in memory, the shutdown flag, the context | `StartPolling`, the signal goroutine | `Worker/worker.go`, `Worker/main.go` |
| Orchestrator | `currentWorkers`, counters of the last tick | `Orchestrate`, `Processing_to_main`, `Generate`, `Destroy` | `Master/orchestrator` |
| Docker daemon (external) | containers: running, exited, removed | list, stats, create, start, stop, remove | used by `Master/orchestrator`, `Master/metrics` |
| Autoscaling | `oldRequest`, `oldTask`, the ticker, Docker clients | the loop of `Orchestrate`, `CalculateDesiredContainers`, `getSystemCaps` | `Master/orchestrator/orchestrator.go` |
| Telemetry | `clusterCache` behind a `sync.RWMutex` | `GetTotalClusterCPU`, `GetTotalClusterMemory`, `UpdateClusterMetrics`, `GetMetrics` | `Master/metrics`, `Master/controller/metricsHandler.go` |
| Task functions | locals, wait group, channel | `FindNthPrime`, `IsPowerOfTwo`, `StressCPUAllCores` | `Worker/tasks` |
| Dashboard | last answer, rates, online flag; `loading` | `poll`, `submitTask`, `handleClick` | `Frontend/src/hooks/useMetrics.js`, `Frontend/src/components/TaskPanel.jsx` |
| Load generators | semaphore, wait group, stop channel, counters | `main`, `sendRequest` | `scripts/*/main.go` |
| Rendering, scripts, charts | none that matters | styles, start-up, CSV, SVG | `Frontend/src/components`, `scripts` |

How they interact: clients (dashboard, load generators) send tasks to the
master over HTTP; the master and the workers share nothing but Redis; the
orchestrator sees workers through the Docker daemon only, by listing
containers, reading their statistics and stopping them.  A worker learns of its
end by SIGTERM, or not at all.  Inside the master, the orchestrator's goroutine
and the handlers of `GET /metrics` share `clusterCache`.

What is hard here:

* **No transaction spans two Redis commands.**  A worker pops a task, then
  registers a `TaskPair`, runs it, counts it, removes the pair; a sweep pops a
  pair and pushes it somewhere else.  Between two commands any other process
  may run, and each may be killed.
* **Decisions use old observations.**  The sweep compares pairs pushed up to now
  with the containers of the tick; `Destroy` stops containers sampled idle a
  moment before; `Generate` adds to a fleet that has changed.
* **Errors are dropped.**  `RPush`, `Incr`, `LRem` in the worker, both `RPush`
  of the sweep, `ContainerStop` and `ContainerRemove` in `Destroy`,
  `GetRequestCount` in the loop, every read of Redis in `GetMetrics`.
* **An answer of `/metrics` is put together** from a cache that is written field
  by field and three reads of Redis, while everything else goes on.
* **Time.**  A tick that is late, a grace period that ends, HTTP timeouts that
  race answers, polls that overlap.

What makes each part correct: the store and the intake lose no accepted task;
workers run a task once unless something fails; a sweep gives back every task
of a dead worker and none of a live one; the fleet stays within the host and
`Destroy` stops as many as it was asked to; the formula covers the backlog and
comes to rest; `/metrics` shows one published triple and no contradiction; the
generators keep to their concurrency and report all; the dashboard shows nothing
old as current and logs as queued only what is.

## 2. Modules

| Module | Models | Used by |
|---|---|---|
| `TaskStore` | the lists and counters of Redis, `TaskPair`, `LREM` | all of the cluster |
| `Controller` | `Request`, one process per task | `KubeLite`, `TaskPanel` |
| `Worker` | `StartPolling` cut at its Redis commands, the SIGTERM goroutine, death, Redis errors | `Orchestrator` |
| `Orchestrator` | tick, `Processing_to_main`, `Generate`, `Destroy`, their errors, restart of the master | `KubeLite`, `Telemetry` |
| `KubeLite` | all of these together with the failures and their budgets; `Spec`, `FairSpec` | |
| `TaskLedger` | abstract: what the cluster promises of one task | `Correctness` |
| `Correctness` | the properties of the cluster, the refinement mapping to `TaskLedger` | `MasterServer` |
| `MCKubeLite` | model values and symmetry for TLC | |
| `ScalingFormula` | `CalculateDesiredContainers`, `getSystemCaps` as operators | `Orchestrator`, `Autoscaler` |
| `Autoscaler` | the control loop of `Orchestrate` seen from its numbers | |
| `Telemetry` | the measurements, `clusterCache` and its lock, the handlers of `GET /metrics` | `MasterServer` |
| `TaskPanel` | `handleClick`, `submitTask` in front of `Controller` | `MasterServer` |
| `MasterServer` | the cluster, `TaskPanel` and `Telemetry` in one state space (`MCMasterServer` gives Docker's readings to TLC) | |
| `LoadGenerator` | a program of `scripts/` | |
| `Dashboard` | `useMetrics` | |
| `TaskFunctions`, `StressCPU` | the functions of `Worker/tasks` | `TaskSwitch` |
| `TaskSwitch` | the worker's switch, which calls one of them (`MCTaskSwitch` gives negative values to TLC) | |
| `KubeLite_proofs` | types of the cluster, lemmas about lists | `Records_proofs` |
| `Records_proofs` | where the records of tasks are; `TaskLedger` | `Fleet_proofs` |
| `Fleet_proofs` | how many workers run, what they own, what they count | `MasterServer_proofs` |
| `MasterServer_proofs`, `Autoscaler_proofs`, `LoadGenerator_proofs`, `Dashboard_proofs`, `TaskSwitch_proofs` | the theorems about the modules of these names | |

### The cluster

Variables of Redis keep their names (`task_queue`, `processing_queue`,
`temp_queue`, `total_request`, `task_completed`).  A task is the body of one
request.  Four history variables, which no line of the code keeps, belong to the
properties: `done`, tasks a worker has dealt with (run, or found not to be
runnable); `dropped`, unfinished tasks whose only record a failure destroyed;
`registered[w]`, the worker has pushed the pair of the task in hand; `lost`, the
workers that crashed since the last tick.

One Redis or Docker command is one action, together with the local code up to
the next command.  `phase[w]` is the worker's place between two commands:
`polling` (before `BLPop`), `popped` (before `RPush` of the pair), `running`
(before `Incr`), `acking` (before `LRem`).  `stage` is the orchestrator's.
`container[w]` is what Docker shows; `signal[w]` follows SIGTERM from the daemon
over the flag to the cancelled context.  A member of `Workers` is a container ID
and may be used anew once nothing in the model refers to the old container
(`Fresh`), which keeps the state finite and distinguishes as much as fresh IDs
do.

`Orchestrator` may decide on any number in `Decisions(SystemCap)`; `Autoscaler`
and its theorem `EveryDecisionAllowed` justify that: the formula never leaves
that set.

Failures, each with a budget: `WorkerCrash`, `MasterCrash` (started again with
empty locals), one failing Redis or Docker call.  A failing `RPUSH` of a handler,
`BLPOP` or `LPOP` may have been carried out or not; a failing `RPUSH` of a worker
or a sweep, `INCR`, `LREM` or `LMOVE` has not.  A failing `ContainerStop` sends no
SIGTERM (`StopFails`), a failing `ContainerRemove` leaves the container as it is,
counted all the same (`RemoveFails`).  Redis itself is assumed to keep its data.
`ManualStarts` lets an operator start workers with `docker run` as `README.md`
describes.

`TaskLedger` says what all this is for, without lists, sweeps and containers: a
task has one record, which is `new`, `waiting`, `held` by a worker or
`registered`, goes round between the last three, and ends as `gone` only when the
task is dealt with or its record was destroyed.  `RecordOf` in `Correctness` maps
the cluster to it: it collects the copies of a task in `task_queue`, in the pairs
of both other lists and the sweep's hand, and in the memory of workers; two
copies at once map to a value the ledger does not have.

### The master and its users

`MasterServer` joins three things to the cluster's variables.  `TaskPanel` posts
the tasks of its clicks to the same handlers other clients use; its timeout may
come at any time, so that the handler goes on without it.  `Telemetry` puts the
measurements between the sweep and the decision of the orchestrator's goroutine
(`meter`) and cuts `UpdateClusterMetrics` at its lock and its three assignments
(`lock`); `Elsewhere` says where the goroutine is not while it measures or
publishes.  `get[g]` is a handler of `GET /metrics`: it waits for the lock or
reads (`RLock`; a waiting writer keeps new readers out, as `sync.RWMutex` does),
then reads the queue and the request counter, one command each, and answers.
`published` is a history variable, the last triple written completely.
`fetchContainerCPU` and `fetchContainerMemory` take readings as records; their
percentages are rounded down.

### The autoscaler

One round is seven actions: list and sweep (`Tick`), CPU (`GetTotalClusterCPU`),
memory (`GetTotalClusterMemory`), each of which lists the containers anew, queue
length, request counter, task counter and decision (`Decide`), growing or
shrinking.  Requests, tasks and deaths happen in between.  `sample` holds the
locals of a round; `arrived` and `periods` are history variables that say what
happened since the last sample, and `exact` says whether that sample read the
request counter (`oldRequest` is 0 after a restart or a read that failed).
Workers are counted, not told apart.

Percentages are whole numbers and rates are counted per tick, so the quotients
of the formula are exact fractions, rounded up once.  The `float64` code rounds
each quotient: at some exact boundaries (for example 21 workers at 90 % CPU) it
asks for one worker more than the exact fraction.  The caps agree with the
code for all hosts up to 2048 CPUs and 300 GB.  `uint64` differences are taken
modulo `Word`.

### Clients

`LoadGenerator` is the common structure of the three programs, which differ in
rate, concurrency, timeout and task mix only; these are parameters or free
choices.  Requests are numbered in the order they are sent, and the goroutine of
each steps from its start over the choice of its `task` and the answer to its
deferred calls.  `accepted`, a
history variable, holds those the master answered with 202 in time; it may queue
others after the client has given up.

`Dashboard` keeps time as ages in whole seconds: an action `Second` passes only
if no poll is past its timeout and no poll is due, which is how the timers of
the browser are modelled.  A poll begun after the master came up has an answer
within `Latency` as long as it stays up; in any other case it may be answered
late or never.  A rate is kept as a number of requests and of milliseconds:
`|| 1` makes an elapsed time of exactly 0 one second, while two answers some
milliseconds apart are divided by these (`Elapsed`).

### Task functions

`TaskFunctions` takes the two loops of `FindNthPrime` step by step and
evaluates `n&(n-1)` of `IsPowerOfTwo` on the sets of `Bits`, the lowest `Width`
of a number. `Width` is the number of bits of an `int` beside its sign, 63 in
the code and 8 for TLC; the powers they stand for are the recursive function
`Power`. `StressCPU` has one process per core, the channel and the wait group.
`TaskSwitch` calls one of them with the value of the task, which is a number or
a duration.

## 3. Runs

| Run | Question | Bounds |
|---|---|---|
| `records` | does an accepted task disappear? | 2 workers, 2 tasks (one malformed), one failure of each kind, workers started by hand |
| `failures` | crash safety, exclusive execution, no second run without a failure, complete sweeps, cap, do `Destroy` and a tick end with as many workers as decided on, but for those that crashed since the tick, does the cluster implement `TaskLedger`? | 3 IDs, cap 2, 2 tasks, one failure of each kind |
| `recovery` | does every tick end, is `temp_queue` always emptied, every accepted task served, no pair orphaned? (fair) | 2 workers, 1 task, one failure of each kind |
| `server` | is the log's "Queued" true for good, is an answer of `/metrics` whole and consistent, is its worker count that of the fleet but for crashes since the tick, does anyone wait for ever at the lock (fair)? | 1 ID, 1 task from 1 click, 1 handler of `/metrics`, one failure of each kind |
| `sampling` | what the autoscaler decides from any mixture of samples, and what it closes | host with cap 2, one burst of 6 requests, one fault, one restart, one dying worker |
| `settling` | does the fleet shrink to one when requests cease? (fair) | the same host, one dying worker, one failing call |
| `generator` | concurrency, completeness of the report, stop after Ctrl+C (fair) | 2 slots, 3 requests |
| `polling` | how old may the numbers be, how long may the chip be wrong? | 2 outages, one failing read, ages up to 9 s |
| `tasks` | results of the task functions, and that calls return (fair) | values -4..12, ints of 8 bits, 3 cores |

Why these are enough: the races of the cluster are between two workers, a
worker and a sweep, a worker and a `Destroy`, or a handler and any of them; two
workers and two tasks show all of them, a third ID is needed only when an old
container is remembered while new ones are started.  One failure of each kind
reaches every window between two commands.  In `server` the races are between
the goroutine and one handler, or one handler, one worker and one sweep; the
handler is started again as often as one likes, and clusters with more workers
are the subject of the runs above it.  In `polling` the bounds of
`FreshWhileOnline` (7 s) and `StatusTracksMaster` (7 s and 6 s) are tight: with
one second less each of them fails.  Ages are not told apart beyond 9 s, which
is above every bound.  In `tasks` the loops pass the
12th prime 37, and the references (`IsPrime`, `Power`) know no bound but `Width`.

Every property of a passing run has a mutant: an operator next to the one it
replaces, commented "Mutant", that changes the code's behaviour in a plausible
way.  They are not part of any specification.

### Where the code and its documentation differ

Three runs show a disagreement; each checks what is said, and TLC finds the
behaviour in which it fails.

| Run | What happens | What is said |
|---|---|---|
| `ghost_pair` | a sweep restores the pair of a finished task; its task runs again once its worker is gone | `worker.go:88` |
| `saturation` | CPU alone never adds a worker: quota 50 %, target 70 % | `stressCPU.go:15`, `heavy_cpu_spike/main.go:168` |
| `misread` | one failing read of the counter scales to the cap | `steady_balanced_load/main.go:153` |

What else a reader should know of the code, visible in the models and stated in
the premises of the passing properties rather than in runs of its own:

* a worker that dies between `BLPop` (`worker.go:16`) and `RPush`
  (`worker.go:54`) loses its task: the disjunct `dropped` of `Accounted`;
* a worker killed between `INCR` and `LREM` has its finished task run and
  counted again (`processing_queue.go:44`): `ExactlyOnceWhenCalm` excludes kills;
* the loop for idle containers (`destroyContainer.go:20`) may kill a worker that
  took a task after its sample;
* the task of a worker started by hand after the tick is given back while it
  runs: `ManualStarts` in `ExclusiveExecution` and others;
* `rps` divides by 10 s whatever time has passed since the last sample
  (`orchestrator.go:60`), and after a restart counts all requests ever made:
  `sample.exact` in `CalmAddsNone`, which says nothing of the divisor;
* `/metrics` shows the number decided on, whatever `Generate` and `Destroy`
  achieved (`orchestrator.go:85`), and 0 for what cannot be read from Redis
  (`metricsHandler.go:35`): the premises of `CountIsLive` and
  `QueueWithinRequests`;
* a worker that crashes while the tick goes on is made good by the next one
  only: `lost` in `StopsExactly`, `DecisionReached` and `CountIsLive`;
* a container whose `ContainerStop` and `ContainerRemove` both fail is counted as
  stopped and lives on (`destroyContainer.go:33-35`): `faults` in `StopsExactly`;
* a round that is broken off (`orchestrator.go:38-59`) leaves its Docker client
  open: `faults` in `ClientsClosed`;
* a request whose answer was late is reported as failed and may be queued
  (`heavy_cpu_spike/main.go:95`, `TaskPanel.jsx:33`): `ReportComplete` and
  `LoggedIsKept` state one direction only;
* the first answer of the dashboard shows the whole counter as a rate
  (`useMetrics.js:10`).

## 4. Fairness

`FairSpec` of the cluster assumes that each goroutine of a running process goes
on (`Loop`, `OnSignal` per worker; `Orchestrate`), which stands for the Go
scheduler, terminating task functions (`Returns` in `tasks`) and a
Docker daemon that answers.  Weak fairness is enough: no goroutine waits for a
condition that others switch on and off for ever, except `BLPop`, and Redis
serves blocked clients in turn.  Nothing is assumed of clients, failures,
operators, or of a cancelled `BLPop`.  `Autoscaler` assumes that workers take
and end tasks, the clock and the loop go on; the generators and the task
functions that their own goroutines or timers do, never that the master answers.
`MasterServer` assumes that the orchestrator's goroutine and the handlers of
`/metrics` get the CPU and that a Redis command ends; nobody need click or ask.

## 5. Proofs

The theorems hold for every finite set of workers and of tasks, all caps,
budgets and hosts, any number of handlers, clicks, requests, slots, cores and
arguments, from the named assumptions of the modules (`WorkersAssumption`,
`NoneAssumption`, `OrchestratorAssumption`, `HostAssumption`,
`ConcurrencyAssumption`, ...), which TLC evaluates for the values of its runs.
Each proof names an inductive invariant, shows that it holds initially, that each
action keeps it, and that it implies the property.

**Records of tasks** (`KubeLite_proofs`, `Records_proofs`)

* `TypeCorrect`: `TypeOK` is inductive.  It carries the ties between `phase`,
  `holding`, `registered` and `container`, and between `stage`, `hand` and
  `victim`, without which no step of the sweep could be shown to handle a pair.
* `AcceptedTasksAccounted`, `CleanupAfterDone`: invariant `IInv`, that is
  `TypeOK /\ AckingDone /\ Accounted`. `Accounted` alone is not inductive:
  `Ack` removes a pair, and only `AckingDone` says that its task is done
  (`Records_proofs` states it; no run checks it separately). `TrackedStep`
  shows for one task that every step keeps a record of it.
* `RecordsAreALedger`: `Spec => KeepsLedger`, the refinement of `TaskLedger`, with
  workers started by hand and every kind of failure.  The invariant `RInv` adds
  that no list has an element twice and the lists of pairs share none
  (`NoRepeats`), that a task is in one of its possible places and there once
  (`Apart`), that what nobody has sent is nowhere (`Unsent`), and that what a
  worker holds is tracked (`InHandTracked`).  `RecordOf` counts copies; under
  `RInv` it is `Place` (`RecordIs`), and `RecordStep` shows that a step moves the
  place of a task only as `TaskLedger` does.

**Workers** (`Fleet_proofs`).  What these theorems rest on is `KnownRun`: the list
made at the tick misses no worker that runs while the sweep and the decision go
by it, as only `Generate` starts workers and comes after both.  This is why
`ManualStarts` is excluded in the properties.

* `FleetStaysWithinCap`: invariant `FInv`.  While the fleet is growing, the workers
  running together with those still to be started are within the cap (`Capped`);
  without that part a step of `Generate` could not be bounded.
* `DestroyStopsExactly`: invariant `FInv /\ Stopping`.  While no call fails and the
  master is not restarted, one container at a time is being stopped and no other
  has a signal.  A container may exit or crash at any time, and `Destroy` meets it
  again on its list: so the invariant counts those of the list that are not
  removed (`Present`), of which there are no more than are to be kept and still to
  be stopped.  The running ones fall short of that number by at most `lost`: only a
  crash takes a running worker away that is not being stopped.
* `SweepsAreComplete`: invariant `FInv /\ Swept`.  Pairs in `temp_queue` belong to
  workers of the list, and between sweeps `temp_queue` is empty; a pair pushed
  during the sweep belongs to a running worker, which `KnownRun` has in the list.
* `DecisionsAreReached`: invariant `DInv`, which joins these and `AsDecided`: up to
  `lost`, what runs and what is still to start or stop is the target.  The tick
  sets `lost` to 0 with the list it makes, so crashes before it are made good.
  Here a worker can be started only if its container ID is not referred to any
  more (`Taken`); `IDsSuffice` shows that one is left if there are as many IDs as
  the cap, as pairs of crashed workers do not outlast the sweep (Docker never runs out of them). The run `failures` checks the property,
  `DecisionReached`, and the run `server` what the users see of it,
  `CountIsLive`.
* `NoTaskHasTwoWorkers`, `RegisteredTasksSurvive`: invariant `OInv`, that is `RInv`,
  `KnownRun`, and `OwnsPair`: a registered worker's pair is where a sweep finds it
  unless the record has ended.  A sweep gives back the task of a pair whose
  worker is not in the list; by `KnownRun` it does not run, and by `RInv` nobody
  else holds the task.
* `CalmClusterCountsOnce`: invariant `CInv`.  While nobody leaves (`NobodyLeaves`),
  what is done neither waits nor is about to run (`DoneIsOver`), and the counter
  is the number of tasks done (`CountIsRight`).  The master may crash.

**Master** (`MasterServer_proofs`).  `ServerSteps` shows that a step of the server
is a step of the cluster, one of its measurements that fails, or leaves the
cluster alone, so the invariants above hold in the server.

* `AnswersWhole`: a handler is inside the lock only while no round writes
  (`ReadersExcluded`); outside of a write the cache is the triple last published,
  and a write in progress has stored what it was given so far (`Written`).
* `LoggedTasksAreKept`: invariant `KInv`.  What is logged as queued was accepted, and
  while Redis does not fail `total_request` is the number of requests that have
  arrived (`RequestsCounted`).
* `AnswersInOrder`: invariant `QInv`.  `task_queue` has each task once (`RInv`) and
  only tasks that have arrived, so its length is at most `total_request`, which
  does not fall until the handler reads it (`ReadInOrder`).
* `WorkerCountIsLive`: invariant `LInv`, that is `DInv` and what the goroutine has
  published at each stage (`Showing`).  The theorem assumes what `Server.cfg` gives
  TLC: workers are not started by hand, and there are as many IDs as the cap.
* `ServerKeepsPromises`, `ServerIsALedger`: invariant `ClusterInv`, that is
  `CInv /\ DInv`. What the cluster promises (`Promises`: `Accounted`,
  `AckingDone`, `CrashSafe`, `ExclusiveExecution`, `FleetWithinCap`,
  `SweepComplete`, `StopsExactly`, `DecisionReached`, `ExactlyOnceWhenCalm`,
  and the ledger) the server keeps, which TLC cannot check there: several
  workers, tasks and handlers at once are too many states. The server's
  failures are those of the cluster and failing measurements; `AsideKeeps`
  covers the steps beside the cluster.
* `ServerTypes`: invariant `TInv`. The type is more than a shape: percentages
  of memory lie in 0..100. `MemoryReading` bounds one container's, for any page
  cache and limit, from `StatsAssumption`: the numbers Docker sends are
  unsigned and a container's usage does not exceed its limit, if it has one.
  `MeanOfPercentages` carries the bound over the fold that sums them.

**Autoscaler** (`Autoscaler_proofs`)

* `EveryDecisionAllowed`, `EveryBacklogCovered`, `HostRespected`, `AutoscalerTypes`:
  the invariant adds `RoundBounded`, which says that during a round the fleet is
  no larger than the list it began with, so that growing by the difference
  cannot exceed the cap; and that the counters and the sample have their types
  even when the difference of counters wraps around.
* `RoundsCloseClients`: the invariant `ClientOfRound` allows one client between
  rounds and two during one, and one more for each failed call.
* `CalmIsCalm`: the invariant `Counts` ties what a round read to what has arrived
  since the last sample (`total_request = oldRequest + arrived`, except between
  the read and the decision, when what was read takes the place of
  `oldRequest`), so that no new request means a rate of zero, however many ticks
  the loop has missed and rounds it has broken off; `TargetsMet` then bounds the
  formula.  A failed read or a restart breaks the equation until the next sample:
  `exact` says when it holds.

**Clients and task functions**

* `LoadGenerator_proofs` (`GeneratorTypes`, `SlotsBoundRequests`,
  `ReportsAreComplete`): the invariant `GInv` relates every counter of the program to
  a set of goroutines: the slots in use to those between started and counted,
  the wait group to those that have not ended and the one main is about to
  start, each counter of the report to the requests it stands for.
* `Dashboard_proofs` (`DashboardTypes`, `ShownIsFresh`, `ChipFollowsMaster`): the
  invariant `PInv`.  Polls start one interval apart and end at the timeout, so at
  most two are in flight and their ages are known (`Spaced`).  `Horizon` is how
  long ago the poll that ended last may have been started: it bounds the age of
  what is shown (`Fresh`) and how long the chip can stay off (`Noticed`).
  `Answered` and `Prompt` relate polls to outages.  `Latency` is any time below
  the timeout.
* `TaskSwitch_proofs` (`FunctionTypes`, `PrimesAreCounted`, `NthPrimeIsReturned`,
  `CoresBurnThenStop`): the loop invariant `LoopInv` says that the inner loop has
  found no divisor below `i`, the outer one has counted the primes up to the
  candidate, and the candidate is a prime whenever the outer loop ends, which is
  why it returns the last prime counted and not a later number.  `StressInv`
  says that the wait group counts the cores that are started and not gone.
* `PowersOfTwoAreTold`: `Powers` establishes the equation of the recursive
  function `Power`. If `n` is the power `Power[k]`, its one bit is `k`, which
  `n - 1` does not have (`PowerHasOneBit`); if not, the highest bit of `n` is
  one of `n - 1` as well (`HighestBitShared`). `WidthAssumption` says that the
  values fit into an `int`.

The induction theorems of the library cannot be used here, as no installed prover
instantiates their operator parameter.  The two results that need induction, the
sum of a fold over the workers (`Total`) and the powers of two (`Powers`), follow
instead from the principle of the least number (`Least`), which comes from the
library's theorem that every nonempty set has a minimal element in a
well-founded relation (`WFMin`), stated over sets: assume the set of
counterexamples is not empty, take its least element, and contradict it.

Only model-checked is what needs fairness (`Served`, `TickEnds`, `TempDrains`,
`OrphansRecovered`, `Settles`, `Reports`, `NobodyWaits`, `Returns`): liveness and
`ENABLED` are outside the prover.  Every invariant of the passing runs and their one
property of steps, the refinement `KeepsLedger`, are stated by a theorem.

## 6. What is not modelled

* A crash of Redis or the loss of its data; the code has no provision for it.
* The retries of the Redis client library: if the connection breaks after a
  command was carried out, the library may send it again, and a resent `RPUSH`
  would duplicate a record.  The library is not part of the repository; the model
  assumes that a command is carried out at most once.
* The limits of the premises.  `StopsExactly`, `DecisionReached` and `CountIsLive` say
  nothing once a call has failed, the master was restarted or workers were
  started by hand: then the code itself misses its target until the next round.
  `CalmAddsNone` says nothing of rounds with a misread counter and of the first one
  after a restart.  No property is about the divisor of 10 s.
* `Autoscaler` and `Dashboard` take `INCR` and `RPUSH` of a request as one step;
  `Controller` has both.  The last read of `GetMetrics`, the task counter, belongs to
  its answer, as no property tells its values apart.
* `GetWorkerCount` of `Master/metrics/docker.go`, which nothing calls.
* The parts of `fetchContainerCPU` and `IsCpuIdle` that differ between versions
  of the Docker API (`percpu_usage`), and overflow of `float64`.
* In `Autoscaler`, a failing `GetWorkerContainers` at the tick: the round is
  skipped with nothing changed.
* Values of tasks beyond what their type decides; `time.Duration` overflow of a
  `stress_cpu` of more than 292 years.
* The `tps` of the dashboard, computed like its `rps`; the double mount of
  React's StrictMode in development.
* Rendering, styles, image build, start-up script, benchmark recording and
  charts: no state that another part depends on.

## 7. Plan

Done: all of section 2; theorems for every safety property of the passing runs.
What would be worth adding:

1. An abstract queue for `Processing_to_main`: a sweep as one step that gives back
   the pairs of the dead, implemented by the commands of both loops as long as
   the master does not crash.
2. Safety halves of the liveness properties, as theorems: a tick's stages follow
   each other in order, so `TickEnds` rests on the termination of two loops only.
