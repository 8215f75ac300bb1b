----------------------------- MODULE Correctness -----------------------------
(***************************************************************************)
(* What KubeLite's cluster promises.  Invariants first, then what a step   *)
(* may never do, then what must eventually happen.                         *)
(***************************************************************************)
EXTENDS KubeLite

(* Somewhere in the cluster there is still a record of task t, or it has   *)
(* been dealt with, or a failure destroyed its only record.                *)
Tracked(t) ==
    \/ t \in ToSet(task_queue)
    \/ \E p \in Pairs : p.second = t
    \/ \E w \in Workers : holding[w] = t /\ ~registered[w]
    \/ t \in done \cup dropped

(* A task answered with 202 never silently disappears: it waits in         *)
(* task_queue, has a TaskPair a sweep can find, is in the hands of a       *)
(* worker that has yet to register it, is done, or was destroyed by a kill *)
(* or failure in one of the windows the history variable dropped records.  *)
(* The sweep and the workers take it apart into many non-atomic moves.     *)
Accounted == \A t \in Tasks : req[t] = "accepted" => Tracked(t)

(* A worker that registered the task it is running can crash at any time:  *)
(* its own TaskPair is in one of the lists a sweep goes through, or in the *)
(* sweep's hand, however often sweeps have moved it meanwhile.  (Containers *)
(* must be started by the orchestrator alone.)                             *)
CrashSafe ==
    \A w \in Workers :
        ~ManualStarts /\ phase[w] = "running" /\ registered[w] =>
            \/ Pair(w, holding[w]) \in Pairs
            \/ holding[w] \in done \cup dropped

(* Two running workers never work on the same task: a sweep gives a task   *)
(* back only once its owner is gone, as long as containers are started by  *)
(* the orchestrator alone.                                                 *)
ExclusiveExecution ==
    ~ManualStarts =>
        \A v, w \in Workers :
            Busy(v) /\ Busy(w) /\ holding[v] = holding[w] => v = w

(* As long as no worker dies and no Redis call of a worker fails, sweeps   *)
(* that run beside the workers, even sweeps a crash of the master cuts     *)
(* short, never have a task run twice: task_completed, which /metrics      *)
(* shows as total_tasks, is the number of tasks run.                       *)
ExactlyOnceWhenCalm ==
    downs = 0 /\ crashes = 0 /\ faults = 0 /\ ~ManualStarts =>
        task_completed = Cardinality(done \cap Runnable)

(* The orchestrator never has more workers running than getSystemCaps      *)
(* allows, even when master and workers crash while it starts containers.  *)
FleetWithinCap == ~ManualStarts => Cardinality(Running) <= SystemCap

(* Destroy stops exactly as many workers as it was asked to: idle ones     *)
(* first, then others, never one twice, though each is judged by a sample  *)
(* that is old when it is stopped, and though workers die beside it that   *)
(* are still on its list.  What may be missing among the workers to keep   *)
(* and those still to stop has crashed since the tick.                     *)
StopsExactly ==
    restarts = 0 /\ faults = 0 /\ ~ManualStarts /\ stage = "scanning" =>
        (target + quota) - Cardinality(Running) \in 0..lost

(* When a tick is over, as many workers run as it decided: Generate and    *)
(* Destroy make good the difference to a list that is old by then, though  *)
(* workers push pairs, finish tasks, exit and crash meanwhile.  Only those *)
(* that have crashed since that list was made can be missing: the tick has *)
(* made good every earlier crash.  (The model must have IDs for SystemCap  *)
(* containers.)                                                            *)
DecisionReached ==
    /\ restarts = 0 /\ faults = 0 /\ ~ManualStarts
    /\ SystemCap <= Cardinality(Workers) /\ stage = "waiting"
    => target - Cardinality(Running) \in 0..lost

(* When a sweep has gone through processing_queue, what is left in the     *)
(* lists belongs to workers that were running at the tick: every task of a *)
(* worker that had gone before is back in task_queue, although workers     *)
(* push new pairs all the while.  (A master that crashes in mid-sweep      *)
(* leaves pairs in temp_queue, and the next sweep restores these unseen.)  *)
SweepComplete ==
    faults = 0 /\ restarts = 0 /\ ~ManualStarts /\ stage \in {"restoring", "deciding"} =>
        \A p \in Pairs : p.first \in known

-----------------------------------------------------------------------------
(* Every copy of task t that a worker or a sweep could take up. *)
Copies(t) ==
    LET pairs == processing_queue \o temp_queue \o (IF hand = None THEN <<>> ELSE <<hand>>)
    IN {<<"waiting", i>> : i \in {i \in DOMAIN task_queue : task_queue[i] = t}}
         \cup {<<"registered", i>> : i \in {i \in DOMAIN pairs : pairs[i].second = t}}
         \cup {<<"held", w>> : w \in {w \in Workers : holding[w] = t /\ ~registered[w]}}

RecordOf(t) ==
    LET copies == Copies(t)
    IN IF copies = {}
         THEN IF t \in done \cup dropped THEN "gone"
              ELSE IF req[t] = "refused" THEN "refused" ELSE "new"
         ELSE IF Cardinality(copies) = 1 THEN (CHOOSE c \in copies : TRUE)[1]
              ELSE "duplicated"

Ledger == INSTANCE TaskLedger WITH record <- [t \in Tasks |-> RecordOf(t)]

(* However workers, sweeps, crashes and failing calls of Redis take turns, *)
(* a task has one record at a time, which goes round from task_queue by a  *)
(* worker's hands and its TaskPair and back, and ends only with the task   *)
(* dealt with or counted as destroyed: nothing is duplicated or lost on    *)
(* the way, and what has come to its end does not come back.               *)
KeepsLedger == Ledger!Spec

-----------------------------------------------------------------------------
(* worker.go: the cleanup removes the wrapped payload from                 *)
(* processing_queue, so a worker that polls again has no TaskPair left.    *)
CleanupRemoves ==
    \A w \in Workers : phase[w] = "polling" => \A p \in Pairs : p.first # w

-----------------------------------------------------------------------------
(* Every task answered with 202 is eventually dealt with, unless a failure *)
(* destroyed it: requeued tasks are taken again, and a fleet that has died *)
(* out is started again by the next tick.                                  *)
Served ==
    \A t \in Tasks : req[t] = "accepted" ~> t \in done \cup dropped

(* Every tick comes to its end: both loops of the sweep empty their lists  *)
(* though workers refill them, and no container stop waits for ever.       *)
TickEnds == stage # "waiting" ~> stage = "waiting"

(* Whatever a broken off sweep left in temp_queue, a later sweep restores. *)
TempDrains == temp_queue # <<>> ~> temp_queue = <<>>

(* The TaskPairs of a worker that is gone do not stay for ever.            *)
OrphansRecovered ==
    \A w \in Workers :
        (\E p \in Pairs : p.first = w /\ container[w] # "running")
          ~> ~(\E p \in Pairs : p.first = w /\ container[w] # "running")
=============================================================================
