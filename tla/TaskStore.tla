------------------------------ MODULE TaskStore ------------------------------
(***************************************************************************)
(* The Redis database every KubeLite process shares: three lists and two   *)
(* counters (Master/data, Master/controller/request.go, Worker/worker.go). *)
(* Redis runs one command at a time, so each command is one atomic step.   *)
(*                                                                         *)
(* A task stands for the body of one POST /request; two tasks are two      *)
(* different bodies.  An element of processing_queue is the worker's       *)
(* TaskPair: the container that took the task, and the task.               *)
(***************************************************************************)
EXTENDS Naturals, FiniteSets, Sequences, SequencesExt

CONSTANTS Workers,    \* container IDs
          Tasks,      \* request bodies
          Malformed,  \* bodies json.Unmarshal rejects in the worker
          Unknown,    \* well-formed bodies whose "type" no case handles
          None        \* no task, no entry, no container

ASSUME WorkersAssumption == IsFiniteSet(Workers)
ASSUME KindsAssumption == Malformed \subseteq Tasks /\ Unknown \subseteq Tasks
ASSUME NoneAssumption ==
    /\ None \notin Tasks
    /\ None \notin Workers
    /\ None \notin [first : Workers, second : Tasks]

VARIABLES task_queue,       \* list of tasks waiting for a worker
          processing_queue, \* list of TaskPairs workers registered
          temp_queue,       \* list the sweep parks live workers' pairs in
          total_request,    \* counter: requests seen by the master
          task_completed,   \* counter: tasks workers report as run
          done,             \* history: tasks some worker has dealt with
          dropped           \* history: unfinished tasks of which a failure
                            \* destroyed the only record a sweep could use

lists == <<task_queue, processing_queue, temp_queue>>
counters == <<total_request, task_completed>>
history == <<done, dropped>>
storeVars == <<lists, counters, history>>

Runnable == Tasks \ (Malformed \cup Unknown)

TaskPair == [first : Workers, second : Tasks]
Pair(w, t) == [first |-> w, second |-> t]

(* LREM key 1 value: drop the first element equal to value, if any. *)
LRem(list, value) == RemoveFirst(list, value)

StoreTypeOK ==
    /\ task_queue \in Seq(Tasks)
    /\ processing_queue \in Seq(TaskPair)
    /\ temp_queue \in Seq(TaskPair)
    /\ total_request \in Nat
    /\ task_completed \in Nat
    /\ done \subseteq Tasks
    /\ dropped \subseteq Tasks

StoreInit ==
    /\ task_queue = <<>>
    /\ processing_queue = <<>>
    /\ temp_queue = <<>>
    /\ total_request = 0
    /\ task_completed = 0
    /\ done = {}
    /\ dropped = {}

(* A failure destroys a record of task t. *)
Drop(t) == dropped' = dropped \cup ({t} \ done)
=============================================================================
