------------------------------- MODULE Worker -------------------------------
(***************************************************************************)
(* The worker process (Worker/main.go, Worker/worker.go), one per          *)
(* container.  StartPolling is cut at its Redis commands:                  *)
(*                                                                         *)
(*   polling --BLPop--> popped --RPush--> running --Incr--> acking --LRem  *)
(*                                                                         *)
(* and beside it runs the goroutine that turns SIGTERM into a flag and a   *)
(* cancelled context.  The container is what the Docker daemon shows: a    *)
(* process that exits or is killed leaves an exited container behind, and  *)
(* everything the process held in memory is gone.                          *)
(***************************************************************************)
EXTENDS TaskStore

VARIABLES container,  \* container[w]: "absent", "running" or "exited"
          phase,      \* phase[w]: where StartPolling is; "off" when not running
          holding,    \* holding[w]: the task in the process's memory
          registered, \* history: registered[w], holding[w]'s TaskPair was pushed
          signal      \* signal[w]: how far SIGTERM has travelled

workerVars == <<container, phase, holding, registered, signal>>

Running == {w \in Workers : container[w] = "running"}

(* isShuttingDown.Load(): the flag is stored before the context is cancelled. *)
ShuttingDown(w) == signal[w] \in {"stored", "cancelled"}

Busy(w) == phase[w] \in {"popped", "running", "acking"}

WorkerTypeOK ==
    /\ container \in [Workers -> {"absent", "running", "exited"}]
    /\ phase \in [Workers -> {"off", "polling", "popped", "running", "acking"}]
    /\ holding \in [Workers -> Tasks \cup {None}]
    /\ registered \in [Workers -> BOOLEAN]
    /\ signal \in [Workers -> {"none", "sent", "stored", "cancelled"}]
    /\ \A w \in Workers : /\ phase[w] = "off" <=> container[w] # "running"
                          /\ Busy(w) <=> holding[w] # None
                          /\ registered[w] => phase[w] \in {"running", "acking"}

WorkerInit ==
    /\ container = [w \in Workers |-> "absent"]
    /\ phase = [w \in Workers |-> "off"]
    /\ holding = [w \in Workers |-> None]
    /\ registered = [w \in Workers |-> FALSE]
    /\ signal = [w \in Workers |-> "none"]

Goto(w, p) == phase' = [phase EXCEPT ![w] = p]

(* The container comes up with role=worker and its process starts polling. *)
Boot(w) ==
    /\ container' = [container EXCEPT ![w] = "running"]
    /\ Goto(w, "polling")
    /\ UNCHANGED <<holding, registered, signal>>

(* The process ends, whatever the reason. *)
Halt(w) ==
    /\ container' = [container EXCEPT ![w] = "exited"]
    /\ Goto(w, "off")
    /\ holding' = [holding EXCEPT ![w] = None]
    /\ registered' = [registered EXCEPT ![w] = FALSE]
    /\ signal' = [signal EXCEPT ![w] = "none"]

(* The process ends without running another instruction.  A task it had    *)
(* popped and not registered existed nowhere but in its memory.            *)
Die(w) ==
    /\ container[w] = "running"
    /\ Halt(w)
    /\ IF phase[w] \in {"popped", "running"} /\ ~registered[w]
         THEN Drop(holding[w])
         ELSE UNCHANGED dropped
    /\ UNCHANGED <<lists, counters, done>>

(* BLPop delivers the oldest task.  A cancelled context does not stop a    *)
(* reply that is already on its way, so the signal is no guard here.       *)
BLPop(w) ==
    /\ phase[w] = "polling"
    /\ task_queue # <<>>
    /\ task_queue' = Tail(task_queue)
    /\ holding' = [holding EXCEPT ![w] = Head(task_queue)]
    /\ Goto(w, "popped")
    /\ UNCHANGED <<processing_queue, temp_queue, counters, history,
                   container, registered, signal>>

(* BLPop returns an error because of cancel(); the flag is set: os.Exit(0). *)
PollCancelled(w) ==
    /\ phase[w] = "polling"
    /\ signal[w] = "cancelled"
    /\ Halt(w)
    /\ UNCHANGED storeVars

(* The switch: a body that cannot be run goes straight to the cleanup. *)
Selected(t) == IF t \in Runnable THEN "running" ELSE "acking"

(* json.Unmarshal and the switch. *)
Dispatch(w) ==
    /\ Goto(w, Selected(holding[w]))
    /\ done' = done \cup ({holding[w]} \ Runnable)

(* The TaskPair is pushed on processing_queue, then the body is parsed. *)
Register(w) ==
    /\ phase[w] = "popped"
    /\ processing_queue' = Append(processing_queue, Pair(w, holding[w]))
    /\ registered' = [registered EXCEPT ![w] = TRUE]
    /\ Dispatch(w)
    /\ UNCHANGED <<task_queue, temp_queue, counters, dropped,
                   container, holding, signal>>

(* The task function has returned: INCR task_completed. *)
Finish(w) ==
    /\ phase[w] = "running"
    /\ task_completed' = task_completed + 1
    /\ done' = done \cup {holding[w]}
    /\ Goto(w, "acking")
    /\ UNCHANGED <<lists, total_request, dropped,
                   container, holding, registered, signal>>

(* After the cleanup: exit if SIGTERM has been seen, else poll again. *)
EndTask(w) ==
    \/ ShuttingDown(w) /\ Halt(w)
    \/ /\ ~ShuttingDown(w)
       /\ Goto(w, "polling")
       /\ holding' = [holding EXCEPT ![w] = None]
       /\ registered' = [registered EXCEPT ![w] = FALSE]
       /\ UNCHANGED <<container, signal>>

(* LREM processing_queue 1 pair. *)
Ack(w) ==
    /\ phase[w] = "acking"
    /\ processing_queue' = LRem(processing_queue, Pair(w, holding[w]))
    /\ EndTask(w)
    /\ UNCHANGED <<task_queue, temp_queue, counters, history>>

(* The signal goroutine: isShuttingDown.Store(true), then cancel(). *)
StoreFlag(w) ==
    /\ signal[w] = "sent"
    /\ signal' = [signal EXCEPT ![w] = "stored"]
    /\ UNCHANGED <<storeVars, container, phase, holding, registered>>

Cancel(w) ==
    /\ signal[w] = "stored"
    /\ signal' = [signal EXCEPT ![w] = "cancelled"]
    /\ UNCHANGED <<storeVars, container, phase, holding, registered>>

-----------------------------------------------------------------------------
(* Redis failures.  Only BLPop's error is looked at; the errors of RPush,  *)
(* Incr and LRem are dropped and the worker carries on.                    *)

(* BLPop returns an error; the command may have been carried out. *)
PollFails(w) ==
    /\ phase[w] = "polling"
    /\ \/ UNCHANGED <<task_queue, dropped>>
       \/ /\ task_queue # <<>>
          /\ task_queue' = Tail(task_queue)
          /\ Drop(Head(task_queue))
    /\ EndTask(w)
    /\ UNCHANGED <<processing_queue, temp_queue, counters, done>>

RegisterFails(w) ==
    /\ phase[w] = "popped"
    /\ Dispatch(w)
    /\ UNCHANGED <<lists, counters, dropped, container, holding, registered, signal>>

IncrFails(w) ==
    /\ phase[w] = "running"
    /\ done' = done \cup {holding[w]}
    /\ Goto(w, "acking")
    /\ UNCHANGED <<lists, counters, dropped, container, holding, registered, signal>>

AckFails(w) ==
    /\ phase[w] = "acking"
    /\ EndTask(w)
    /\ UNCHANGED storeVars
=============================================================================
