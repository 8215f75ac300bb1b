----------------------------- MODULE Controller -----------------------------
(***************************************************************************)
(* The master's HTTP handler for POST /request and POST /evaluate          *)
(* (controller.Request).  Handlers run concurrently, one per request; a    *)
(* handler's two Redis commands are two steps.  OPTIONS changes nothing    *)
(* and GET /metrics only reads, so neither appears here.                   *)
(***************************************************************************)
EXTENDS TaskStore

VARIABLE req   \* req[t]: how far the handler of task t's request has come

ControllerTypeOK == req \in [Tasks -> {"new", "counted", "accepted", "refused"}]

ControllerInit == req = [t \in Tasks |-> "new"]

Answer(t, status) == req' = [req EXCEPT ![t] = status]

(* IncrementRequestCount, before the body has been read. *)
IncrementRequestCount(t) ==
    /\ req[t] = "new"
    /\ total_request' = total_request + 1
    /\ Answer(t, "counted")
    /\ UNCHANGED <<lists, task_completed, history>>

(* The body is read and pushed: 202 Accepted. *)
AcceptRequest(t) ==
    /\ req[t] = "counted"
    /\ task_queue' = Append(task_queue, t)
    /\ Answer(t, "accepted")
    /\ UNCHANGED <<processing_queue, temp_queue, counters, history>>

(* The body cannot be read: 400. *)
RefuseRequest(t) ==
    /\ req[t] = "counted"
    /\ Answer(t, "refused")
    /\ UNCHANGED storeVars

(* Redis fails the INCR: the error is logged and the handler goes on. *)
CountLost(t) ==
    /\ req[t] = "new"
    /\ Answer(t, "counted")
    /\ UNCHANGED storeVars

(* Redis fails the RPUSH: 500.  The client learns nothing about whether    *)
(* the command had been carried out before the connection broke.           *)
PushFails(t) ==
    /\ req[t] = "counted"
    /\ task_queue' \in {task_queue, Append(task_queue, t)}
    /\ Answer(t, "refused")
    /\ UNCHANGED <<processing_queue, temp_queue, counters, history>>
=============================================================================
