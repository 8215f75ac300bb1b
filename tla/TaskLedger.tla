----------------------------- MODULE TaskLedger -----------------------------
(***************************************************************************)
(* What KubeLite promises of a task, without lists, sweeps and containers: *)
(* the cluster keeps one record of it.                                     *)
(*                                                                         *)
(*     new --> waiting --> held --> registered --> gone                    *)
(*      \         ^                     |                                  *)
(*     refused    +---------------------+                                  *)
(*                                                                         *)
(* "waiting" is an element of task_queue, "held" a worker's memory alone,  *)
(* "registered" a TaskPair.  A record ends, wherever it is, once the task  *)
(* is dealt with or is given up as destroyed, and it never comes back.     *)
(* Several tasks may move at once: a crash of the master breaks off every  *)
(* open request.                                                           *)
(***************************************************************************)
CONSTANT Tasks

VARIABLES record,  \* where the record of each task is
          done,    \* tasks dealt with
          dropped  \* tasks whose record was destroyed before

vars == <<record, done, dropped>>

Kept == {"waiting", "held", "registered"}

Init ==
    /\ record = [t \in Tasks |-> "new"]
    /\ done = {}
    /\ dropped = {}

-----------------------------------------------------------------------------
Moves(t, from, to) == record[t] = from /\ record'[t] = to

Stays(t) == record'[t] = record[t]
Accept(t) == Moves(t, "new", "waiting")
Refuse(t) == Moves(t, "new", "refused")
Take(t) == Moves(t, "waiting", "held")
Register(t) == Moves(t, "held", "registered")
GiveBack(t) == Moves(t, "registered", "waiting")
End(t) == \E place \in Kept : Moves(t, place, "gone") /\ t \in done' \cup dropped'

(* Workers deal with tasks that were accepted, some more than once. *)
Deal == done \subseteq done' /\ \A t \in done' \ done : record[t] \notin {"new", "refused"}

(* Only the end of a record gives up a task. *)
GiveUp == dropped \subseteq dropped' /\ \A t \in dropped' \ dropped : t \notin done /\ End(t)

Next ==
    /\ \A t \in Tasks :
         \/ Stays(t) \/ Accept(t) \/ Refuse(t)
         \/ Take(t) \/ Register(t) \/ GiveBack(t) \/ End(t)
    /\ Deal
    /\ GiveUp

Spec == Init /\ [][Next]_vars
=============================================================================
