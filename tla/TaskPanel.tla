------------------------------ MODULE TaskPanel ------------------------------
(***************************************************************************)
(* The task panel of the dashboard: a click posts a task to /evaluate,     *)
(* waits up to 5 s for the answer of the handler (Controller) and notes in *)
(* the log what came of it.  The handler may still be at work when the     *)
(* panel has given up.                                                     *)
(***************************************************************************)
EXTENDS Controller

CONSTANT Clicks  \* the tasks posted by clicks; others are another client's

ASSUME ClicksAssumption == Clicks \subseteq Tasks

VARIABLES loading,  \* the task being submitted
          fetch,    \* fetch[t]: the panel's request for t
          log       \* log[t]: what the log says of it

panelVars == <<loading, fetch, log>>

PanelTypeOK ==
    /\ loading \in Clicks \cup {None}
    /\ fetch \in [Clicks -> {"none", "open", "closed"}]
    /\ log \in [Clicks -> {"none", "queued", "failed"}]
    /\ \A t \in Clicks : fetch[t] = "open" <=> loading = t

PanelInit ==
    /\ loading = None
    /\ fetch = [t \in Clicks |-> "none"]
    /\ log = [t \in Clicks |-> "none"]

(* The request for t is on its way to the master. *)
Posted(t) == t \in Clicks => fetch[t] # "none"

handleClick(t) ==
    /\ loading = None
    /\ fetch[t] = "none"
    /\ loading' = t
    /\ fetch' = [fetch EXCEPT ![t] = "open"]
    /\ UNCHANGED log

SubmissionEnds(t, entry) ==
    /\ fetch[t] = "open"
    /\ fetch' = [fetch EXCEPT ![t] = "closed"]
    /\ log' = [log EXCEPT ![t] = entry]
    /\ loading' = None

(* Mutant: submitTask is not awaited. *)
NotAwaited(t) == TRUE

(* res.ok *)
Ok(t) == req[t] = "accepted"

submitTask(t) == Ok(t) /\ SubmissionEnds(t, "queued")

(* An error status, no connection, or no answer in 5 s. *)
SubmitFails(t) == SubmissionEnds(t, "failed")
=============================================================================
