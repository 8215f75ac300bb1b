---------------------------- MODULE LoadGenerator ----------------------------
(***************************************************************************)
(* A load generator of scripts/: main sends requests from goroutines of    *)
(* their own, at most Concurrency at a time, until Ctrl+C; then it waits   *)
(* for all of them and prints a report.  The three programs differ in      *)
(* their numbers only.                                                     *)
(*                                                                         *)
(*    main:       select -> sending -> acquire -> select -> ... -> wait    *)
(*    goroutine:  started -> sent -> answered -> counted                   *)
(*                        -> released -> ended                             *)
(***************************************************************************)
EXTENDS Integers, FiniteSets

CONSTANTS Kinds, NoTask,  \* types of task; none drawn yet
          Concurrency,  \* capacity of semaphore
          MaxRequests   \* bound: requests of a run

ASSUME KindsAssumption == Kinds # {} /\ NoTask \notin Kinds
ASSUME ConcurrencyAssumption == Concurrency \in Nat \ {0} /\ MaxRequests \in Nat

Requests == 1..MaxRequests

VARIABLES main, sigChan, handler,  \* main, and the goroutine for Ctrl+C
          stopChan,                \* stopChan is closed
          wg, semaphore,           \* WaitGroup counter, slots in use
          totalSentCount, successCount, kindCount,
          request, task,           \* the goroutine of each request, its task.Type
          accepted                 \* history: requests answered 202

channels == <<sigChan, handler, stopChan>>
counts == <<totalSentCount, successCount, kindCount>>
vars == <<main, channels, wg, semaphore, counts, request, task, accepted>>

InState(S) == {r \in Requests : request[r] \in S}

TypeOK ==
    /\ main \in {"select", "sending", "acquire", "wait", "reported"}
    /\ sigChan \in 0..1 /\ handler \in {"waiting", "gone"} /\ stopChan \in BOOLEAN
    /\ {wg, totalSentCount, successCount} \subseteq 0..MaxRequests
    /\ semaphore \in Nat
    /\ kindCount \in [Kinds -> 0..MaxRequests]
    /\ request \in [Requests -> {"none", "started", "sent", "answered",
                                 "counted", "released", "ended"}]
    /\ task \in [Requests -> Kinds \cup {NoTask}]
    /\ accepted \subseteq Requests

Init ==
    /\ main = "select"
    /\ sigChan = 0 /\ handler = "waiting" /\ stopChan = FALSE
    /\ wg = 0 /\ semaphore = 0
    /\ totalSentCount = 0 /\ successCount = 0
    /\ kindCount = [k \in Kinds |-> 0]
    /\ request = [r \in Requests |-> "none"]
    /\ task = [r \in Requests |-> NoTask]
    /\ accepted = {}

-----------------------------------------------------------------------------
(* Ctrl+C; the channel keeps one signal and drops the rest. *)
Interrupt ==
    /\ main # "reported"
    /\ sigChan = 0
    /\ sigChan' = 1
    /\ UNCHANGED <<main, handler, stopChan, wg, semaphore, counts, request, task, accepted>>

(* The goroutine takes one signal, closes stopChan and is gone. *)
OnSignal ==
    /\ handler = "waiting"
    /\ sigChan = 1
    /\ sigChan' = 0
    /\ handler' = "gone"
    /\ stopChan' = TRUE
    /\ UNCHANGED <<main, wg, semaphore, counts, request, task, accepted>>

(* A closed stopChan ends the loop; the default case sleeps first. *)
Select ==
    /\ main = "select"
    /\ \/ stopChan /\ main' = "wait"
       \/ ~stopChan /\ totalSentCount < MaxRequests /\ main' = "sending"
    /\ UNCHANGED <<channels, wg, semaphore, counts, request, task, accepted>>

(* Mutant: wg.Add is left to the goroutine, which forgets it. *)
NotAdded == wg

Added == wg + 1

Send ==
    /\ main = "sending"
    /\ main' = "acquire"
    /\ totalSentCount' = totalSentCount + 1
    /\ wg' = Added
    /\ UNCHANGED <<channels, semaphore, successCount, kindCount, request, task, accepted>>

(* Mutant: a semaphore with a slot too many. *)
OneMore == Concurrency + 1

Slots == Concurrency

(* A slot of the semaphore, then the goroutine. *)
Acquire ==
    /\ main = "acquire"
    /\ semaphore < Slots
    /\ semaphore' = semaphore + 1
    /\ request' = [request EXCEPT ![totalSentCount] = "started"]
    /\ main' = "select"
    /\ UNCHANGED <<channels, wg, counts, task, accepted>>

Report ==
    /\ main = "wait"
    /\ wg = 0
    /\ main' = "reported"
    /\ UNCHANGED <<channels, wg, semaphore, counts, request, task, accepted>>

-----------------------------------------------------------------------------
(* The goroutine of r; it ends with main. *)
Goto(r, from, to) ==
    /\ main # "reported"
    /\ request[r] = from
    /\ request' = [request EXCEPT ![r] = to]
    /\ UNCHANGED <<main, channels, totalSentCount>>

(* The kind of task is drawn and counted before the request goes out. *)
generateProbabilisticTask(r) ==
    /\ Goto(r, "started", "sent")
    /\ \E k \in Kinds :
          /\ kindCount' = [kindCount EXCEPT ![k] = @ + 1]
          /\ task' = [task EXCEPT ![r] = k]
    /\ UNCHANGED <<wg, semaphore, successCount, accepted>>

(* The master's 202. *)
Accepted(r) ==
    /\ Goto(r, "sent", "answered")
    /\ accepted' = accepted \cup {r}
    /\ UNCHANGED <<wg, semaphore, successCount, kindCount, task>>

(* Another answer, none, or none before http.Client's timeout. *)
Fails(r) ==
    /\ Goto(r, "sent", "answered")
    /\ UNCHANGED <<wg, semaphore, successCount, kindCount, task, accepted>>

(* Mutant: every answer counts. *)
Any(r) == 1

Success(r) == IF r \in accepted THEN 1 ELSE 0

Count(r) ==
    /\ Goto(r, "answered", "counted")
    /\ successCount' = successCount + Success(r)
    /\ UNCHANGED <<wg, semaphore, kindCount, task, accepted>>

(* Mutant: the slot of a failed request is kept. *)
FreedIfAccepted(r) == semaphore - Success(r)

Freed(r) == semaphore - 1

(* The deferred calls, last one first. *)
Release(r) ==
    /\ Goto(r, "counted", "released")
    /\ semaphore' = Freed(r)
    /\ UNCHANGED <<wg, successCount, kindCount, task, accepted>>

Done(r) ==
    /\ Goto(r, "released", "ended")
    /\ wg' = wg - 1
    /\ UNCHANGED <<semaphore, successCount, kindCount, task, accepted>>

-----------------------------------------------------------------------------
Main == Select \/ Send \/ Acquire \/ Report

Goroutine(r) ==
    \/ generateProbabilisticTask(r) \/ Fails(r)
    \/ Count(r) \/ Release(r) \/ Done(r)

Next ==
    \/ Interrupt \/ OnSignal \/ Main
    \/ \E r \in Requests : Goroutine(r) \/ Accepted(r)

Spec == Init /\ [][Next]_vars

(* Goroutines run and http.Client keeps its timeout; nothing is asked of *)
(* the master, and nobody need press Ctrl+C.                             *)
FairSpec ==
    /\ Spec
    /\ WF_vars(OnSignal) /\ WF_vars(Main)
    /\ \A r \in Requests : WF_vars(Goroutine(r))

-----------------------------------------------------------------------------
(* The semaphore: no more than Concurrency goroutines have a request to    *)
(* send or an answer to wait for, however many time out.                   *)
InFlightBounded == Cardinality(InState({"started", "sent", "answered", "counted"})) <= Concurrency

(* The report comes after every goroutine: each request sent has a task,   *)
(* the counter of a type is the number of its tasks, and those shown as    *)
(* queued are those the master accepted in time.                           *)
ReportComplete ==
    main = "reported" =>
        /\ InState({"ended"}) = 1..totalSentCount
        /\ \A r \in 1..totalSentCount : task[r] # NoTask
        /\ \A k \in Kinds : kindCount[k] = Cardinality({r \in Requests : task[r] = k})
        /\ successCount = Cardinality(accepted)

(* After Ctrl+C the report comes, though the master may never answer.      *)
Reports == sigChan = 1 /\ handler = "waiting" ~> main = "reported"
=============================================================================
