------------------------------ MODULE StressCPU ------------------------------
(***************************************************************************)
(* StressCPUAllCores: one goroutine for every CPU burns its core until the *)
(* channel done is closed after the duration asked for.                    *)
(***************************************************************************)
EXTENDS Integers, FiniteSets

CONSTANT NumCPU  \* logical CPUs of the host

Cores == 1..NumCPU

VARIABLES main,     \* StressCPUAllCores
          spawned,  \* goroutines started
          core,     \* the goroutines
          wg, done,
          left      \* seconds left to sleep
vars == <<main, spawned, core, wg, done, left>>

TypeOK ==
    /\ main \in {"spawning", "sleeping", "waiting", "returned"}
    /\ spawned \in 0..NumCPU
    /\ core \in [Cores -> {"none", "ready", "burning", "leaving", "gone"}]
    /\ wg \in 0..NumCPU
    /\ done \in BOOLEAN
    /\ left \in Int

Init ==
    /\ main = "spawning" /\ spawned = 0
    /\ core = [c \in Cores |-> "none"]
    /\ wg = 0 /\ done = FALSE
    /\ left \in Int

(* The loop over the CPUs: wg.Add, then the goroutine. *)
Spawn ==
    /\ main = "spawning"
    /\ IF spawned < NumCPU
       THEN /\ spawned' = spawned + 1
            /\ wg' = wg + 1
            /\ core' = [core EXCEPT ![spawned'] = "ready"]
            /\ UNCHANGED main
       ELSE main' = "sleeping" /\ UNCHANGED <<spawned, core, wg>>
    /\ UNCHANGED <<done, left>>

(* time.Sleep; it returns at once if there is nothing to sleep. *)
Second ==
    /\ main = "sleeping"
    /\ left > 0
    /\ left' = left - 1
    /\ UNCHANGED <<main, spawned, core, wg, done>>

CloseDone ==
    /\ main = "sleeping"
    /\ left <= 0
    /\ done' = TRUE
    /\ main' = "waiting"
    /\ UNCHANGED <<spawned, core, wg, left>>

Wait ==
    /\ main = "waiting"
    /\ wg = 0
    /\ main' = "returned"
    /\ UNCHANGED <<spawned, core, wg, done, left>>

Goto(c, from, to) ==
    /\ core[c] = from
    /\ core' = [core EXCEPT ![c] = to]
    /\ UNCHANGED <<main, spawned, done, left>>

Start(c) == Goto(c, "ready", "burning") /\ UNCHANGED wg

(* Mutant: burnCore leaves when it is done with one pass. *)
Once == TRUE

Closed == done

(* The select between two passes of the loop. *)
burnCore(c) == Closed /\ Goto(c, "burning", "leaving") /\ UNCHANGED wg

Done(c) == wg' = wg - 1 /\ Goto(c, "leaving", "gone")

Main == Spawn \/ Second \/ CloseDone \/ Wait
Core(c) == Start(c) \/ burnCore(c) \/ Done(c)

-----------------------------------------------------------------------------
(* "burns all cores ..., then stops cleanly": until the time is over no    *)
(* goroutine has stopped, and none is left when the function returns.      *)
BurnsThenStops ==
    /\ ~done => \A c \in Cores : core[c] \in {"none", "ready", "burning"}
    /\ main = "returned" => left <= 0 /\ \A c \in Cores : core[c] = "gone"

Returned == main = "returned"
=============================================================================
