----------------------------- MODULE TaskSwitch -----------------------------
(***************************************************************************)
(* The switch of StartPolling: the worker calls one of the functions of    *)
(* Worker/tasks with the value of its task, which a client chose, and goes *)
(* on to count and remove the task when the function has returned.         *)
(***************************************************************************)
EXTENDS Integers

CONSTANTS Values,  \* what a client may ask for
          Width,   \* bits of an int beside its sign: 63 in Go
          NumCPU   \* logical CPUs of the host

ASSUME ValuesAssumption == Values \subseteq Int
ASSUME CPUAssumption == NumCPU \in Nat \ {0}

VARIABLES type,                                       \* task.Type
          call, n, count, candidate, i, isPrime, result, verdict,
          main, spawned, core, wg, done, left

Functions == INSTANCE TaskFunctions
Stress == INSTANCE StressCPU

(* A value is an int: encoding/json accepts no other for Value. *)
ASSUME WidthAssumption ==
    Width \in Nat \ {0} /\ \A v \in Values : v < Functions!Power[Width]

functionVars == <<call, n, count, candidate, i, isPrime, result, verdict>>
stressVars == <<main, spawned, core, wg, done, left>>
vars == <<type, functionVars, stressVars>>

TypeOK ==
    /\ type \in {"prime", "is_power_of_two", "stress_cpu"}
    /\ Functions!TypeOK
    /\ Stress!TypeOK

(* task.Value is the number asked for, or the duration. *)
Init ==
    /\ n \in Values
    /\ Functions!Init
    /\ left = n
    /\ Stress!Init
    /\ type \in IF call = "next" THEN {"prime", "stress_cpu"} ELSE {"is_power_of_two"}

Compute ==
    /\ type # "stress_cpu"
    /\ Functions!Next
    /\ UNCHANGED <<type, stressVars>>

StressMain ==
    /\ type = "stress_cpu"
    /\ Stress!Main
    /\ UNCHANGED <<type, functionVars>>

StressCore(c) ==
    /\ type = "stress_cpu"
    /\ Stress!Core(c)
    /\ UNCHANGED <<type, functionVars>>

Next == Compute \/ StressMain \/ \E c \in Stress!Cores : StressCore(c)

Spec == Init /\ [][Next]_vars

(* The scheduler runs every goroutine and the clock goes on. *)
FairSpec ==
    /\ Spec
    /\ WF_vars(Compute) /\ WF_vars(StressMain)
    /\ \A c \in Stress!Cores : WF_vars(StressCore(c))

-----------------------------------------------------------------------------
(* FindNthPrime returns the prime that n - 1 primes precede, and 1 if none *)
(* is asked for.                                                           *)
NthPrimeReturned == Functions!NthPrimeReturned

(* IsPowerOfTwo says whether n is 2^k for some k. *)
PowerOfTwoTold == Functions!PowerOfTwoTold

(* The loops of FindNthPrime have counted the primes up to the candidate   *)
(* whenever the outer one looks at its condition.                          *)
CountIsExact == Functions!CountIsExact

(* "burns all cores ..., then stops cleanly": until the time is over no    *)
(* goroutine has stopped, and none is left when the function returns.      *)
BurnsThenStops == Stress!BurnsThenStops

(* Every call returns, so that the worker can remove its TaskPair.         *)
Returns == <>(IF type = "stress_cpu" THEN Stress!Returned ELSE Functions!Returned)
=============================================================================
