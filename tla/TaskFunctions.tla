---------------------------- MODULE TaskFunctions ----------------------------
(***************************************************************************)
(* The functions of Worker/tasks that compute a result: FindNthPrime with  *)
(* its two loops, and IsPowerOfTwo.  A worker calls one of them with a     *)
(* value a client chose, negative ones included.                           *)
(***************************************************************************)
EXTENDS Integers, FiniteSets

CONSTANTS Values,  \* what a client may ask for
          Width    \* bits of an int beside its sign: 63 in Go

VARIABLES call, n,                         \* the call and its argument
          count, candidate, i, isPrime,    \* the locals of FindNthPrime
          result, verdict                  \* what the functions return

loops == <<count, candidate, i, isPrime>>
vars == <<call, n, loops, result, verdict>>

TypeOK ==
    /\ call \in {"next", "divide", "prime", "is_power_of_two", "tested"}
    /\ n \in Values
    /\ candidate \in Nat \ {0} /\ i \in 2..(candidate + 1) /\ isPrime \in BOOLEAN
    /\ count \in 0..(IF n > 0 THEN n ELSE 0)
    /\ result \in Nat /\ verdict \in BOOLEAN

Init ==
    /\ call \in {"next", "is_power_of_two"} /\ n \in Values
    /\ count = 0 /\ candidate = 1 /\ i = 2 /\ isPrime = TRUE
    /\ result = 0 /\ verdict = FALSE

-----------------------------------------------------------------------------
(* Mutant: the outer loop runs once more. *)
CountingOneMore == count <= n

(* for count < n *)
Counting == count < n

(* Mutant: only a prime is followed by the next candidate. *)
AfterPrime == IF isPrime THEN candidate + 1 ELSE candidate

Following == candidate + 1

(* Mutant: the loop ends with candidate++. *)
OneAhead == candidate + 1

Found == candidate

NextCandidate ==
    /\ call = "next"
    /\ IF Counting
       THEN /\ candidate' = Following /\ isPrime' = TRUE /\ i' = 2
            /\ call' = "divide" /\ UNCHANGED <<n, count, result, verdict>>
       ELSE /\ result' = Found /\ call' = "prime" /\ UNCHANGED <<n, loops, verdict>>

(* Mutant: the inner loop runs to candidate itself. *)
DividingBySelf == i <= candidate

(* for i < candidate *)
Dividing == i < candidate

(* A divisor breaks the inner loop; then the candidate is counted or not. *)
Divide ==
    /\ call = "divide"
    /\ IF Dividing /\ candidate % i # 0
       THEN i' = i + 1 /\ UNCHANGED <<call, n, count, candidate, isPrime, result, verdict>>
       ELSE /\ isPrime' = ~Dividing
            /\ count' = IF isPrime' THEN count + 1 ELSE count
            /\ call' = "next" /\ UNCHANGED <<n, candidate, i, result, verdict>>

(* 2^k *)
Power[k \in 0..Width] == IF k = 0 THEN 1 ELSE 2 * Power[k - 1]

(* The bits of v, of which n&(n-1) keeps those that both have. *)
Bits(v) == {k \in 0..(Width - 1) : (v \div Power[k]) % 2 = 1}

(* Mutant: n >= 0. *)
IsPowerOrZero(v) == v = 0 \/ (v > 0 /\ Bits(v) \cap Bits(v - 1) = {})

(* n&(n-1) is only asked for if n > 0. *)
IsPowerOfTwo(v) == v > 0 /\ Bits(v) \cap Bits(v - 1) = {}

TestPower ==
    /\ call = "is_power_of_two"
    /\ verdict' = IsPowerOfTwo(n)
    /\ call' = "tested"
    /\ UNCHANGED <<n, loops, result>>

FindNthPrime == NextCandidate \/ Divide

Next == FindNthPrime \/ TestPower

-----------------------------------------------------------------------------
IsPrime(p) == p >= 2 /\ \A d \in 2..(p - 1) : p % d # 0
PrimesUpTo(m) == {p \in 2..m : IsPrime(p)}

(* FindNthPrime returns the prime that n - 1 primes precede, and 1 if none *)
(* is asked for.                                                           *)
NthPrimeReturned ==
    call = "prime" =>
        IF n <= 0 THEN result = 1
        ELSE IsPrime(result) /\ Cardinality(PrimesUpTo(result)) = n

(* IsPowerOfTwo says whether n is 2^k for some k. *)
PowerOfTwoTold == call = "tested" => (verdict <=> \E k \in 0..(Width - 1) : Power[k] = n)

(* The loops of FindNthPrime have counted the primes up to the candidate   *)
(* whenever the outer one looks at its condition.                          *)
CountIsExact == call = "next" => count = Cardinality(PrimesUpTo(candidate))

Returned == call \in {"prime", "tested"}
=============================================================================
