-------------------------- MODULE TaskSwitch_proofs --------------------------
(***************************************************************************)
(* Proofs about the functions a worker calls, for every argument and any   *)
(* number of cores.                                                        *)
(*                                                                         *)
(* The outer loop of FindNthPrime has counted the primes up to candidate,  *)
(* the inner one has found no divisor below i, and the outer one can only  *)
(* end at a prime; StressCPUAllCores has one goroutine in the WaitGroup    *)
(* for every core that was started and is not gone.  A number shares no    *)
(* bit with its predecessor if and only if it is a power of two, and       *)
(* IsPowerOfTwo tests just that.                                           *)
(***************************************************************************)
EXTENDS TaskSwitch, FiniteSetTheorems, WellFoundedInduction, TLAPS

(* The names of the instances. *)
IsPrime(p) == Functions!IsPrime(p)
PrimesUpTo(m) == Functions!PrimesUpTo(m)
Cores == Stress!Cores
Power == Functions!Power
Bits(v) == Functions!Bits(v)

(* The loops of FindNthPrime. *)
LoopInv ==
    /\ Functions!TypeOK
    /\ call = "next" =>
         /\ count = Cardinality(PrimesUpTo(candidate))
         /\ count < n \/ (n <= 0 /\ candidate = 1) \/ IsPrime(candidate)
    /\ call = "divide" =>
         /\ count = Cardinality(PrimesUpTo(candidate - 1)) /\ count < n
         /\ i <= candidate
         /\ \A d \in 2..(i - 1) : candidate % d # 0
    /\ NthPrimeReturned

(* The goroutines the WaitGroup counts. *)
Alive == {c \in Cores : core[c] \in {"ready", "burning", "leaving"}}

(* The goroutines of StressCPUAllCores. *)
StressInv ==
    /\ Stress!TypeOK
    /\ wg = Cardinality(Alive)
    /\ \A c \in Cores : core[c] # "none" <=> c <= spawned
    /\ main # "spawning" => spawned = NumCPU
    /\ done <=> main \in {"waiting", "returned"}
    /\ ~done => \A c \in Cores : core[c] \in {"none", "ready", "burning"}
    /\ done => left <= 0
    /\ main = "returned" => wg = 0

SwitchInv == type \in {"prime", "is_power_of_two", "stress_cpu"} /\ LoopInv /\ StressInv

-----------------------------------------------------------------------------
(* FindNthPrime *)

(* The instance counts as everybody does. *)
LEMMA SameCardinality == \A S : Functions!Cardinality(S) = Cardinality(S)
BY DEF Functions!Cardinality, Cardinality

(* One number more: a prime is one prime more. *)
LEMMA NextPrime ==
    ASSUME NEW m \in Nat \ {0}
    PROVE  /\ Cardinality(PrimesUpTo(m)) \in Nat
           /\ Cardinality(PrimesUpTo(m + 1)) =
                IF IsPrime(m + 1) THEN Cardinality(PrimesUpTo(m)) + 1
                                  ELSE Cardinality(PrimesUpTo(m))
<1>1. PrimesUpTo(m) = {p \in 2..m : IsPrime(p)} /\ PrimesUpTo(m + 1) = {p \in 2..(m + 1) : IsPrime(p)}
  BY DEF PrimesUpTo, IsPrime, Functions!PrimesUpTo
<1>2. IsFiniteSet(PrimesUpTo(m))
  <2>1. IsFiniteSet(2..m)
    BY FS_Interval
  <2> QED
    BY <1>1, <2>1, FS_Subset
<1>3. CASE IsPrime(m + 1)
  <2>1. m + 1 >= 2
    OBVIOUS
  <2>2. PrimesUpTo(m + 1) = PrimesUpTo(m) \cup {m + 1} /\ m + 1 \notin PrimesUpTo(m)
    BY <1>1, <1>3, <2>1
  <2> QED
    BY <1>2, <1>3, <2>2, FS_AddElement, FS_CardinalityType
<1>4. CASE ~IsPrime(m + 1)
  <2>1. PrimesUpTo(m + 1) = PrimesUpTo(m)
    BY <1>1, <1>4
  <2> QED
    BY <1>2, <1>4, <2>1, FS_CardinalityType
<1> QED
  BY <1>3, <1>4

(* No number up to 1 is a prime. *)
LEMMA NoPrimeYet == Cardinality(PrimesUpTo(1)) = 0
<1>1. PrimesUpTo(1) = {}
  BY DEF PrimesUpTo, Functions!PrimesUpTo
<1> QED
  BY <1>1, FS_EmptySet

(* The locals of the functions. *)
LEMMA Locals ==
    ASSUME LoopInv
    PROVE  /\ n \in Int /\ count \in Nat /\ candidate \in Nat \ {0} /\ i \in Nat /\ i >= 2
           /\ count <= (IF n > 0 THEN n ELSE 0)
           /\ call \in {"next", "divide", "prime", "is_power_of_two", "tested"}
BY ValuesAssumption DEF LoopInv, Functions!TypeOK

(* The outer loop goes on to a number not yet divided, or ends at a prime. *)
LEMMA NextCandidateStep ==
    ASSUME LoopInv, Functions!NextCandidate
    PROVE  LoopInv'
<1>1. CASE count < n
  <2>1. /\ candidate' = candidate + 1 /\ i' = 2 /\ call = "next" /\ call' = "divide"
        /\ UNCHANGED <<n, count, result, verdict>>
    BY <1>1 DEF Functions!NextCandidate, Functions!Counting, Functions!Following
  <2>2. isPrime' = TRUE
    BY <1>1, Zenon DEF Functions!NextCandidate, Functions!Counting
  <2>3. isPrime' \in BOOLEAN
    BY <2>2, Zenon
  <2>4. Functions!TypeOK'
    BY <2>1, <2>3, Locals DEF LoopInv, Functions!TypeOK
  <2>5. candidate' - 1 = candidate /\ i' <= candidate'
    BY <2>1, Locals
  <2>6. PrimesUpTo(candidate - 1)' = PrimesUpTo(candidate)
    BY <2>5 DEF PrimesUpTo, IsPrime, Functions!PrimesUpTo
  <2>7. \A d \in 2..(i' - 1) : candidate' % d # 0
    BY <2>1
  <2>8. NthPrimeReturned'
    BY <2>1 DEF NthPrimeReturned, Functions!NthPrimeReturned
  <2> QED
    BY <1>1, <2>1, <2>4, <2>5, <2>6, <2>7, <2>8 DEF LoopInv
<1>2. CASE ~(count < n)
  <2>1. /\ result' = candidate /\ call = "next" /\ call' = "prime"
        /\ UNCHANGED <<n, count, candidate, i, isPrime, verdict>>
    BY <1>2 DEF Functions!NextCandidate, Functions!Counting, Functions!loops, Functions!Found
  <2>2. Functions!TypeOK'
    BY <2>1, Locals DEF LoopInv, Functions!TypeOK
  <2>3. count = Cardinality(PrimesUpTo(candidate)) /\ ((n <= 0 /\ candidate = 1) \/ IsPrime(candidate))
    BY <1>2, <2>1 DEF LoopInv
  <2>4. IF n <= 0 THEN candidate = 1 ELSE IsPrime(candidate) /\ Cardinality(PrimesUpTo(candidate)) = n
    <3>1. CASE n <= 0
      <4>1. ~IsPrime(1) /\ (IsPrime(candidate) => candidate >= 2)
        BY DEF IsPrime, Functions!IsPrime
      <4>2. count = 0
        BY <3>1, Locals
      <4>3. ASSUME IsPrime(candidate) PROVE FALSE
        <5>1. candidate \in PrimesUpTo(candidate)
          BY <4>1, <4>3, Locals DEF PrimesUpTo, IsPrime, Functions!PrimesUpTo
        <5>2. IsFiniteSet(PrimesUpTo(candidate))
          <6>1. IsFiniteSet(2..candidate)
            BY FS_Interval, Locals
          <6> QED
            BY <6>1, FS_Subset DEF PrimesUpTo, Functions!PrimesUpTo
        <5> QED
          BY <2>3, <4>2, <5>1, <5>2, FS_EmptySet
      <4> QED
        BY <2>3, <3>1, <4>3
    <3>2. CASE ~(n <= 0)
      <4>1. count = n
        BY <1>2, <3>2, Locals
      <4> QED
        BY <2>3, <3>2, <4>1, Locals
    <3> QED
      BY <3>1, <3>2
  <2>5. NthPrimeReturned'
    BY <2>1, <2>4, SameCardinality DEF NthPrimeReturned, Functions!NthPrimeReturned, IsPrime, PrimesUpTo
  <2> QED
    BY <2>1, <2>2, <2>5 DEF LoopInv
<1> QED
  BY <1>1, <1>2

(* The inner loop finds a divisor, no divisor yet, or a prime. *)
LEMMA DivideStep ==
    ASSUME LoopInv, Functions!Divide
    PROVE  LoopInv'
<1>1. /\ call = "divide" /\ UNCHANGED <<n, candidate, result, verdict>>
      /\ call' \in {"next", "divide"}
      /\ count = Cardinality(PrimesUpTo(candidate - 1)) /\ count < n /\ i <= candidate
      /\ \A d \in 2..(i - 1) : candidate % d # 0
  BY DEF LoopInv, Functions!Divide
<1>2. NthPrimeReturned'
  BY <1>1 DEF NthPrimeReturned, Functions!NthPrimeReturned
<1>3. CASE i < candidate /\ candidate % i # 0
  <2>1. i' = i + 1 /\ UNCHANGED <<call, n, count, candidate, isPrime, result, verdict>>
    BY <1>3 DEF Functions!Divide, Functions!Dividing
  <2>2. Functions!TypeOK'
    BY <1>3, <2>1, Locals DEF LoopInv, Functions!TypeOK
  <2>3. i' <= candidate' /\ \A d \in 2..(i' - 1) : candidate' % d # 0
    <3>1. \A d \in 2..(i' - 1) : d \in 2..(i - 1) \/ d = i
      BY <2>1, Locals
    <3> QED
      BY <1>1, <1>3, <2>1, <3>1, Locals
  <2>4. PrimesUpTo(candidate - 1)' = PrimesUpTo(candidate - 1)
    BY <2>1 DEF PrimesUpTo, Functions!PrimesUpTo
  <2> QED
    BY <1>1, <1>2, <2>1, <2>2, <2>3, <2>4 DEF LoopInv
<1>4. CASE ~(i < candidate /\ candidate % i # 0)
  <2>1. /\ call' = "next" /\ UNCHANGED <<n, candidate, i, result, verdict>>
        /\ isPrime' = ~(i < candidate)
        /\ count' = IF isPrime' THEN count + 1 ELSE count
    BY <1>4, Zenon DEF Functions!Divide, Functions!Dividing
  <2>2. isPrime' \in BOOLEAN /\ count' = IF ~(i < candidate) THEN count + 1 ELSE count
    <3>1. isPrime' \in BOOLEAN
      BY <2>1, Zenon
    <3>2. CASE i < candidate
      <4>1. isPrime' = FALSE
        BY <2>1, <3>2, Zenon
      <4> QED
        BY <2>1, <3>1, <3>2, <4>1, Zenon
    <3>3. CASE ~(i < candidate)
      <4>1. isPrime' = TRUE
        BY <2>1, <3>3, Zenon
      <4> QED
        BY <2>1, <3>1, <3>3, <4>1, Zenon
    <3> QED
      BY <3>2, <3>3
  <2>3. IsPrime(candidate) <=> ~(i < candidate)
    <3>1. CASE i < candidate
      <4>1. candidate % i = 0 /\ i \in 2..(candidate - 1)
        BY <1>4, <3>1, Locals
      <4> QED
        BY <3>1, <4>1 DEF IsPrime, Functions!IsPrime
    <3>2. CASE ~(i < candidate)
      <4>1. i = candidate /\ candidate >= 2
        BY <1>1, <3>2, Locals
      <4> QED
        BY <1>1, <3>2, <4>1 DEF IsPrime, Functions!IsPrime
    <3> QED
      BY <3>1, <3>2
  <2>4. candidate - 1 \in Nat \ {0} /\ (candidate - 1) + 1 = candidate
    BY <1>1, Locals
  <2>5. count' = Cardinality(PrimesUpTo(candidate))
    BY <1>1, <2>2, <2>3, <2>4, NextPrime
  <2>6. PrimesUpTo(candidate)' = PrimesUpTo(candidate) /\ IsPrime(candidate)' = IsPrime(candidate)
    BY <2>1 DEF PrimesUpTo, IsPrime, Functions!PrimesUpTo, Functions!IsPrime
  <2>7. count' < n \/ IsPrime(candidate)
    BY <1>1, <2>2, <2>3
  <2>8. Functions!TypeOK'
    <3>1. count' \in 0..(IF n > 0 THEN n ELSE 0)
      BY <1>1, <2>2, Locals
    <3> QED
      BY <2>1, <2>2, <3>1 DEF LoopInv, Functions!TypeOK
  <2> QED
    BY <1>2, <2>1, <2>5, <2>6, <2>7, <2>8 DEF LoopInv
<1> QED
  BY <1>3, <1>4

(* IsPowerOfTwo has nothing to do with the loops. *)
LEMMA TestPowerStep ==
    ASSUME LoopInv, Functions!TestPower
    PROVE  LoopInv'
<1>1. /\ call' = "tested" /\ UNCHANGED <<n, count, candidate, i, isPrime, result>>
  BY DEF Functions!TestPower, Functions!loops
<1>2. verdict' \in BOOLEAN
  BY Zenon DEF Functions!TestPower, Functions!IsPowerOfTwo
<1> QED
  BY <1>1, <1>2 DEF LoopInv, Functions!TypeOK, NthPrimeReturned, Functions!NthPrimeReturned

-----------------------------------------------------------------------------
(* StressCPUAllCores *)

Phases == {"none", "ready", "burning", "leaving", "gone"}
Lives == {"ready", "burning", "leaving"}

(* The goroutines are finitely many. *)
LEMMA AliveFinite == IsFiniteSet(Alive) /\ Cardinality(Alive) \in 0..NumCPU
<1>1. IsFiniteSet(Cores) /\ Cardinality(Cores) = NumCPU
  BY CPUAssumption, FS_Interval DEF Cores, Stress!Cores
<1>2. Alive \subseteq Cores
  BY DEF Alive
<1> QED
  BY <1>1, <1>2, CPUAssumption, FS_Subset, FS_CardinalityType

(* A goroutine that goes on is alive, or it is gone. *)
LEMMA CoreMoves ==
    ASSUME core \in [Cores -> Phases], NEW c \in Cores, NEW to \in Phases,
           core' = [core EXCEPT ![c] = to]
    PROVE  /\ core[c] \in Lives /\ to \in Lives => Alive' = Alive
           /\ core[c] \notin Lives /\ to \in Lives =>
                Cardinality(Alive') = Cardinality(Alive) + 1
           /\ core[c] \in Lives /\ to \notin Lives =>
                Cardinality(Alive') = Cardinality(Alive) - 1
<1>1. Alive = {d \in Cores : core[d] \in Lives} /\ Alive' = {d \in Cores : core'[d] \in Lives}
  BY DEF Alive, Lives, Cores, Stress!Cores
<1>2. ASSUME core[c] \notin Lives, to \in Lives
      PROVE  Cardinality(Alive') = Cardinality(Alive) + 1
  <2>1. Alive' = Alive \cup {c} /\ c \notin Alive
    BY <1>1, <1>2
  <2> QED
    BY <2>1, AliveFinite, FS_AddElement
<1>3. ASSUME core[c] \in Lives, to \notin Lives
      PROVE  Cardinality(Alive') = Cardinality(Alive) - 1
  <2>1. Alive' = Alive \ {c} /\ c \in Alive
    BY <1>1, <1>3
  <2> QED
    BY <2>1, AliveFinite, FS_RemoveElement
<1>4. ASSUME core[c] \in Lives, to \in Lives PROVE Alive' = Alive
  BY <1>1, <1>4
<1> QED
  BY <1>2, <1>3, <1>4

(* StressCPUAllCores: it starts one more, sleeps, closes done, or returns. *)
LEMMA MainStep ==
    ASSUME StressInv, Stress!Main
    PROVE  StressInv'
<1> core \in [Cores -> Phases] /\ spawned \in 0..NumCPU /\ wg \in 0..NumCPU /\ left \in Int
  BY DEF StressInv, Stress!TypeOK, Phases, Cores
<1>1. CASE Stress!Spawn /\ spawned < NumCPU
  <2>1. /\ main = "spawning" /\ spawned' = spawned + 1 /\ wg' = wg + 1
        /\ core' = [core EXCEPT ![spawned + 1] = "ready"]
        /\ UNCHANGED <<main, done, left>>
    BY <1>1 DEF Stress!Spawn
  <2>2. spawned + 1 \in Cores
    BY CPUAssumption, <1>1 DEF Cores, Stress!Cores
  <2>3. core[spawned + 1] = "none"
    BY <2>2 DEF StressInv, Phases
  <2>4. Cardinality(Alive') = Cardinality(Alive) + 1
    BY <2>1, <2>2, <2>3, CoreMoves DEF Lives, Phases
  <2>5. wg' = Cardinality(Alive') /\ wg' \in 0..NumCPU
    <3>1. wg = Cardinality(Alive)
      BY DEF StressInv
    <3>2. Cardinality(Alive') \in 0..NumCPU
      <4>1. IsFiniteSet(Cores) /\ Cardinality(Cores) = NumCPU
        BY CPUAssumption, FS_Interval DEF Cores, Stress!Cores
      <4>2. Alive' \subseteq Cores
        BY DEF Alive, Cores, Stress!Cores
      <4> QED
        BY <4>1, <4>2, CPUAssumption, FS_Subset, FS_CardinalityType
    <3> QED
      BY <2>1, <2>4, <3>1, <3>2
  <2>6. core' \in [Cores -> Phases] /\ spawned' \in 0..NumCPU
    <3>1. "ready" \in Phases
      BY DEF Phases
    <3>2. core' \in [Cores -> Phases]
      BY <2>1, <3>1
    <3>3. spawned' \in 0..NumCPU
      BY <1>1, <2>1, CPUAssumption
    <3> QED
      BY <3>2, <3>3
  <2>7. \A c \in Cores : core'[c] # "none" <=> c <= spawned'
    <3>1. \A c \in Cores : c \in Int /\ (c = spawned + 1 \/ core'[c] = core[c])
      BY <2>1 DEF Cores, Stress!Cores
    <3> QED
      BY <2>1, <2>2, <3>1 DEF StressInv
  <2>8. ~done => \A c \in Cores : core'[c] \in {"none", "ready", "burning"}
    BY <2>1 DEF StressInv
  <2>9. Stress!TypeOK'
    BY <2>1, <2>5, <2>6 DEF StressInv, Stress!TypeOK, Cores, Phases
  <2>10. Cores' = Cores
    BY DEF Cores, Stress!Cores
  <2>11. /\ done' <=> main' \in {"waiting", "returned"}
         /\ done' => left' <= 0
         /\ main' = "spawning"
         /\ ~done' => \A c \in Cores : core'[c] \in {"none", "ready", "burning"}
    BY <2>1, <2>8 DEF StressInv
  <2> QED
    BY <2>5, <2>7, <2>9, <2>10, <2>11 DEF StressInv
<1>2. CASE Stress!Spawn /\ ~(spawned < NumCPU)
  <2>1. main = "spawning" /\ main' = "sleeping" /\ UNCHANGED <<spawned, core, wg, done, left>>
    BY <1>2 DEF Stress!Spawn
  <2>2. Alive' = Alive /\ Cores' = Cores /\ spawned = NumCPU
    BY <1>2, <2>1, CPUAssumption DEF Alive, Cores, Stress!Cores
  <2>3. Stress!TypeOK'
    BY <2>1 DEF StressInv, Stress!TypeOK
  <2> QED
    BY <2>1, <2>2, <2>3 DEF StressInv
<1>3. CASE Stress!Second \/ Stress!Wait
  <2>1. /\ UNCHANGED <<spawned, core, wg, done>>
        /\ \/ main = "sleeping" /\ main' = "sleeping" /\ left' = left - 1
           \/ main = "waiting" /\ wg = 0 /\ main' = "returned" /\ left' = left
    BY <1>3 DEF Stress!Second, Stress!Wait
  <2>2. Alive' = Alive /\ Cores' = Cores
    BY <2>1 DEF Alive, Cores, Stress!Cores
  <2>3. Stress!TypeOK'
    BY <2>1 DEF StressInv, Stress!TypeOK
  <2>4. done => left' <= 0
    BY <2>1 DEF StressInv
  <2> QED
    BY <2>1, <2>2, <2>3, <2>4 DEF StressInv
<1>4. CASE Stress!CloseDone
  <2>1. /\ UNCHANGED <<spawned, core, wg, left>>
        /\ main = "sleeping" /\ main' = "waiting" /\ left <= 0
    BY <1>4 DEF Stress!CloseDone
  <2>2. done' = TRUE
    BY <1>4, Zenon DEF Stress!CloseDone
  <2>3. done' \in BOOLEAN
    BY <2>2, Zenon
  <2>4. Alive' = Alive /\ Cores' = Cores
    BY <2>1 DEF Alive, Cores, Stress!Cores
  <2>5. Stress!TypeOK'
    <3>1. main' \in {"spawning", "sleeping", "waiting", "returned"}
      BY <2>1
    <3>2. UNCHANGED Cores
      BY DEF Cores, Stress!Cores
    <3> QED
      BY <2>1, <2>3, <3>1, <3>2 DEF StressInv, Stress!TypeOK, Cores
  <2> QED
    BY <2>1, <2>2, <2>4, <2>5 DEF StressInv
<1> QED
  BY <1>1, <1>2, <1>3, <1>4 DEF Stress!Main

(* A goroutine starts, sees done closed, or is gone. *)
LEMMA CoreStep ==
    ASSUME StressInv, NEW c \in Cores, Stress!Core(c)
    PROVE  StressInv'
<1> core \in [Cores -> Phases] /\ spawned \in 0..NumCPU /\ wg \in 0..NumCPU
  BY DEF StressInv, Stress!TypeOK, Phases, Cores
<1>1. PICK to \in Phases \ {"none"} :
        /\ core' = [core EXCEPT ![c] = to] /\ UNCHANGED <<main, spawned, done, left>>
        /\ core[c] \in Lives
        /\ \/ to \in Lives /\ wg' = wg /\ (to \in {"ready", "burning"} \/ done)
           \/ to = "gone" /\ wg' = wg - 1 /\ core[c] = "leaving"
  BY DEF Stress!Core, Stress!Start, Stress!burnCore, Stress!Done, Stress!Goto,
         Stress!Closed, Phases, Lives
<1>2. core' \in [Cores -> Phases] /\ Cores' = Cores
  BY <1>1 DEF Cores, Stress!Cores
<1>3. wg' = Cardinality(Alive') /\ wg' \in 0..NumCPU
  <2>1. wg = Cardinality(Alive)
    BY DEF StressInv
  <2>2. to \in Phases /\ core' = [core EXCEPT ![c] = to] /\ core[c] \in Lives
    BY <1>1
  <2>3. CASE to \in Lives
    <3>1. Alive' = Alive
      BY <2>2, <2>3, CoreMoves
    <3> QED
      BY <1>1, <2>1, <2>3, <3>1 DEF Lives
  <2>4. CASE to \notin Lives
    <3>1. Cardinality(Alive') = Cardinality(Alive) - 1
      BY <2>2, <2>4, CoreMoves
    <3>2. Cardinality(Alive) # 0
      <4>1. c \in Alive
        BY <2>2 DEF Alive, Lives
      <4> QED
        BY <4>1, AliveFinite, FS_EmptySet
    <3> QED
      BY <1>1, <2>1, <2>4, <3>1, <3>2, AliveFinite, CPUAssumption
  <2> QED
    BY <2>3, <2>4
<1>4. Stress!TypeOK'
  BY <1>1, <1>2, <1>3 DEF StressInv, Stress!TypeOK, Cores, Phases
<1>5. \A d \in Cores : core'[d] # "none" <=> d <= spawned'
  <2>1. \A d \in Cores : core'[d] # "none" <=> core[d] # "none"
    BY <1>1 DEF Lives
  <2> QED
    BY <1>1, <2>1 DEF StressInv
<1>6. ~done' => \A d \in Cores : core'[d] \in {"none", "ready", "burning"}
  BY <1>1 DEF StressInv, Lives
<1>7. main # "returned"
  <2>1. c \in Alive
    BY <1>1 DEF Alive, Lives
  <2>2. Cardinality(Alive) # 0
    BY <2>1, AliveFinite, FS_EmptySet
  <2> QED
    BY <2>2 DEF StressInv
<1> QED
  BY <1>1, <1>2, <1>3, <1>4, <1>5, <1>6, <1>7 DEF StressInv

-----------------------------------------------------------------------------
(* Before the call. *)
LEMMA SwitchInvInit == Init => SwitchInv
<1> SUFFICES ASSUME Init PROVE SwitchInv
  OBVIOUS
<1>1. /\ call \in {"next", "is_power_of_two"} /\ n \in Values
      /\ count = 0 /\ candidate = 1 /\ i = 2 /\ result = 0
  BY DEF Init, Functions!Init
<1>2. isPrime \in BOOLEAN /\ verdict \in BOOLEAN
  BY Zenon DEF Init, Functions!Init
<1>3. n \in Int
  BY <1>1, ValuesAssumption
<1>4. LoopInv
  <2>1. Functions!TypeOK
    <3>1. count \in 0..(IF n > 0 THEN n ELSE 0)
      BY <1>1, <1>3
    <3> QED
      BY <1>1, <1>2, <3>1 DEF Functions!TypeOK
  <2>2. NthPrimeReturned
    BY <1>1 DEF NthPrimeReturned, Functions!NthPrimeReturned
  <2>3. count < n \/ (n <= 0 /\ candidate = 1)
    BY <1>1, <1>3
  <2> QED
    BY <1>1, <2>1, <2>2, <2>3, NoPrimeYet DEF LoopInv
<1>5. StressInv
  <2>1. /\ main = "spawning" /\ spawned = 0 /\ core = [c \in Cores |-> "none"] /\ wg = 0
        /\ left \in Int
    BY <1>3 DEF Init, Stress!Init, Cores
  <2>2. done \in BOOLEAN /\ ~done
    BY Zenon DEF Init, Stress!Init
  <2>3. Alive = {}
    BY <2>1 DEF Alive
  <2>4. \A c \in Cores : c > 0 /\ c \in Int
    BY DEF Cores, Stress!Cores
  <2>5. Stress!TypeOK
    BY <2>1, <2>2, CPUAssumption DEF Stress!TypeOK, Cores
  <2>6. \A c \in Cores : core[c] # "none" <=> c <= spawned
    BY <2>1, <2>4
  <2> QED
    BY <2>1, <2>2, <2>3, <2>5, <2>6, FS_EmptySet DEF StressInv
<1>6. type \in {"prime", "is_power_of_two", "stress_cpu"}
  BY DEF Init
<1> QED
  BY <1>4, <1>5, <1>6 DEF SwitchInv

(* A function that is not called stays as it is. *)
LEMMA OthersStay ==
    /\ LoopInv /\ UNCHANGED functionVars => LoopInv'
    /\ StressInv /\ UNCHANGED stressVars => StressInv'
<1>1. ASSUME LoopInv, UNCHANGED functionVars PROVE LoopInv'
  <2>1. UNCHANGED <<call, n, count, candidate, i, isPrime, result, verdict>>
    BY <1>1 DEF functionVars
  <2>2. Functions!TypeOK' /\ NthPrimeReturned'
    BY <1>1, <2>1 DEF LoopInv, Functions!TypeOK, NthPrimeReturned, Functions!NthPrimeReturned
  <2> QED
    BY <1>1, <2>1, <2>2 DEF LoopInv, PrimesUpTo, IsPrime, Functions!PrimesUpTo, Functions!IsPrime
<1>2. ASSUME StressInv, UNCHANGED stressVars PROVE StressInv'
  <2>1. UNCHANGED <<main, spawned, core, wg, done, left>>
    BY <1>2 DEF stressVars
  <2>2. Alive' = Alive /\ Cores' = Cores
    BY <2>1 DEF Alive, Cores, Stress!Cores
  <2>3. Stress!TypeOK'
    BY <1>2, <2>1 DEF StressInv, Stress!TypeOK
  <2> QED
    BY <1>2, <2>1, <2>2, <2>3 DEF StressInv
<1> QED
  BY <1>1, <1>2

(* The invariants of the functions hold throughout a call. *)
LEMMA SwitchInvHolds == Spec => []SwitchInv
<1>1. SwitchInv /\ [Next]_vars => SwitchInv'
  <2> SUFFICES ASSUME SwitchInv, [Next]_vars PROVE SwitchInv'
    OBVIOUS
  <2>1. LoopInv /\ StressInv /\ type \in {"prime", "is_power_of_two", "stress_cpu"}
    BY DEF SwitchInv
  <2>2. CASE Compute
    <3>1. Functions!Next /\ UNCHANGED <<type, stressVars>>
      BY <2>2 DEF Compute
    <3>2. LoopInv'
      BY <2>1, <3>1, NextCandidateStep, DivideStep, TestPowerStep
         DEF Functions!Next, Functions!FindNthPrime
    <3> QED
      BY <2>1, <3>1, <3>2, OthersStay DEF SwitchInv
  <2>3. CASE StressMain
    <3>1. Stress!Main /\ UNCHANGED <<type, functionVars>>
      BY <2>3 DEF StressMain
    <3> QED
      BY <2>1, <3>1, MainStep, OthersStay DEF SwitchInv
  <2>4. ASSUME NEW c \in Stress!Cores, StressCore(c) PROVE SwitchInv'
    <3>1. Stress!Core(c) /\ UNCHANGED <<type, functionVars>> /\ c \in Cores
      BY <2>4 DEF StressCore, Cores
    <3> QED
      BY <2>1, <3>1, CoreStep, OthersStay DEF SwitchInv
  <2>5. CASE UNCHANGED vars
    <3>1. type' = type /\ UNCHANGED functionVars /\ UNCHANGED stressVars
      BY <2>5 DEF vars
    <3> QED
      BY <2>1, <3>1, OthersStay DEF SwitchInv
  <2> QED
    BY <2>2, <2>3, <2>4, <2>5 DEF Next
<1> QED
  BY <1>1, SwitchInvInit, PTL DEF Spec

(* The locals of the functions keep their types, and FindNthPrime never    *)
(* counts more primes than it was asked for.                               *)
THEOREM FunctionTypes == Spec => []TypeOK
<1>1. SwitchInv => TypeOK
  BY DEF SwitchInv, LoopInv, StressInv, TypeOK
<1> QED
  BY <1>1, SwitchInvHolds, PTL

(* Whenever the outer loop looks at its condition, count is the number of  *)
(* primes up to candidate.                                                 *)
THEOREM PrimesAreCounted == Spec => []CountIsExact
<1>1. SwitchInv => CountIsExact
  BY SameCardinality DEF SwitchInv, LoopInv, CountIsExact, Functions!CountIsExact, PrimesUpTo
<1> QED
  BY <1>1, SwitchInvHolds, PTL

(* What FindNthPrime returns is the prime of the number asked for, and 1   *)
(* for a number that is not positive.                                      *)
THEOREM NthPrimeIsReturned == Spec => []NthPrimeReturned
<1>1. SwitchInv => NthPrimeReturned
  BY DEF SwitchInv, LoopInv
<1> QED
  BY <1>1, SwitchInvHolds, PTL

(* All cores burn until the time is over, and none is left burning when    *)
(* StressCPUAllCores returns.                                              *)
THEOREM CoresBurnThenStop == Spec => []BurnsThenStops
<1>1. SwitchInv => BurnsThenStops
  <2> SUFFICES ASSUME StressInv PROVE Stress!BurnsThenStops
    BY DEF SwitchInv, BurnsThenStops
  <2>1. ASSUME main = "returned", NEW c \in Cores PROVE core[c] = "gone"
    <3>1. Alive = {}
      BY <2>1, AliveFinite, FS_EmptySet DEF StressInv
    <3>2. core[c] \in Phases /\ core[c] \notin Lives
      BY <3>1 DEF StressInv, Stress!TypeOK, Alive, Lives, Phases, Cores
    <3>3. core[c] # "none"
      BY <2>1, CPUAssumption DEF StressInv, Cores, Stress!Cores
    <3> QED
      BY <3>2, <3>3 DEF Phases, Lives
  <2>2. main = "returned" => left <= 0
    BY DEF StressInv
  <2>3. ~done => \A c \in Cores : core[c] \in {"none", "ready", "burning"}
    BY DEF StressInv
  <2> QED
    BY <2>1, <2>2, <2>3 DEF Stress!BurnsThenStops, Cores
<1> QED
  BY <1>1, SwitchInvHolds, PTL

-----------------------------------------------------------------------------
(* IsPowerOfTwo *)

(* A non-empty set of numbers has a least one: what stands below for       *)
(* induction.                                                              *)
LEMMA Least ==
    ASSUME NEW T \in SUBSET Nat, T # {}
    PROVE  \E x \in T : \A y \in T : x <= y
<1> DEFINE R == {ss \in Nat \X Nat : ss[1] < ss[2]}
<1>1. IsWellFoundedOn(R, Nat)
  BY NatLessThanWellFounded DEF OpToRel
<1> HIDE DEF R
<1>2. PICK x \in T : \A y \in T : ~(<<y, x>> \in R)
  BY <1>1, WFMin
<1>3. \A y \in T : ~(y < x)
  BY <1>2 DEF R
<1> QED
  BY <1>3

(* The equation of Power, up to m. *)
Doubles(g, m) == g = [k \in 0..m |-> IF k = 0 THEN 1 ELSE 2 * g[k - 1]]

(* Power is a function that obeys its equation: there is one. *)
LEMMA PowerDef == Doubles(Power, Width)
<1> DEFINE Missing == {m \in Nat : ~ \E g : Doubles(g, m)}
<1>1. 0 \notin Missing
  <2>1. Doubles([k \in 0..0 |-> 1], 0)
    BY DEF Doubles
  <2> QED
    BY <2>1
<1>2. ASSUME NEW m \in Nat, m \notin Missing
      PROVE  m + 1 \notin Missing
  <2>1. PICK g : Doubles(g, m)
    BY <1>2
  <2> DEFINE h == [k \in 0..(m + 1) |-> IF k = 0 THEN 1 ELSE 2 * g[k - 1]]
  <2>2. \A k \in 0..m : h[k] = g[k]
    BY <2>1 DEF Doubles
  <2>3. ASSUME NEW k \in 0..(m + 1)
        PROVE  h[k] = IF k = 0 THEN 1 ELSE 2 * h[k - 1]
    <3>1. k # 0 => k - 1 \in 0..m
      OBVIOUS
    <3>2. h[k] = IF k = 0 THEN 1 ELSE 2 * g[k - 1]
      OBVIOUS
    <3> HIDE DEF h
    <3> QED
      BY <2>2, <3>1, <3>2
  <2>4. Doubles(h, m + 1)
    BY <2>3 DEF Doubles
  <2> QED
    BY <2>4
<1>3. Missing = {}
  <2>1. SUFFICES ASSUME Missing # {} PROVE FALSE
    OBVIOUS
  <2>2. PICK m \in Missing : \A l \in Missing : m <= l
    BY <2>1, Least
  <2>3. m \in Nat /\ m # 0
    BY <1>1
  <2> HIDE DEF Missing
  <2>4. m - 1 \in Nat /\ m - 1 \notin Missing
    BY <2>2, <2>3
  <2> QED
    BY <1>2, <2>2, <2>3, <2>4
<1>4. \E g : Doubles(g, Width)
  BY <1>3, WidthAssumption
<1> QED
  BY <1>4 DEF Power, Functions!Power, Doubles

(* The powers one after the other. *)
LEMMA Powers ==
    /\ Power[0] = 1
    /\ \A k \in 0..Width : Power[k] \in Nat \ {0}
    /\ \A k \in 0..(Width - 1) : Power[k + 1] = 2 * Power[k]
<1>1. \A k \in 0..Width : Power[k] = IF k = 0 THEN 1 ELSE 2 * Power[k - 1]
  BY PowerDef DEF Doubles
<1>2. Width \in Nat \ {0}
  BY WidthAssumption
<1>3. \A k \in 0..(Width - 1) : Power[k + 1] = 2 * Power[k]
  BY <1>1, <1>2
<1> DEFINE Wrong == {k \in 0..Width : Power[k] \notin Nat \ {0}}
<1>4. Wrong = {}
  <2>1. SUFFICES ASSUME Wrong # {} PROVE FALSE
    OBVIOUS
  <2>2. PICK k \in Wrong : \A l \in Wrong : k <= l
    <3>1. Wrong \in SUBSET Nat
      BY WidthAssumption
    <3> HIDE DEF Wrong
    <3> QED
      BY <2>1, <3>1, Least
  <2>3. k \in 0..Width /\ k # 0 /\ Power[k] = 2 * Power[k - 1]
    BY <1>1, <1>2
  <2>4. k - 1 \in 0..Width /\ k - 1 \notin Wrong
    <3> HIDE DEF Wrong
    <3> QED
      BY <1>2, <2>2, <2>3
  <2>5. Power[k - 1] \in Nat \ {0}
    BY <2>4
  <2> QED
    BY <2>3, <2>5
<1> QED
  BY <1>1, <1>2, <1>3, <1>4

(* A power is an even multiple of the smaller ones. *)
LEMMA EvenMultiple ==
    ASSUME NEW k \in 0..Width
    PROVE  \A h \in 0..Width : k < h => \E m \in Nat \ {0} : Power[h] = Power[k] * (2 * m)
<1> DEFINE Even(h) == \E m \in Nat \ {0} : Power[h] = Power[k] * (2 * m)
           Odd == {h \in 0..Width : k < h /\ ~Even(h)}
<1>1. Odd = {}
  <2>1. SUFFICES ASSUME Odd # {} PROVE FALSE
    OBVIOUS
  <2>2. PICK h \in Odd : \A l \in Odd : h <= l
    <3>1. Odd \in SUBSET Nat
      BY WidthAssumption
    <3> HIDE DEF Odd
    <3> QED
      BY <2>1, <3>1, Least
  <2>3. h \in 0..Width /\ h - 1 \in 0..(Width - 1) /\ k <= h - 1 /\ (h - 1) + 1 = h
    BY WidthAssumption
  <2>4. Power[h] = 2 * Power[h - 1]
    <3> HIDE DEF Odd
    <3> QED
      BY <2>3, Powers
  <2>5. Power[k] \in Nat \ {0}
    BY Powers
  <2>6. CASE h - 1 = k
    <3>1. Power[h] = Power[k] * (2 * 1)
      BY <2>4, <2>5, <2>6
    <3> QED
      BY <3>1
  <2>7. CASE k < h - 1
    <3>1. Even(h - 1)
      <4>1. h - 1 \notin Odd
        <5> HIDE DEF Odd
        <5> QED
          BY <2>2, <2>3, WidthAssumption
      <4>2. h - 1 \in 0..Width
        BY <2>3, WidthAssumption
      <4> QED
        BY <2>7, <4>1, <4>2
    <3>2. PICK m \in Nat \ {0} : Power[h - 1] = Power[k] * (2 * m)
      BY <3>1
    <3>3. Power[h] = Power[k] * (2 * (2 * m)) /\ 2 * m \in Nat \ {0}
      BY <2>4, <2>5, <3>2
    <3> QED
      BY <3>3
  <2> QED
    BY <2>3, <2>6, <2>7, WidthAssumption
<1> QED
  BY <1>1

(* The quotients that the bits are taken from. *)
LEMMA Quotients ==
    ASSUME NEW p \in Nat \ {0}, NEW m \in Nat
    PROVE  /\ (p * m) \div p = m
           /\ \A v \in Nat : v < p => v \div p = 0
           /\ \A v \in Nat : p <= v /\ v < 2 * p => v \div p = 1
<1>1. \A v \in Nat : v < p => v \div p = 0
  OBVIOUS
<1>2. \A v \in Nat : p <= v /\ v < 2 * p => v \div p = 1
  OBVIOUS
<1>3. (p * m) \div p = m
  OBVIOUS
<1> QED
  BY <1>1, <1>2, <1>3

(* A power has one bit, which the number before it does not have. *)
LEMMA PowerHasOneBit ==
    ASSUME NEW h \in 0..(Width - 1)
    PROVE  Bits(Power[h]) \cap Bits(Power[h] - 1) = {}
<1>1. SUFFICES ASSUME NEW k \in 0..(Width - 1), k \in Bits(Power[h]), k \in Bits(Power[h] - 1)
               PROVE  FALSE
  BY DEF Bits, Functions!Bits
<1>2. (Power[h] \div Power[k]) % 2 = 1 /\ ((Power[h] - 1) \div Power[k]) % 2 = 1
  BY <1>1 DEF Bits, Functions!Bits, Power
<1>3. h \in 0..Width /\ k \in 0..Width /\ Power[h] \in Nat \ {0} /\ Power[k] \in Nat \ {0}
  BY Powers, WidthAssumption
<1>4. CASE k < h
  <2>1. PICK m \in Nat \ {0} : Power[h] = Power[k] * (2 * m)
    BY <1>3, <1>4, EvenMultiple
  <2>2. 2 * m \in Nat
    OBVIOUS
  <2>3. (Power[k] * (2 * m)) \div Power[k] = 2 * m
    BY <1>3, <2>2, Quotients
  <2> QED
    BY <1>2, <2>1, <2>3
<1>5. CASE k = h
  <2>1. (Power[h] - 1) \div Power[h] = 0
    BY <1>3, Quotients
  <2> QED
    BY <1>2, <1>5, <2>1
<1>6. CASE h < k
  <2>1. PICK m \in Nat \ {0} : Power[k] = Power[h] * (2 * m)
    BY <1>3, <1>6, EvenMultiple
  <2>2. Power[h] < Power[k]
    BY <1>3, <2>1
  <2>3. Power[h] \div Power[k] = 0
    BY <1>3, <2>2, Quotients
  <2> QED
    BY <1>2, <2>3
<1> QED
  BY <1>3, <1>4, <1>5, <1>6, WidthAssumption

(* Another number has its highest bit in common with the one before it. *)
LEMMA HighestBitShared ==
    ASSUME NEW v \in Nat \ {0}, v < Power[Width], \A k \in 0..(Width - 1) : Power[k] # v
    PROVE  Bits(v) \cap Bits(v - 1) # {}
<1> DEFINE Above == {k \in 0..Width : v < Power[k]}
<1>1. Width \in Nat /\ Width \in Above
  BY WidthAssumption
<1>2. PICK m \in Above : \A k \in Above : m <= k
  <2>1. Above \in SUBSET Nat
    BY <1>1
  <2> HIDE DEF Above
  <2> QED
    BY <1>1, <2>1, Least
<1>3. m \in 0..Width /\ m # 0 /\ v < Power[m]
  BY Powers
<1> DEFINE h == m - 1
<1>4. h \in 0..(Width - 1) /\ h \in 0..Width /\ h + 1 = m /\ h < m
  BY <1>1, <1>3
<1>5. h \notin Above
  <2> HIDE DEF Above, h
  <2> QED
    BY <1>1, <1>2, <1>3, <1>4
<1>6. Power[h] \in Nat \ {0} /\ Power[m] = 2 * Power[h]
  <2> HIDE DEF Above, h
  <2> QED
    BY <1>4, Powers
<1>7. Power[h] <= v /\ Power[h] # v /\ v < 2 * Power[h]
  BY <1>3, <1>4, <1>5, <1>6
<1> HIDE DEF Above, h
<1>8. v \div Power[h] = 1 /\ (v - 1) \div Power[h] = 1
  BY <1>6, <1>7, Quotients
<1>9. h \in Bits(v) /\ h \in Bits(v - 1)
  BY <1>4, <1>8 DEF Bits, Functions!Bits, Power
<1> QED
  BY <1>9

(* n & (n - 1) is 0 for the powers of two among the positive numbers. *)
LEMMA PowerTest ==
    ASSUME NEW v \in Values
    PROVE  Functions!IsPowerOfTwo(v) <=> \E k \in 0..(Width - 1) : Power[k] = v
<1>1. v \in Int /\ v < Power[Width] /\ Width \in Nat
  BY ValuesAssumption, WidthAssumption DEF Power
<1>2. Functions!IsPowerOfTwo(v) <=> v > 0 /\ Bits(v) \cap Bits(v - 1) = {}
  BY DEF Functions!IsPowerOfTwo, Bits
<1>3. ASSUME NEW k \in 0..(Width - 1), Power[k] = v
      PROVE  Functions!IsPowerOfTwo(v)
  <2>1. v > 0
    BY <1>1, <1>3, Powers
  <2> QED
    BY <1>2, <1>3, <2>1, PowerHasOneBit
<1>4. ASSUME Functions!IsPowerOfTwo(v)
      PROVE  \E k \in 0..(Width - 1) : Power[k] = v
  BY <1>1, <1>2, <1>4, HighestBitShared
<1> QED
  BY <1>3, <1>4

(* What IsPowerOfTwo returned is so, whatever is called meanwhile. *)
LEMMA VerdictKept ==
    ASSUME SwitchInv, PowerOfTwoTold, [Next]_vars
    PROVE  PowerOfTwoTold'
<1> USE DEF PowerOfTwoTold, Functions!PowerOfTwoTold
<1>1. CASE UNCHANGED functionVars
  BY <1>1 DEF functionVars
<1>2. CASE Functions!NextCandidate \/ Functions!Divide
  BY <1>2 DEF Functions!NextCandidate, Functions!Divide
<1>3. CASE Functions!TestPower
  <2>1. n' = n /\ n \in Values /\ verdict' = Functions!IsPowerOfTwo(n)
    BY <1>3, Zenon DEF Functions!TestPower, SwitchInv, LoopInv, Functions!TypeOK
  <2> QED
    BY <2>1, PowerTest DEF Power
<1> QED
  BY <1>1, <1>2, <1>3 DEF Next, Compute, StressMain, StressCore, vars, Functions!Next,
                          Functions!FindNthPrime

(* IsPowerOfTwo tells of every int whether it is a power of two: n&(n-1)   *)
(* has no bit for those alone.                                             *)
THEOREM PowersOfTwoAreTold == Spec => []PowerOfTwoTold
<1>1. Init => PowerOfTwoTold
  BY DEF Init, Functions!Init, PowerOfTwoTold, Functions!PowerOfTwoTold
<1>2. PowerOfTwoTold /\ SwitchInv /\ [Next]_vars => PowerOfTwoTold'
  BY VerdictKept
<1> QED
  BY <1>1, <1>2, SwitchInvHolds, PTL DEF Spec
=============================================================================
