--------------------------- MODULE KubeLite_proofs ---------------------------
(***************************************************************************)
(* What the Redis list commands do to a list and to the set of its         *)
(* elements, and type correctness of the cluster, for any number of        *)
(* workers and tasks and any number of crashes, faults and scale-downs.    *)
(***************************************************************************)
EXTENDS Correctness, SequenceTheorems, FiniteSetTheorems, WellFoundedInduction,
        NaturalsInduction, TLAPS

-----------------------------------------------------------------------------
(* Lemmas on the list commands. *)

(* RPUSH adds its argument. *)
LEMMA AppendToSet ==
    ASSUME NEW S, NEW s \in Seq(S), NEW e \in S
    PROVE  /\ Append(s, e) \in Seq(S)
           /\ ToSet(Append(s, e)) = ToSet(s) \cup {e}
<1>1. Append(s, e) \in Seq(S)
  BY AppendProperties
<1>2. DOMAIN Append(s, e) = 1 .. Len(s) + 1 /\ DOMAIN s = 1 .. Len(s) /\ Len(s) \in Nat
  BY AppendProperties, LenProperties
<1>3. \A i \in 1 .. Len(s) : Append(s, e)[i] = s[i]
  BY AppendProperties
<1>4. Append(s, e)[Len(s) + 1] = e
  BY AppendProperties
<1>5. QED
  BY <1>1, <1>2, <1>3, <1>4 DEF ToSet

(* LPOP and BLPOP take the head out; a second copy of it may remain. *)
LEMMA HeadTailToSet ==
    ASSUME NEW S, NEW s \in Seq(S), s # <<>>
    PROVE  /\ Head(s) \in S
           /\ Tail(s) \in Seq(S)
           /\ ToSet(s) = {Head(s)} \cup ToSet(Tail(s))
<1>1. Head(s) \in S /\ Tail(s) \in Seq(S) /\ Len(Tail(s)) = Len(s) - 1
  BY HeadTailProperties
<1>2. \A i \in 1 .. Len(Tail(s)) : Tail(s)[i] = s[i + 1]
  BY HeadTailProperties
<1>3. Head(s) = s[1]
  BY HeadTailProperties
<1>4. Len(s) \in Nat /\ Len(s) > 0 /\ DOMAIN s = 1 .. Len(s) /\ DOMAIN Tail(s) = 1 .. Len(Tail(s))
  BY <1>1, LenProperties, EmptySeq
<1>5. ToSet(s) \subseteq {Head(s)} \cup ToSet(Tail(s))
  <2> SUFFICES ASSUME NEW i \in 1 .. Len(s) PROVE s[i] \in {Head(s)} \cup ToSet(Tail(s))
    BY <1>4 DEF ToSet
  <2>1. CASE i = 1
    BY <2>1, <1>3
  <2>2. CASE i # 1
    <3>1. i - 1 \in 1 .. Len(Tail(s)) /\ (i - 1) + 1 = i
      BY <2>2, <1>1, <1>4
    <3>2. Tail(s)[i - 1] = s[i]
      BY <3>1, <1>2
    <3>3. QED
      BY <3>1, <3>2, <1>4 DEF ToSet
  <2>3. QED
    BY <2>1, <2>2
<1>6. {Head(s)} \cup ToSet(Tail(s)) \subseteq ToSet(s)
  <2>1. Head(s) \in ToSet(s)
    BY <1>3, <1>4 DEF ToSet
  <2>2. ASSUME NEW i \in 1 .. Len(Tail(s)) PROVE Tail(s)[i] \in ToSet(s)
    <3>1. i + 1 \in 1 .. Len(s)
      BY <1>1, <1>4
    <3>2. QED
      BY <3>1, <1>2, <1>4 DEF ToSet
  <2>3. QED
    BY <2>1, <2>2, <1>4 DEF ToSet
<1>7. QED
  BY <1>1, <1>5, <1>6

(* The least element of a set of positions. *)
LEMMA MinMember ==
    ASSUME NEW I, I \subseteq Nat, I # {}
    PROVE  Min(I) \in I
<1> DEFINE R == {ss \in Nat \X Nat : ss[1] < ss[2]}
<1>1. OpToRel(<, Nat) = R
  BY Zenon DEF OpToRel
<1>2. IsWellFoundedOn(R, Nat)
  <2> HIDE DEF R
  <2>1. QED
    BY <1>1, NatLessThanWellFounded, Zenon
<1>3. \E x \in I : \A y \in I : ~ (<<y, x>> \in R)
  <2> HIDE DEF R
  <2>1. QED
    BY <1>2, WFMin, Zenon
<1>4. \E x \in I : \A y \in I : x =< y
  <2>1. PICK x \in I : \A y \in I : ~ (<<y, x>> \in R)
    BY <1>3
  <2>2. ASSUME NEW y \in I PROVE x =< y
    <3>1. ~ (y < x)
      <4>1. y < x => <<y, x>> \in R
        BY DEF R
      <4>2. QED
        BY <4>1, <2>1
    <3>2. QED
      BY <3>1
  <2>3. QED
    BY <2>2
<1>5. QED
  BY <1>4 DEF Min

(* Removing position k moves the later elements up by one. *)
LEMMA RemoveAtProperties ==
    ASSUME NEW S, NEW s \in Seq(S), NEW k \in 1 .. Len(s)
    PROVE  /\ RemoveAt(s, k) \in Seq(S)
           /\ Len(RemoveAt(s, k)) = Len(s) - 1
           /\ \A i \in 1 .. Len(s) - 1 :
                 RemoveAt(s, k)[i] = IF i < k THEN s[i] ELSE s[i + 1]
<1>1. Len(s) \in Nat /\ k \in Nat /\ 1 =< k /\ k =< Len(s)
  BY LenProperties
<1>2. \A i \in 1 .. Len(s) : s[i] \in S
  BY ElementOfSeq
<1> DEFINE l == SubSeq(s, 1, k - 1)
           r == SubSeq(s, k + 1, Len(s))
<1>3. /\ l \in Seq(S)
      /\ Len(l) = k - 1
      /\ \A i \in 1 .. k - 1 : l[i] = s[i]
  BY <1>1, <1>2, SubSeqProperties
<1>4. /\ r \in Seq(S)
      /\ Len(r) = Len(s) - k
      /\ \A i \in 1 .. Len(s) - k : r[i] = s[k + i]
  <2> DEFINE m == k + 1
             n == Len(s)
  <2>1. m \in Int /\ n \in Int /\ \A i \in m .. n : s[i] \in S
    BY <1>1, <1>2
  <2> HIDE DEF m, n
  <2>2. /\ SubSeq(s, m, n) \in Seq(S)
        /\ Len(SubSeq(s, m, n)) = IF m <= n THEN n - m + 1 ELSE 0
        /\ \A i \in 1 .. n - m + 1 : SubSeq(s, m, n)[i] = s[m + i - 1]
    BY <2>1, SubSeqProperties
  <2>3. n - m + 1 = Len(s) - k /\ (m <= n <=> k < Len(s))
    BY <1>1 DEF m, n
  <2>4. \A i \in 1 .. Len(s) - k : m + i - 1 = k + i
    BY <1>1 DEF m
  <2>5. r = SubSeq(s, m, n)
    BY DEF m, n
  <2> HIDE DEF r
  <2>6. Len(r) = Len(s) - k
    BY <1>1, <2>2, <2>3, <2>5
  <2>7. QED
    BY <2>2, <2>3, <2>4, <2>5, <2>6
<1> HIDE DEF l, r
<1>5. /\ l \o r \in Seq(S)
      /\ Len(l \o r) = Len(l) + Len(r)
      /\ \A i \in 1 .. Len(l) + Len(r) :
            (l \o r)[i] = IF i =< Len(l) THEN l[i] ELSE r[i - Len(l)]
  BY <1>3, <1>4, ConcatProperties
<1>6. RemoveAt(s, k) = l \o r
  BY DEF RemoveAt, l, r
<1>7. Len(l) + Len(r) = Len(s) - 1
  BY <1>1, <1>3, <1>4
<1>8. ASSUME NEW i \in 1 .. Len(s) - 1
      PROVE  (l \o r)[i] = IF i < k THEN s[i] ELSE s[i + 1]
  <2>1. CASE i < k
    <3>1. i \in 1 .. k - 1 /\ i \in 1 .. Len(l) + Len(r) /\ i =< Len(l)
      BY <2>1, <1>1, <1>3, <1>7
    <3>2. QED
      BY <3>1, <2>1, <1>3, <1>5
  <2>2. CASE ~ (i < k)
    <3>1. /\ i - (k - 1) \in 1 .. Len(s) - k
          /\ i \in 1 .. Len(l) + Len(r)
          /\ ~ (i =< k - 1)
          /\ k + (i - (k - 1)) = i + 1
      BY <2>2, <1>1, <1>7
    <3>2. (l \o r)[i] = r[i - (k - 1)]
      BY <3>1, <1>3, <1>5
    <3>3. r[i - (k - 1)] = s[k + (i - (k - 1))]
      BY <3>1, <1>4
    <3>4. QED
      BY <3>1, <3>2, <3>3, <2>2
  <2>3. QED
    BY <2>1, <2>2
<1>9. QED
  BY <1>5, <1>6, <1>7, <1>8

(* LREM with count 1 takes out at most one element, and only of that value. *)
LEMMA RemoveFirstToSet ==
    ASSUME NEW S, NEW s \in Seq(S), NEW e
    PROVE  /\ RemoveFirst(s, e) \in Seq(S)
           /\ ToSet(RemoveFirst(s, e)) \subseteq ToSet(s)
           /\ ToSet(s) \ {e} \subseteq ToSet(RemoveFirst(s, e))
<1>1. CASE ~ \E i \in 1 .. Len(s) : s[i] = e
  <2>1. RemoveFirst(s, e) = s
    BY <1>1 DEF RemoveFirst
  <2>2. QED
    BY <2>1
<1>2. CASE \E i \in 1 .. Len(s) : s[i] = e
  <2> DEFINE I == {i \in 1 .. Len(s) : s[i] = e}
             k == Min(I)
             t == RemoveAt(s, k)
  <2>1. Len(s) \in Nat /\ DOMAIN s = 1 .. Len(s)
    BY LenProperties
  <2>2. I # {} /\ I \subseteq Nat
    BY <1>2, <2>1
  <2>3. RemoveFirst(s, e) = t
    BY <1>2, <2>2 DEF RemoveFirst, SelectInSeq
  <2>4. k \in I
    BY <2>2, MinMember
  <2> HIDE DEF k
  <2>5. k \in 1 .. Len(s) /\ s[k] = e
    BY <2>4
  <2>6. /\ t \in Seq(S)
        /\ Len(t) = Len(s) - 1
        /\ \A i \in 1 .. Len(s) - 1 : t[i] = IF i < k THEN s[i] ELSE s[i + 1]
    BY <2>5, RemoveAtProperties
  <2> HIDE DEF t
  <2>7. DOMAIN t = 1 .. Len(s) - 1
    BY <2>6, LenProperties
  <2>8. ASSUME NEW i \in 1 .. Len(s) - 1
        PROVE  t[i] \in ToSet(s)
    <3>1. i \in DOMAIN s /\ i + 1 \in DOMAIN s
      BY <2>1
    <3>2. QED
      BY <3>1, <2>6 DEF ToSet
  <2>9. ASSUME NEW i \in 1 .. Len(s), s[i] # e
        PROVE  s[i] \in ToSet(t)
    <3>1. CASE i < k
      <4>1. i \in 1 .. Len(s) - 1 /\ t[i] = s[i]
        BY <3>1, <2>1, <2>5, <2>6
      <4>2. QED
        BY <4>1, <2>7 DEF ToSet
    <3>2. CASE k < i
      <4>1. i - 1 \in 1 .. Len(s) - 1 /\ ~ (i - 1 < k) /\ (i - 1) + 1 = i
        BY <3>2, <2>1, <2>5
      <4>2. t[i - 1] = s[i]
        BY <4>1, <2>6
      <4>3. QED
        BY <4>1, <4>2, <2>7 DEF ToSet
    <3>3. QED
      BY <3>1, <3>2, <2>1, <2>5, <2>9
  <2>10. ToSet(t) \subseteq ToSet(s)
    BY <2>7, <2>8 DEF ToSet
  <2>11. ToSet(s) \ {e} \subseteq ToSet(t)
    BY <2>1, <2>9 DEF ToSet
  <2>12. QED
    BY <2>3, <2>6, <2>10, <2>11
<1>3. QED
  BY <1>1, <1>2

(* The empty list has no elements. *)
LEMMA EmptyToSet == ToSet(<<>>) = {}
BY DEF ToSet

-----------------------------------------------------------------------------
(* A list without repetitions keeps none if its head goes, *)
LEMMA HeadTailNoRepeats ==
    ASSUME NEW S, NEW s \in Seq(S), s # <<>>, IsInjective(s)
    PROVE  /\ IsInjective(Tail(s))
           /\ ToSet(Tail(s)) = ToSet(s) \ {Head(s)}
<1>1. /\ Tail(s) \in Seq(S) /\ Len(Tail(s)) = Len(s) - 1
      /\ \A i \in 1 .. Len(Tail(s)) : Tail(s)[i] = s[i + 1]
      /\ Head(s) = s[1]
  BY HeadTailProperties
<1>2. /\ Len(s) \in Nat /\ Len(s) > 0 /\ DOMAIN s = 1 .. Len(s)
      /\ DOMAIN Tail(s) = 1 .. Len(s) - 1
  BY <1>1, LenProperties, EmptySeq
<1>3. \A i \in 1 .. Len(s) - 1 : i + 1 \in DOMAIN s /\ 1 \in DOMAIN s /\ i + 1 # 1
  BY <1>2
<1>4. \A i, j \in DOMAIN s : s[i] = s[j] => i = j
  BY DEF IsInjective
<1>5. IsInjective(Tail(s))
  BY <1>1, <1>2, <1>3, <1>4 DEF IsInjective
<1>6. Head(s) \notin ToSet(Tail(s))
  BY <1>1, <1>2, <1>3, <1>4 DEF ToSet
<1> QED
  BY <1>5, <1>6, HeadTailToSet

(* if an element it lacks is added, *)
LEMMA AppendNoRepeats ==
    ASSUME NEW S, NEW s \in Seq(S), NEW e \in S, IsInjective(s), e \notin ToSet(s)
    PROVE  IsInjective(Append(s, e))
<1> DEFINE a == Append(s, e)
<1>1. a \in Seq(S) /\ Len(a) = Len(s) + 1
  BY AppendProperties
<1>2. \A i \in 1 .. Len(s) : a[i] = s[i]
  BY AppendProperties
<1>3. a[Len(s) + 1] = e
  BY AppendProperties
<1>4. IsInjective(a)
  <2> HIDE DEF a
  <2>1. DOMAIN a = 1 .. Len(s) + 1 /\ DOMAIN s = 1 .. Len(s) /\ Len(s) \in Nat
    BY <1>1, LenProperties
  <2>2. \A i \in 1 .. Len(s) : s[i] # e
    BY <2>1 DEF ToSet
  <2>3. \A i, j \in 1 .. Len(s) : s[i] = s[j] => i = j
    BY <2>1 DEF IsInjective
  <2> QED
    BY <2>1, <2>2, <2>3, <1>2, <1>3 DEF IsInjective
<1>5. QED
  BY <1>4

(* or if one of its elements is removed, which is then gone for good. *)
LEMMA RemoveFirstNoRepeats ==
    ASSUME NEW S, NEW s \in Seq(S), NEW e, IsInjective(s)
    PROVE  /\ IsInjective(RemoveFirst(s, e))
           /\ ToSet(RemoveFirst(s, e)) = ToSet(s) \ {e}
<1>1. CASE ~ \E i \in 1 .. Len(s) : s[i] = e
  <2>1. RemoveFirst(s, e) = s
    BY <1>1 DEF RemoveFirst
  <2>2. DOMAIN s = 1 .. Len(s)
    BY LenProperties
  <2> QED
    BY <1>1, <2>1, <2>2 DEF ToSet
<1>2. CASE \E i \in 1 .. Len(s) : s[i] = e
  <2> DEFINE I == {i \in 1 .. Len(s) : s[i] = e}
             k == Min(I)
             t == RemoveAt(s, k)
  <2>1. Len(s) \in Nat /\ DOMAIN s = 1 .. Len(s)
    BY LenProperties
  <2>2. I # {} /\ I \subseteq Nat
    BY <1>2, <2>1
  <2>3. RemoveFirst(s, e) = t
    BY <1>2, <2>2 DEF RemoveFirst, SelectInSeq
  <2>4. k \in I
    BY <2>2, MinMember
  <2> HIDE DEF k
  <2>5. k \in 1 .. Len(s) /\ s[k] = e
    BY <2>4
  <2>6. /\ t \in Seq(S)
        /\ Len(t) = Len(s) - 1
        /\ \A i \in 1 .. Len(s) - 1 : t[i] = IF i < k THEN s[i] ELSE s[i + 1]
    BY <2>5, RemoveAtProperties
  <2> HIDE DEF t
  <2>7. DOMAIN t = 1 .. Len(s) - 1
    BY <2>6, LenProperties
  <2>8. \A i, j \in DOMAIN s : s[i] = s[j] => i = j
    BY DEF IsInjective
  <2> DEFINE from(i) == IF i < k THEN i ELSE i + 1
  <2>9. \A i \in DOMAIN t : t[i] = s[from(i)] /\ from(i) \in DOMAIN s /\ from(i) # k
    BY <2>1, <2>5, <2>6, <2>7
  <2>10. \A i, j \in DOMAIN t : from(i) = from(j) => i = j
    BY <2>5, <2>7
  <2> HIDE DEF from
  <2>11. IsInjective(t)
    BY <2>8, <2>9, <2>10 DEF IsInjective
  <2>12. e \notin ToSet(t)
    BY <2>1, <2>5, <2>8, <2>9 DEF ToSet
  <2> QED
    BY <2>3, <2>11, <2>12, RemoveFirstToSet
<1> QED
  BY <1>1, <1>2

(* Two lists without a common element, one behind the other. *)
LEMMA ConcatNoRepeats ==
    ASSUME NEW S, NEW s \in Seq(S), NEW r \in Seq(S), IsInjective(s), IsInjective(r),
           ToSet(s) \cap ToSet(r) = {}
    PROVE  /\ s \o r \in Seq(S)
           /\ IsInjective(s \o r)
           /\ ToSet(s \o r) = ToSet(s) \cup ToSet(r)
<1> DEFINE c == s \o r
<1>1. /\ c \in Seq(S) /\ Len(c) = Len(s) + Len(r)
      /\ \A i \in 1 .. Len(s) + Len(r) : c[i] = IF i <= Len(s) THEN s[i] ELSE r[i - Len(s)]
  BY ConcatProperties
<1> HIDE DEF c
<1>2. /\ Len(s) \in Nat /\ Len(r) \in Nat
      /\ DOMAIN s = 1 .. Len(s) /\ DOMAIN r = 1 .. Len(r) /\ DOMAIN c = 1 .. Len(s) + Len(r)
  BY <1>1, LenProperties
<1>3. \A i \in DOMAIN c : \/ i \in DOMAIN s /\ c[i] = s[i]
                          \/ /\ i - Len(s) \in DOMAIN r /\ i \notin DOMAIN s
                             /\ c[i] = r[i - Len(s)]
  BY <1>1, <1>2
<1>4. \A i \in DOMAIN s : i \in DOMAIN c /\ c[i] = s[i]
  BY <1>1, <1>2
<1>5. \A i \in DOMAIN r : i + Len(s) \in DOMAIN c /\ c[i + Len(s)] = r[i]
  BY <1>1, <1>2
<1>6. \A i \in DOMAIN s, j \in DOMAIN r : s[i] # r[j]
  BY DEF ToSet
<1>7. IsInjective(c)
  <2>1. SUFFICES ASSUME NEW i \in DOMAIN c, NEW j \in DOMAIN c, c[i] = c[j]
                 PROVE  i = j
    BY DEF IsInjective
  <2>2. CASE i \in DOMAIN s /\ j \in DOMAIN s
    BY <2>1, <2>2, <1>4 DEF IsInjective
  <2>3. CASE i \notin DOMAIN s /\ j \notin DOMAIN s
    <3>1. i - Len(s) = j - Len(s)
      BY <2>1, <2>3, <1>3 DEF IsInjective
    <3> QED
      BY <3>1, <1>2
  <2>4. CASE ~ (i \in DOMAIN s <=> j \in DOMAIN s)
    BY <2>1, <2>4, <1>3, <1>6
  <2> QED
    BY <2>2, <2>3, <2>4
<1>8. ToSet(c) = ToSet(s) \cup ToSet(r)
  <2>1. ToSet(c) \subseteq ToSet(s) \cup ToSet(r)
    BY <1>3 DEF ToSet
  <2>2. ToSet(s) \subseteq ToSet(c)
    BY <1>4 DEF ToSet
  <2>3. ToSet(r) \subseteq ToSet(c)
    BY <1>5 DEF ToSet
  <2> QED
    BY <2>1, <2>2, <2>3
<1> QED
  BY <1>1, <1>7, <1>8 DEF c

-----------------------------------------------------------------------------
(* Lemmas on the state. *)

(* A worker registers TaskPairs and nothing else. *)
LEMMA PairType == \A w \in Workers, t \in Tasks : Pair(w, t) \in TaskPair
BY DEF Pair, TaskPair

(* What the sweep finds in an entry of processing_queue. *)
LEMMA PairFields ==
    ASSUME NEW p \in TaskPair
    PROVE  p.first \in Workers /\ p.second \in Tasks
BY DEF TaskPair

(* A busy worker holds a task. *)
LEMMA BusyHolds ==
    ASSUME TypeOK, NEW w \in Workers, Busy(w)
    PROVE  holding[w] \in Tasks
BY DEF TypeOK, WorkerTypeOK

(* len(currentWorkers) is a number. *)
LEMMA KnownFinite ==
    ASSUME TypeOK
    PROVE  Cardinality(known) \in Nat
BY WorkersAssumption, FS_Subset, FS_CardinalityType DEF TypeOK, OrchestratorTypeOK

-----------------------------------------------------------------------------
(* One lemma per component: its steps keep TypeOK. *)

(* The handlers' steps. *)
LEMMA HandlerType ==
    ASSUME TypeOK, NEW t \in Tasks,
           \/ IncrementRequestCount(t) \/ AcceptRequest(t) \/ RefuseRequest(t)
           \/ CountLost(t) \/ PushFails(t)
    PROVE  StoreTypeOK' /\ ControllerTypeOK'
<1> USE DEF TypeOK, StoreTypeOK, ControllerTypeOK, Answer, storeVars, lists, counters, history
<1>1. Append(task_queue, t) \in Seq(Tasks)
  BY AppendToSet
<1>2. CASE IncrementRequestCount(t)
  BY <1>2 DEF IncrementRequestCount
<1>3. CASE AcceptRequest(t)
  BY <1>1, <1>3 DEF AcceptRequest
<1>4. CASE RefuseRequest(t)
  BY <1>4 DEF RefuseRequest
<1>5. CASE CountLost(t)
  BY <1>5 DEF CountLost
<1>6. CASE PushFails(t)
  BY <1>1, <1>6 DEF PushFails
<1>7. QED
  BY <1>2, <1>3, <1>4, <1>5, <1>6

(* A process that ends. *)
LEMMA HaltType ==
    ASSUME WorkerTypeOK, NEW w \in Workers, Halt(w)
    PROVE  WorkerTypeOK'
BY DEF WorkerTypeOK, Halt, Goto, Busy

(* A container that was not running starts. *)
LEMMA BootType ==
    ASSUME WorkerTypeOK, NEW w \in Workers, container[w] # "running", Boot(w)
    PROVE  WorkerTypeOK'
BY DEF WorkerTypeOK, Boot, Goto, Busy

(* The end of a round of the polling loop. *)
LEMMA EndTaskType ==
    ASSUME WorkerTypeOK, NEW w \in Workers, phase[w] # "off", EndTask(w)
    PROVE  WorkerTypeOK'
<1>1. CASE ShuttingDown(w) /\ Halt(w)
  BY <1>1, HaltType
<1>2. CASE ~ (ShuttingDown(w) /\ Halt(w))
  <2>1. /\ phase' = [phase EXCEPT ![w] = "polling"]
        /\ holding' = [holding EXCEPT ![w] = None]
        /\ registered' = [registered EXCEPT ![w] = FALSE]
        /\ UNCHANGED <<container, signal>>
    BY <1>2 DEF EndTask, Goto
  <2>2. /\ phase' \in [Workers -> {"off", "polling", "popped", "running", "acking"}]
        /\ holding' \in [Workers -> Tasks \cup {None}]
        /\ registered' \in [Workers -> BOOLEAN]
    BY <2>1 DEF WorkerTypeOK
  <2>3. /\ phase'[w] = "polling" /\ holding'[w] = None /\ ~registered'[w]
        /\ phase'[w] = "off" <=> container'[w] # "running"
    BY <2>1 DEF WorkerTypeOK
  <2>4. \A v \in Workers \ {w} :
          phase'[v] = phase[v] /\ holding'[v] = holding[v] /\ registered'[v] = registered[v]
    BY <2>1 DEF WorkerTypeOK
  <2> QED
    BY <2>1, <2>2, <2>3, <2>4 DEF WorkerTypeOK, Busy
<1>3. QED
  BY <1>1, <1>2

(* A kill: the task lost with the process was a task. *)
LEMMA DieType ==
    ASSUME TypeOK, NEW w \in Workers, Die(w)
    PROVE  StoreTypeOK' /\ WorkerTypeOK'
<1>1. WorkerTypeOK'
  BY HaltType DEF Die, TypeOK
<1>2. StoreTypeOK'
  <2>1. CASE phase[w] \in {"popped", "running"} /\ ~registered[w]
    <3>1. holding[w] \in Tasks
      BY <2>1, BusyHolds DEF Busy
    <3>2. QED
      BY <2>1, <3>1 DEF Die, Drop, TypeOK, StoreTypeOK, lists, counters
  <2>2. CASE ~ (phase[w] \in {"popped", "running"} /\ ~registered[w])
    BY <2>2 DEF Die, TypeOK, StoreTypeOK, lists, counters
  <2>3. QED
    BY <2>1, <2>2
<1>3. QED
  BY <1>1, <1>2

(* The steps of a worker's polling loop and of its signal goroutine. *)
LEMMA WorkerType ==
    ASSUME TypeOK, NEW w \in Workers,
           \/ BLPop(w) \/ PollCancelled(w) \/ Register(w) \/ Finish(w) \/ Ack(w)
           \/ StoreFlag(w) \/ Cancel(w)
    PROVE  StoreTypeOK' /\ WorkerTypeOK'
<1> USE DEF TypeOK, storeVars, lists, counters, history
<1>1. CASE BLPop(w)
  <2>1. Head(task_queue) \in Tasks /\ Tail(task_queue) \in Seq(Tasks)
    BY <1>1, HeadTailToSet DEF BLPop, StoreTypeOK
  <2>2. StoreTypeOK'
    BY <1>1, <2>1 DEF BLPop, StoreTypeOK
  <2>3. WorkerTypeOK'
    BY <1>1, <2>1, NoneAssumption DEF BLPop, Goto, Busy, WorkerTypeOK
  <2>4. QED
    BY <2>2, <2>3
<1>2. CASE PollCancelled(w)
  BY <1>2, HaltType DEF PollCancelled, StoreTypeOK
<1>3. CASE Register(w)
  <2>1. holding[w] \in Tasks
    BY <1>3, BusyHolds DEF Register, Busy
  <2>2. processing_queue' \in Seq(TaskPair)
    BY <1>3, <2>1, PairType, AppendToSet DEF Register, StoreTypeOK
  <2>3. StoreTypeOK'
    BY <1>3, <2>1, <2>2 DEF Register, Dispatch, Runnable, StoreTypeOK
  <2>4. WorkerTypeOK'
    BY <1>3 DEF Register, Dispatch, Selected, Goto, Busy, WorkerTypeOK
  <2>5. QED
    BY <2>3, <2>4
<1>4. CASE Finish(w)
  <2>1. holding[w] \in Tasks
    BY <1>4, BusyHolds DEF Finish, Busy
  <2>2. StoreTypeOK'
    BY <1>4, <2>1 DEF Finish, StoreTypeOK
  <2>3. WorkerTypeOK'
    BY <1>4 DEF Finish, Goto, Busy, WorkerTypeOK
  <2>4. QED
    BY <2>2, <2>3
<1>5. CASE Ack(w)
  <2>1. processing_queue' \in Seq(TaskPair)
    BY <1>5, RemoveFirstToSet DEF Ack, LRem, StoreTypeOK
  <2>2. QED
    BY <1>5, <2>1, EndTaskType DEF Ack, StoreTypeOK
<1>6. CASE StoreFlag(w)
  BY <1>6 DEF StoreFlag, StoreTypeOK, WorkerTypeOK, Busy
<1>7. CASE Cancel(w)
  BY <1>7 DEF Cancel, StoreTypeOK, WorkerTypeOK, Busy
<1>8. QED
  BY <1>1, <1>2, <1>3, <1>4, <1>5, <1>6, <1>7

(* The same steps when their Redis call fails. *)
LEMMA WorkerFaultType ==
    ASSUME TypeOK, NEW w \in Workers,
           PollFails(w) \/ RegisterFails(w) \/ IncrFails(w) \/ AckFails(w)
    PROVE  StoreTypeOK' /\ WorkerTypeOK'
<1> USE DEF TypeOK, storeVars, lists, counters, history
<1>1. CASE PollFails(w)
  <2>1. task_queue # <<>> =>
          Head(task_queue) \in Tasks /\ Tail(task_queue) \in Seq(Tasks)
    BY HeadTailToSet DEF StoreTypeOK
  <2>2. StoreTypeOK'
    BY <1>1, <2>1 DEF PollFails, Drop, StoreTypeOK
  <2>3. QED
    BY <1>1, <2>2, EndTaskType DEF PollFails
<1>2. CASE RegisterFails(w)
  <2>1. holding[w] \in Tasks
    BY <1>2, BusyHolds DEF RegisterFails, Busy
  <2>2. StoreTypeOK'
    BY <1>2, <2>1 DEF RegisterFails, Dispatch, Runnable, StoreTypeOK
  <2>3. WorkerTypeOK'
    BY <1>2 DEF RegisterFails, Dispatch, Selected, Goto, Busy, WorkerTypeOK
  <2>4. QED
    BY <2>2, <2>3
<1>3. CASE IncrFails(w)
  <2>1. holding[w] \in Tasks
    BY <1>3, BusyHolds DEF IncrFails, Busy
  <2>2. StoreTypeOK'
    BY <1>3, <2>1 DEF IncrFails, StoreTypeOK
  <2>3. WorkerTypeOK'
    BY <1>3 DEF IncrFails, Goto, Busy, WorkerTypeOK
  <2>4. QED
    BY <2>2, <2>3
<1>4. CASE AckFails(w)
  BY <1>4, EndTaskType DEF AckFails, StoreTypeOK
<1>5. QED
  BY <1>1, <1>2, <1>3, <1>4

(* The steps of the sweep.  What it has in hand came from a list of pairs. *)
LEMMA SweepType ==
    ASSUME TypeOK,
           \/ SweepPop \/ SweepEmpty \/ SweepKeep \/ SweepRequeue \/ SweepRestore \/ SweepEnd
           \/ SweepPopFails \/ SweepRouteFails \/ SweepRestoreFails
    PROVE  StoreTypeOK' /\ OrchestratorTypeOK' /\ UNCHANGED workerVars
<1> USE DEF TypeOK, storeVars, lists, counters, history, orchestratorVars, scaling,
            StoreTypeOK, OrchestratorTypeOK, Stages
<1>1. processing_queue # <<>> =>
        Head(processing_queue) \in TaskPair /\ Tail(processing_queue) \in Seq(TaskPair)
  BY HeadTailToSet
<1>2. temp_queue # <<>> =>
        Head(temp_queue) \in TaskPair /\ Tail(temp_queue) \in Seq(TaskPair)
  BY HeadTailToSet
<1>3. stage = "routing" => hand \in TaskPair /\ hand.second \in Tasks
  BY PairFields
<1>4. CASE SweepPop
  <2>1. Head(processing_queue) # None
    BY <1>1, <1>4, NoneAssumption DEF SweepPop, TaskPair
  <2>2. QED
    BY <1>1, <1>4, <2>1 DEF SweepPop
<1>5. CASE SweepEmpty
  BY <1>5 DEF SweepEmpty, SecondLoop
<1>6. CASE SweepKeep
  <2>1. temp_queue' \in Seq(TaskPair)
    BY <1>3, <1>6, AppendToSet DEF SweepKeep, Parked, Routed
  <2>2. QED
    BY <1>6, <2>1 DEF SweepKeep, Routed
<1>7. CASE SweepRequeue
  <2>1. task_queue' \in Seq(Tasks)
    BY <1>3, <1>7, AppendToSet DEF SweepRequeue, GivenBack, Routed
  <2>2. QED
    BY <1>7, <2>1 DEF SweepRequeue, Routed
<1>8. CASE SweepRestore
  <2>1. processing_queue' \in Seq(TaskPair)
    BY <1>2, <1>8, AppendToSet DEF SweepRestore
  <2>2. QED
    BY <1>2, <1>8, <2>1 DEF SweepRestore, Moved
<1>9. CASE SweepEnd
  BY <1>9 DEF SweepEnd
<1>10. CASE SweepPopFails
  <2>1. processing_queue # <<>> => Head(processing_queue).second \in Tasks
    BY <1>1, PairFields
  <2>2. QED
    BY <1>1, <1>10, <2>1 DEF SweepPopFails, Drop
<1>11. CASE SweepRouteFails
  BY <1>3, <1>11 DEF SweepRouteFails, Routed, Drop
<1>12. CASE SweepRestoreFails
  BY <1>12 DEF SweepRestoreFails
<1>13. QED
  BY <1>4, <1>5, <1>6, <1>7, <1>8, <1>9, <1>10, <1>11, <1>12

(* The tick and the decision. *)
LEMMA DecideType ==
    ASSUME TypeOK, Tick \/ ScaleUp \/ ScaleDown \/ TickAborted \/ ScaleFails
    PROVE  StoreTypeOK' /\ OrchestratorTypeOK' /\ UNCHANGED workerVars
<1> USE DEF TypeOK, storeVars, lists, counters, history, scaling,
            StoreTypeOK, OrchestratorTypeOK, Stages
<1>1. CASE Tick
  BY <1>1 DEF Tick, GetWorkerContainers, Running
<1>2. Decisions(SystemCap) \subseteq Nat
  BY OrchestratorAssumption DEF Decisions
<1>3. CASE ScaleUp
  BY <1>2, <1>3, KnownFinite DEF ScaleUp, Missing
<1>4. CASE ScaleDown
  BY <1>2, <1>4, KnownFinite DEF ScaleDown, Running
<1>5. CASE TickAborted
  BY <1>5 DEF TickAborted
<1>6. CASE ScaleFails
  BY <1>2, <1>6 DEF ScaleFails
<1>7. QED
  BY <1>1, <1>3, <1>4, <1>5, <1>6

(* Generate. *)
LEMMA GenerateType ==
    ASSUME TypeOK, GenerateStep \/ GenerateFails
    PROVE  StoreTypeOK' /\ OrchestratorTypeOK' /\ WorkerTypeOK'
<1> USE DEF TypeOK, storeVars, lists, counters, history, scaling,
            StoreTypeOK, OrchestratorTypeOK, Stages
<1>1. ASSUME NEW w \in Workers, Generate(w)
      PROVE  StoreTypeOK' /\ OrchestratorTypeOK' /\ WorkerTypeOK'
  <2>1. WorkerTypeOK'
    BY <1>1, BootType DEF Generate, Fresh
  <2>2. QED
    BY <1>1, <2>1 DEF Generate
<1>2. CASE GenerateNoID
  BY <1>2 DEF GenerateNoID, workerVars, WorkerTypeOK, Busy
<1>3. CASE GenerateEnd
  BY <1>3 DEF GenerateEnd, workerVars, WorkerTypeOK, Busy
<1>4. CASE GenerateFails
  BY <1>4 DEF GenerateFails, workerVars, WorkerTypeOK, Busy
<1>5. QED
  BY <1>1, <1>2, <1>3, <1>4 DEF GenerateStep

(* Destroy. *)
LEMMA DestroyType ==
    ASSUME TypeOK,
           DestroyStep \/ StopFails \/ RemoveFails \/ (\E w \in Workers : StatsFail(w))
    PROVE  StoreTypeOK' /\ OrchestratorTypeOK' /\ WorkerTypeOK'
<1> USE DEF storeVars, lists, counters, history, scaling
<1>1. ASSUME NEW w \in Workers, Skip(w) \/ Choose(w) \/ StatsFail(w)
      PROVE  StoreTypeOK' /\ OrchestratorTypeOK' /\ WorkerTypeOK'
  <2>1. StoreTypeOK' /\ WorkerTypeOK'
    BY <1>1 DEF Skip, Choose, StatsFail, Look, workerVars, TypeOK, StoreTypeOK, WorkerTypeOK, Busy
  <2>2. OrchestratorTypeOK'
    BY <1>1, NoneAssumption DEF Skip, Choose, StatsFail, Look, TypeOK, OrchestratorTypeOK, Stages
  <2>3. QED
    BY <2>1, <2>2
<1>2. ASSUME NextPass \/ DestroyEnd
      PROVE  StoreTypeOK' /\ OrchestratorTypeOK' /\ WorkerTypeOK'
  BY <1>2 DEF NextPass, DestroyEnd, workerVars, TypeOK, StoreTypeOK, WorkerTypeOK, Busy,
              OrchestratorTypeOK, Stages
<1>3. CASE StopSignal
  <2>1. StoreTypeOK' /\ OrchestratorTypeOK'
    BY <1>3 DEF StopSignal, TypeOK, StoreTypeOK, OrchestratorTypeOK, Stages
  <2>2. WorkerTypeOK'
    BY <1>3 DEF StopSignal, TypeOK, WorkerTypeOK, Busy, OrchestratorTypeOK
  <2>3. QED
    BY <2>1, <2>2
<1>4. CASE GraceExpires
  <2>1. victim \in Workers
    BY <1>4 DEF GraceExpires, TypeOK, OrchestratorTypeOK
  <2>2. StoreTypeOK' /\ WorkerTypeOK'
    BY <1>4, <2>1, DieType DEF GraceExpires
  <2>3. OrchestratorTypeOK'
    BY <1>4 DEF GraceExpires, orchestratorVars, TypeOK, OrchestratorTypeOK
  <2>4. QED
    BY <2>2, <2>3
<1>5. CASE StopReturns \/ RemoveFails
  <2>1. StoreTypeOK' /\ OrchestratorTypeOK'
    BY <1>5 DEF StopReturns, RemoveFails, VictimDone, Counted, TypeOK, StoreTypeOK,
                OrchestratorTypeOK, Stages
  <2>2. WorkerTypeOK'
    BY <1>5 DEF StopReturns, RemoveFails, VictimDone, TypeOK, WorkerTypeOK, Busy, OrchestratorTypeOK
  <2>3. QED
    BY <2>1, <2>2
<1>6. CASE StopFails
  BY <1>6 DEF StopFails, workerVars, TypeOK, StoreTypeOK, WorkerTypeOK, Busy,
              OrchestratorTypeOK, Stages
<1>7. QED
  BY <1>1, <1>2, <1>3, <1>4, <1>5, <1>6 DEF DestroyStep

(* A crash of the master. *)
LEMMA RestartType ==
    ASSUME TypeOK, Restart
    PROVE  StoreTypeOK' /\ OrchestratorTypeOK' /\ UNCHANGED workerVars
<1>1. stage = "routing" => hand.second \in Tasks
  BY PairFields DEF TypeOK, OrchestratorTypeOK
<1>2. StoreTypeOK'
  BY <1>1 DEF Restart, Drop, TypeOK, StoreTypeOK, lists, counters
<1>3. OrchestratorTypeOK'
  BY DEF Restart, TypeOK, OrchestratorTypeOK, Stages
<1>4. QED
  BY <1>2, <1>3 DEF Restart

(* Every step of the cluster keeps TypeOK. *)
LEMMA TypeStep ==
    ASSUME TypeOK, [Next]_vars
    PROVE  TypeOK'
<1> USE DEF budget
<1>1. ASSUME NEW t \in Tasks, Handler(t)
      PROVE  TypeOK'
  <2>1. StoreTypeOK' /\ ControllerTypeOK'
    BY <1>1, HandlerType DEF Handler
  <2>2. QED
    BY <1>1, <2>1 DEF Handler, TypeOK, workerVars, orchestratorVars, scaling,
                      WorkerTypeOK, Busy, OrchestratorTypeOK
<1>2. ASSUME NEW w \in Workers, Loop(w) \/ LoopCancelled(w) \/ OnSignal(w)
      PROVE  TypeOK'
  <2>1. StoreTypeOK' /\ WorkerTypeOK'
    BY <1>2, WorkerType DEF Loop, LoopCancelled, OnSignal
  <2>2. QED
    BY <1>2, <2>1 DEF Loop, LoopCancelled, OnSignal, TypeOK, ControllerTypeOK,
                      orchestratorVars, scaling, OrchestratorTypeOK
<1>3. ASSUME NEW w \in Workers, ManualStart(w)
      PROVE  TypeOK'
  <2>1. WorkerTypeOK'
    BY <1>3, BootType DEF ManualStart, Fresh, TypeOK
  <2>2. QED
    BY <1>3, <2>1 DEF ManualStart, TypeOK, storeVars, lists, counters, history, StoreTypeOK,
                      ControllerTypeOK, orchestratorVars, scaling, OrchestratorTypeOK
<1>4. CASE Orchestrate
  <2>1. StoreTypeOK' /\ OrchestratorTypeOK' /\ WorkerTypeOK'
    <3>1. CASE Processing_to_main
      BY <3>1, SweepType DEF Processing_to_main, TypeOK, workerVars, WorkerTypeOK, Busy
    <3>2. CASE Tick \/ ScaleUp \/ ScaleDown
      BY <3>2, DecideType DEF TypeOK, workerVars, WorkerTypeOK, Busy
    <3>3. QED
      BY <1>4, <3>1, <3>2, GenerateType, DestroyType DEF Orchestrate
  <2>2. QED
    BY <1>4, <2>1 DEF Orchestrate, TypeOK, ControllerTypeOK
<1>5. ASSUME NEW w \in Workers, WorkerCrash(w)
      PROVE  TypeOK'
  <2>1. StoreTypeOK' /\ WorkerTypeOK'
    BY <1>5, DieType DEF WorkerCrash
  <2>2. QED
    BY <1>5, <2>1 DEF WorkerCrash, TypeOK, ControllerTypeOK, orchestratorVars, scaling,
                      OrchestratorTypeOK
<1>6. ASSUME NEW w \in Workers, WorkerFault(w)
      PROVE  TypeOK'
  <2>1. StoreTypeOK' /\ WorkerTypeOK'
    BY <1>6, WorkerFaultType DEF WorkerFault
  <2>2. QED
    BY <1>6, <2>1 DEF WorkerFault, Fault, TypeOK, ControllerTypeOK, orchestratorVars, scaling,
                      OrchestratorTypeOK
<1>7. ASSUME NEW t \in Tasks, HandlerFault(t)
      PROVE  TypeOK'
  <2>1. StoreTypeOK' /\ ControllerTypeOK'
    BY <1>7, HandlerType DEF HandlerFault
  <2>2. QED
    BY <1>7, <2>1 DEF HandlerFault, Fault, TypeOK, workerVars, orchestratorVars, scaling,
                      WorkerTypeOK, Busy, OrchestratorTypeOK
<1>8. CASE MasterCrash
  <2>1. StoreTypeOK' /\ OrchestratorTypeOK' /\ UNCHANGED workerVars
    BY <1>8, RestartType DEF MasterCrash
  <2>2. ControllerTypeOK'
    BY <1>8 DEF MasterCrash, TypeOK, ControllerTypeOK
  <2>3. QED
    BY <1>8, <2>1, <2>2 DEF MasterCrash, TypeOK, workerVars, WorkerTypeOK, Busy
<1>9. CASE OrchestratorFault \/ MeasurementFault
  <2>1. StoreTypeOK' /\ OrchestratorTypeOK' /\ WorkerTypeOK'
    <3>1. CASE SweepPopFails \/ SweepRouteFails \/ SweepRestoreFails
      BY <3>1, SweepType DEF TypeOK, workerVars, WorkerTypeOK, Busy
    <3>2. CASE TickAborted \/ ScaleFails
      BY <3>2, DecideType DEF TypeOK, workerVars, WorkerTypeOK, Busy
    <3>3. QED
      BY <1>9, <3>1, <3>2, GenerateType, DestroyType DEF OrchestratorFault, MeasurementFault
  <2>2. QED
    BY <1>9, <2>1 DEF OrchestratorFault, MeasurementFault, Fault, TypeOK, ControllerTypeOK
<1>10. CASE UNCHANGED vars
  BY <1>10 DEF vars, TypeOK, storeVars, lists, counters, history, StoreTypeOK, ControllerTypeOK,
               workerVars, WorkerTypeOK, Busy, orchestratorVars, scaling, OrchestratorTypeOK
<1>11. QED
  BY <1>1, <1>2, <1>3, <1>4, <1>5, <1>6, <1>7, <1>8, <1>9, <1>10 DEF Next, Failure

(* The empty cluster is well typed. *)
LEMMA TypeCorrectInit == Init => TypeOK
BY EmptySeq DEF Init, TypeOK, StoreInit, StoreTypeOK, ControllerInit, ControllerTypeOK,
   WorkerInit, WorkerTypeOK, Busy, OrchestratorInit, OrchestratorTypeOK, Stages

(* TypeOK, with the agreement it states between a container and its        *)
(* process, the sweep's stage and its hand, Destroy's stage and its victim. *)
THEOREM TypeCorrect == Spec => []TypeOK
<1>1. TypeOK /\ [Next]_vars => TypeOK'
  BY TypeStep
<1>2. QED
  BY <1>1, TypeCorrectInit, PTL DEF Spec
=============================================================================
