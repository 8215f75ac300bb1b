-------------------------- MODULE Dashboard_proofs --------------------------
(***************************************************************************)
(* Proofs about Dashboard, for any answer time below the timeout and any   *)
(* number of requests, outages and failing reads.                          *)
(*                                                                         *)
(* The polls start Interval seconds apart and none lives longer than       *)
(* PollTimeout: the poll started last has the age Last, the one before it  *)
(* Interval more, and no older one is left.  Poll by poll this bounds      *)
(* the age of what is shown while online, and the time the chip can be     *)
(* wrong; Answered and Prompt relate the polls to the master.              *)
(***************************************************************************)
EXTENDS Dashboard, TLAPS

(* Seconds since the last poll was started. *)
Last == Interval - untilPoll

(* The polls under way. *)
Flying(p) == poll[p].state # "idle"
FlyingAt(age) == \E p \in Polls : Flying(p) /\ poll[p].age = age

(* Who is in flight, and how old. *)
Spaced ==
    /\ \A p \in Polls : Flying(p) => /\ poll[p].age \in {Last, Last + Interval}
                                     /\ poll[p].age <= PollTimeout
                                     /\ poll[p].read <= poll[p].age
    /\ \A p, q \in Polls : Flying(p) /\ Flying(q) /\ p # q => poll[p].age # poll[q].age
    /\ \A p \in Polls : ~Flying(p) => poll[p] = Idle

(* The last poll that ended was started no longer ago. *)
Horizon ==
    IF FlyingAt(Last + Interval) THEN Last + 3 * Interval
    ELSE IF FlyingAt(Last) THEN Last + 2 * Interval ELSE Last + Interval

(* What is shown comes from the last poll that ended well. *)
Fresh == online => dataAge <= Horizon

(* What is shown, or on its way, was read before the master went down. *)
Answered ==
    ~up => /\ online => dataAge >= since
           /\ \A p \in Polls : poll[p].state = "answered" => poll[p].read >= since

(* A poll of a master that is up has its answer by Latency. *)
Prompt == up => \A p \in Polls : Flying(p) /\ poll[p].age < since => poll[p].age <= Latency

(* The chip is wrong only until the next poll of a master that is up ends. *)
Noticed == up /\ ~online => since <= Horizon

(* The inductive invariant. *)
PInv == TypeOK /\ Spaced /\ Fresh /\ Answered /\ Prompt /\ Noticed

-----------------------------------------------------------------------------
(* The numbers the steps are about. *)
LEMMA Numbers ==
    ASSUME PInv
    PROVE  /\ untilPoll \in 0..Interval /\ Last \in 0..Interval
           /\ Horizon \in Int /\ Horizon >= Last + Interval /\ Horizon <= 2 * Interval + PollTimeout
           /\ since \in Ages /\ dataAge \in Ages /\ prev.age \in Ages
           /\ \A p \in Polls : /\ poll[p].age \in Ages /\ poll[p].read \in Ages
                              /\ poll[p].state \in {"idle", "asked", "answered"}
                              /\ poll[p].requests \in Nat
           /\ Ages = 0..9 /\ Long = 9 /\ Interval = 2 /\ PollTimeout = 3
           /\ Latency \in 0..2
<1>1. Ages = 0..9 /\ Long = 9 /\ Interval = 2 /\ PollTimeout = 3 /\ Latency \in 0..2
  BY LatencyAssumption DEF Ages, Long, Interval, PollTimeout
<1>2. /\ untilPoll \in 0..Interval /\ since \in Ages /\ dataAge \in Ages /\ prev.age \in Ages
      /\ \A p \in Polls : /\ poll[p].age \in Ages /\ poll[p].read \in Ages
                         /\ poll[p].state \in {"idle", "asked", "answered"}
                         /\ poll[p].requests \in Nat
  BY DEF PInv, TypeOK, PollStates
<1>3. Last \in 0..2
  BY <1>1, <1>2 DEF Last
<1>4. FlyingAt(Last + Interval) => Last + Interval <= PollTimeout
  BY <1>1, <1>3 DEF PInv, Spaced, FlyingAt
<1> QED
  BY <1>1, <1>2, <1>3, <1>4 DEF Horizon

(* A change that leaves who is in flight, and how old, leaves the horizon. *)
LEMMA SameHorizon ==
    ASSUME untilPoll' = untilPoll,
           \A p \in Polls : /\ Flying(p)' <=> Flying(p)
                          /\ poll'[p].age = poll[p].age
    PROVE  Last' = Last /\ Horizon' = Horizon
<1>1. Last' = Last
  BY DEF Last
<1>2. \A age : FlyingAt(age)' <=> FlyingAt(age)
  BY DEF FlyingAt
<1>3. /\ FlyingAt(Last + Interval)' <=> FlyingAt(Last + Interval)
      /\ FlyingAt(Last)' <=> FlyingAt(Last)
  BY <1>1, <1>2 DEF FlyingAt
<1> QED
  BY <1>1, <1>3 DEF Horizon

(* No poll yet, and a master that has just come up. *)
LEMMA PInvInit == Init => PInv
<1> SUFFICES ASSUME Init PROVE PInv
  OBVIOUS
<1>1. \A p \in Polls : poll[p] = Idle /\ ~Flying(p)
  BY DEF Init, Idle, Flying
<1>2. Idle \in PollStates
  BY DEF Idle, PollStates, Ages, Long
<1>3. TypeOK
  <2>1. poll \in [Polls -> PollStates]
    BY <1>2 DEF Init
  <2>2. up \in BOOLEAN /\ online \in BOOLEAN
    BY Zenon DEF Init
  <2>3. /\ since \in Ages /\ total_request \in Nat /\ untilPoll \in 0..Interval
        /\ data \in Nat /\ dataAge \in Ages
        /\ received \in 0..MaxRequests /\ outages \in 0..MaxOutages /\ faults \in 0..MaxFaults
    BY BoundsAssumption DEF Init, Ages, Long, Interval
  <2>4. rps \in [requests : Nat, millis : Nat \ {0}] /\ prev \in [requests : Nat, age : Ages]
    BY DEF Init, Ages, Long
  <2> QED
    BY <2>1, <2>2, <2>3, <2>4 DEF TypeOK
<1>4. since = 0 /\ untilPoll = 0 /\ up = TRUE /\ online = FALSE
  BY Zenon DEF Init
<1>5. Spaced /\ Prompt
  BY <1>1 DEF Spaced, Prompt
<1>6. Fresh /\ Answered
  BY <1>4 DEF Fresh, Answered
<1>7. Noticed
  BY <1>4 DEF Noticed, Horizon, Last, Interval
<1> QED
  BY <1>3, <1>5, <1>6, <1>7 DEF PInv

(* The master goes up or down, or is asked by others. *)
LEMMA MasterStep ==
    ASSUME PInv, Request \/ GoesDown \/ ComesUp
    PROVE  PInv'
<1>1. /\ UNCHANGED <<poll, untilPoll, data, dataAge, online, rps, prev, faults>>
      /\ (since' = since /\ up' = up) \/ since' = 0
  BY DEF Request, GoesDown, ComesUp, hook
<1>2. \A p \in Polls : Flying(p)' <=> Flying(p)
  BY <1>1 DEF Flying
<1>3. Last' = Last /\ Horizon' = Horizon
  BY <1>1, <1>2, SameHorizon
<1>4. TypeOK'
  <2>1. /\ received' \in 0..MaxRequests /\ outages' \in 0..MaxOutages
        /\ total_request' \in Nat
    BY BoundsAssumption DEF PInv, TypeOK, Request, GoesDown, ComesUp
  <2>2. since' \in Ages
    BY <1>1 DEF PInv, TypeOK, Ages, Long
  <2>3. up' \in BOOLEAN
    BY Zenon DEF PInv, TypeOK, Request, GoesDown, ComesUp
  <2> QED
    BY <1>1, <2>1, <2>2, <2>3 DEF PInv, TypeOK
<1>5. Spaced' /\ Fresh'
  BY <1>1, <1>2, <1>3 DEF PInv, Spaced, Fresh
<1>6. Answered' /\ Prompt' /\ Noticed'
  <2>1. CASE since' = since /\ up' = up
    BY <1>1, <1>2, <1>3, <2>1 DEF PInv, Answered, Prompt, Noticed
  <2>2. CASE since' = 0
    BY <1>1, <1>3, <2>2, Numbers DEF Answered, Prompt, Noticed
  <2> QED
    BY <1>1, <2>1, <2>2
<1> QED
  BY <1>4, <1>5, <1>6 DEF PInv

(* A second passes for everything at once. *)
LEMMA SecondStep ==
    ASSUME PInv, Second
    PROVE  PInv'
<1>1. \A age \in 0..8 : Older(age) = age + 1
  BY DEF Older, Long
<1>2. \A age \in Ages : Older(age) \in Ages /\ Older(age) <= age + 1 /\ Older(age) > 0
  BY DEF Older, Long, Ages
<1>3. \A a, b \in Ages : a >= b => Older(a) >= Older(b)
  BY DEF Older, Long, Ages
<1>4. /\ UNCHANGED <<up, total_request, received, outages, data, online, rps, faults>>
      /\ since' = Older(since) /\ dataAge' = Older(dataAge)
      /\ untilPoll > 0 /\ untilPoll' = untilPoll - 1
  BY DEF Second
<1>5. Last' = Last + 1
  BY <1>4, Numbers DEF Last
<1>6. \A p \in Polls :
        /\ Flying(p)' <=> Flying(p)
        /\ Flying(p) => /\ poll'[p].age = poll[p].age + 1
                        /\ poll[p].age < PollTimeout /\ ~Due(poll[p])
                        /\ poll'[p].read = poll[p].read + 1
                        /\ poll'[p].state = poll[p].state
        /\ ~Flying(p) => poll'[p] = Idle
  <2> TAKE p \in Polls
  <2>1. CASE Flying(p)
    <3>1. poll[p].age < PollTimeout /\ ~Due(poll[p])
      BY <2>1 DEF Second, Flying, InTime
    <3>2. poll[p].age \in 0..8 /\ poll[p].read \in 0..8
      BY <2>1, <3>1, Numbers DEF PInv, Spaced
    <3>3. poll'[p] = [poll[p] EXCEPT !.age = Older(@), !.read = Older(@)]
      BY <2>1 DEF Second, Flying
    <3>4. poll[p] \in PollStates
      BY DEF PInv, TypeOK
    <3>5. /\ poll'[p].age = Older(poll[p].age) /\ poll'[p].read = Older(poll[p].read)
          /\ poll'[p].state = poll[p].state
      BY <3>3, <3>4 DEF PollStates
    <3> QED
      BY <1>1, <2>1, <3>1, <3>2, <3>5 DEF Flying
  <2>2. CASE ~Flying(p)
    BY <2>2 DEF Second, Flying, Idle
  <2> QED
    BY <2>1, <2>2
<1>7. Horizon' = Horizon + 1
  <2>1. ASSUME NEW age \in Int PROVE FlyingAt(age + 1)' <=> FlyingAt(age)
    BY <1>6, Numbers DEF FlyingAt
  <2>2. /\ FlyingAt(Last + Interval)' <=> FlyingAt(Last + Interval)
        /\ FlyingAt(Last)' <=> FlyingAt(Last)
    <3>1. PICK e \in Int : e = Last
      BY Numbers
    <3>2. Last' = e + 1 /\ Last' + Interval = (e + Interval) + 1 /\ e + Interval \in Int
      BY <1>5, <3>1, Numbers
    <3>3. FlyingAt(e + 1)' <=> FlyingAt(e)
      BY <2>1
    <3>4. FlyingAt((e + Interval) + 1)' <=> FlyingAt(e + Interval)
      BY <2>1, <3>2
    <3> QED
      BY <3>1, <3>2, <3>3, <3>4 DEF FlyingAt
  <2> QED
    BY <1>5, <2>2, Numbers DEF Horizon
<1>8. TypeOK'
  <2>1. poll' \in [Polls -> PollStates]
    <3>1. ASSUME NEW r \in PollStates
          PROVE  [r EXCEPT !.age = Older(@), !.read = Older(@)] \in PollStates
      BY <1>2 DEF PollStates
    <3>2. Idle \in PollStates
      BY DEF Idle, PollStates, Ages, Long
    <3> QED
      BY <3>1, <3>2 DEF PInv, TypeOK, Second
  <2>2. untilPoll' \in 0..Interval /\ since' \in Ages /\ dataAge' \in Ages
    BY <1>2, <1>4, Numbers
  <2>3. prev' \in [requests : Nat, age : Ages]
    BY <1>2 DEF PInv, TypeOK, Second
  <2> QED
    BY <1>4, <2>1, <2>2, <2>3 DEF PInv, TypeOK
<1>9. Spaced'
  <2>1. \A p \in Polls : Flying(p) => poll[p].age \in {Last, Last + Interval}
    BY DEF PInv, Spaced
  <2>2. ASSUME NEW p \in Polls, Flying(p)
        PROVE  /\ poll'[p].age \in {Last', Last' + Interval}
               /\ poll'[p].age <= PollTimeout
               /\ poll'[p].read <= poll'[p].age
    BY <1>5, <1>6, <2>1, <2>2, Numbers DEF PInv, Spaced
  <2>3. \A p, q \in Polls : Flying(p) /\ Flying(q) /\ p # q => poll'[p].age # poll'[q].age
    BY <1>6, Numbers DEF PInv, Spaced
  <2> QED
    BY <1>6, <2>2, <2>3 DEF Spaced
<1>10. Fresh' /\ Noticed'
  BY <1>2, <1>4, <1>7, Numbers DEF PInv, Fresh, Noticed
<1>11. Answered'
  <2>1. ASSUME ~up, online PROVE dataAge' >= since'
    BY <1>3, <1>4, <2>1, Numbers DEF PInv, Answered
  <2>2. ASSUME ~up, NEW p \in Polls, poll'[p].state = "answered"
        PROVE  poll'[p].read >= since'
    <3>1. Flying(p)
      BY <1>6, <2>2 DEF Idle
    <3>2. poll[p].read >= since /\ poll'[p].read = poll[p].read + 1
      BY <1>6, <2>2, <3>1 DEF PInv, Answered
    <3> QED
      BY <1>2, <1>4, <3>2, Numbers
  <2> QED
    BY <1>4, <2>1, <2>2 DEF Answered
<1>12. Prompt'
  <2> SUFFICES ASSUME up, NEW p \in Polls, Flying(p), poll'[p].age < since'
               PROVE  poll'[p].age <= Latency
    BY <1>4, <1>6 DEF Prompt
  <2>1. poll[p].age < since
    BY <1>2, <1>4, <1>6, Numbers
  <2> QED
    BY <1>6, <2>1, Numbers DEF Due
<1> QED
  BY <1>8, <1>9, <1>10, <1>11, <1>12 DEF PInv

(* A new poll: the one before it is Interval old, none is older. *)
LEMMA StartStep ==
    ASSUME PInv, NEW p \in Polls, StartPoll(p)
    PROVE  PInv'
<1>1. /\ UNCHANGED <<up, since, total_request, received, outages>>
      /\ UNCHANGED <<data, dataAge, online, rps, prev, faults>>
      /\ untilPoll = 0 /\ untilPoll' = Interval /\ poll[p] = Idle
  BY DEF StartPoll, master
<1>2. Last = 2 /\ Last' = 0
  BY <1>1 DEF Last, Interval
<1>3. /\ poll'[p] = [Idle EXCEPT !.state = "asked"]
      /\ \A q \in Polls : q # p => poll'[q] = poll[q]
  BY <1>1 DEF PInv, TypeOK, StartPoll
<1>4. /\ poll'[p].state = "asked" /\ poll'[p].age = 0 /\ poll'[p].read = 0
      /\ poll'[p] \in PollStates /\ ~Flying(p) /\ Flying(p)'
  BY <1>1, <1>3 DEF Idle, PollStates, Ages, Long, Flying
<1>5. \A q \in Polls : q # p => (Flying(q)' <=> Flying(q)) /\ (Flying(q) => poll[q].age = 2)
  BY <1>2, <1>3, Numbers DEF PInv, Spaced, Flying
<1>6. Horizon' = Horizon
  <2>1. ~FlyingAt(4)
    BY <1>4, <1>5 DEF FlyingAt
  <2>2. FlyingAt(0)' /\ (FlyingAt(2)' <=> FlyingAt(2))
    <3>1. FlyingAt(0)'
      BY <1>4 DEF FlyingAt
    <3>2. \A q \in Polls : Flying(q)' /\ poll'[q].age = 2 <=> Flying(q) /\ poll[q].age = 2
      <4> TAKE q \in Polls
      <4>1. CASE q = p
        BY <1>4, <4>1
      <4>2. CASE q # p
        BY <1>3, <1>5, <4>2
      <4> QED
        BY <4>1, <4>2
    <3> QED
      BY <3>1, <3>2 DEF FlyingAt
  <2>3. Horizon = IF FlyingAt(2) THEN 6 ELSE 4
    BY <1>2, <2>1, Numbers DEF Horizon
  <2>4. /\ FlyingAt(Last)' <=> FlyingAt(0)'
        /\ FlyingAt(Last + Interval)' <=> FlyingAt(2)'
    BY <1>2, Numbers DEF FlyingAt
  <2>5. Horizon' = IF FlyingAt(2)' THEN 6 ELSE 4
    BY <1>2, <2>2, <2>4, Numbers DEF Horizon
  <2> QED
    BY <2>2, <2>3, <2>5
<1>7. TypeOK'
  <2>1. poll' \in [Polls -> PollStates]
    BY <1>1, <1>4 DEF PInv, TypeOK, StartPoll
  <2> QED
    BY <1>1, <2>1 DEF PInv, TypeOK, Interval
<1>8. Spaced'
  <2>1. \A q \in Polls : Flying(q)' => /\ poll'[q].age \in {Last', Last' + Interval}
                                     /\ poll'[q].age <= PollTimeout
                                     /\ poll'[q].read <= poll'[q].age
    <3>1. \A q \in Polls : q # p /\ Flying(q) => poll[q].age <= PollTimeout /\ poll[q].read <= poll[q].age
      BY DEF PInv, Spaced
    <3>2. Last' = 0 /\ Last' + Interval = 2 /\ PollTimeout = 3
      BY <1>2, Numbers
    <3>3. TAKE q \in Polls
    <3>4. CASE q = p
      BY <1>4, <3>2, <3>4
    <3>5. CASE q # p
      BY <1>3, <1>5, <3>1, <3>2, <3>5
    <3> QED
      BY <3>4, <3>5
  <2>2. \A q, r \in Polls : Flying(q)' /\ Flying(r)' /\ q # r => poll'[q].age # poll'[r].age
    <3>1. \A q, r \in Polls : q # r => q = p \/ r = p
      BY DEF Polls
    <3>2. \A q \in Polls : q # p /\ Flying(q)' => poll'[q].age = 2
      BY <1>3, <1>5
    <3> QED
      BY <1>4, <3>1, <3>2
  <2>3. \A q \in Polls : ~Flying(q)' => poll'[q] = Idle
    BY <1>3, <1>4, <1>5 DEF PInv, Spaced, Flying
  <2> QED
    BY <2>1, <2>2, <2>3 DEF Spaced
<1>9. Fresh' /\ Noticed'
  BY <1>1, <1>6 DEF PInv, Fresh, Noticed
<1>10. Answered' /\ Prompt'
  <2>1. \A q \in Polls : poll'[q].state = "answered" => poll'[q] = poll[q]
    BY <1>3, <1>4
  <2>2. Answered'
    BY <1>1, <2>1 DEF PInv, Answered
  <2>3. ASSUME up, NEW q \in Polls, Flying(q)', poll'[q].age < since
        PROVE  poll'[q].age <= Latency
    <3>1. CASE q = p
      BY <1>4, <3>1, Numbers
    <3>2. CASE q # p
      BY <1>3, <1>5, <2>3, <3>2 DEF PInv, Prompt
    <3> QED
      BY <3>1, <3>2
  <2>4. Prompt'
    BY <1>1, <2>3 DEF Prompt
  <2> QED
    BY <2>2, <2>4
<1> QED
  BY <1>7, <1>8, <1>9, <1>10 DEF PInv

(* The handler's answer, or its zeroes. *)
LEMMA GetMetricsStep ==
    ASSUME PInv, NEW p \in Polls, GetMetrics(p)
    PROVE  PInv'
<1>1. /\ UNCHANGED <<up, since, total_request, received, outages>>
      /\ UNCHANGED <<untilPoll, data, dataAge, online, rps, prev>>
      /\ up /\ poll[p].state = "asked"
  BY DEF GetMetrics, master
<1>2. PICK n \in Nat : poll' = [poll EXCEPT ![p].state = "answered", ![p].read = 0,
                                         ![p].requests = n]
  BY DEF GetMetrics, PInv, TypeOK
<1>3. poll \in [Polls -> PollStates]
  BY DEF PInv, TypeOK
<1>4. /\ poll'[p].state = "answered" /\ poll'[p].read = 0 /\ poll'[p].age = poll[p].age
      /\ \A q \in Polls : q # p => poll'[q] = poll[q]
      /\ poll' \in [Polls -> PollStates]
  <2>1. /\ poll'[p] = [poll[p] EXCEPT !.state = "answered", !.read = 0, !.requests = n]
        /\ \A q \in Polls : q # p => poll'[q] = poll[q]
    BY <1>2, <1>3
  <2>2. poll[p] \in PollStates
    BY <1>3
  <2>3. ASSUME NEW r \in PollStates, NEW a,
               a = [r EXCEPT !.state = "answered", !.read = 0, !.requests = n]
        PROVE  a.state = "answered" /\ a.read = 0 /\ a.age = r.age /\ a \in PollStates
    <3>1. r.age \in Ages
      BY DEF PollStates
    <3>2. 0 \in Ages
      BY DEF Ages, Long
    <3>3. r = [state |-> r.state, age |-> r.age, requests |-> r.requests, read |-> r.read]
      BY DEF PollStates
    <3>4. a = [state |-> "answered", age |-> r.age, requests |-> n, read |-> 0]
      BY <2>3, <3>3
    <3> QED
      BY <3>1, <3>2, <3>4 DEF PollStates
  <2>4. /\ poll'[p].state = "answered" /\ poll'[p].read = 0 /\ poll'[p].age = poll[p].age
        /\ poll'[p] \in PollStates
    BY <2>1, <2>2, <2>3
  <2> QED
    BY <1>2, <1>3, <2>1, <2>4
<1>5. \A q \in Polls : (Flying(q)' <=> Flying(q)) /\ poll'[q].age = poll[q].age
  BY <1>1, <1>4 DEF Flying
<1>6. Last' = Last /\ Horizon' = Horizon
  BY <1>1, <1>5, SameHorizon
<1>7. TypeOK'
  <2>1. faults' \in 0..MaxFaults
    BY BoundsAssumption DEF PInv, TypeOK, GetMetrics
  <2> QED
    BY <1>1, <1>4, <2>1 DEF PInv, TypeOK
<1>8. Spaced'
  <2>1. \A q \in Polls : ~Flying(q) => poll'[q] = Idle
    BY <1>1, <1>4 DEF PInv, Spaced, Flying
  <2>2. \A q \in Polls : Flying(q) => poll'[q].read <= poll'[q].age
    BY <1>4, Numbers DEF PInv, Spaced
  <2> QED
    BY <1>5, <1>6, <2>1, <2>2 DEF PInv, Spaced
<1>9. Fresh' /\ Noticed' /\ Answered' /\ Prompt'
  BY <1>1, <1>5, <1>6 DEF PInv, Fresh, Noticed, Answered, Prompt
<1> QED
  BY <1>7, <1>8, <1>9 DEF PInv

(* What is left when a poll has ended: the others, and a horizon that      *)
(* still lies before its start.                                            *)
LEMMA PollEnds ==
    ASSUME PInv, NEW p \in Polls, Flying(p), untilPoll' = untilPoll,
           poll' = [poll EXCEPT ![p] = Idle]
    PROVE  /\ poll' \in [Polls -> PollStates] /\ ~Flying(p)'
           /\ \A q \in Polls : q # p => poll'[q] = poll[q]
           /\ Spaced' /\ Horizon' >= poll[p].age /\ Horizon' \in Int
<1>1. Idle \in PollStates
  BY DEF Idle, PollStates, Ages, Long
<1>2. poll' \in [Polls -> PollStates] /\ \A q \in Polls : q # p => poll'[q] = poll[q]
  BY <1>1 DEF PInv, TypeOK
<1>3. poll'[p] = Idle /\ ~Flying(p)'
  BY DEF PInv, TypeOK, Flying, Idle
<1>4. Last' = Last
  BY DEF Last
<1>5. \A q \in Polls : q # p => (Flying(q)' <=> Flying(q))
  BY <1>2 DEF Flying
<1>6. Spaced'
  BY <1>2, <1>3, <1>4, <1>5 DEF PInv, Spaced
<1>7. Horizon' \in Int /\ Horizon' >= Last + Interval
  BY <1>4, Numbers DEF Horizon
<1>8. poll[p].age <= Last + Interval
  BY Numbers DEF PInv, Spaced
<1> QED
  BY <1>2, <1>3, <1>6, <1>7, <1>8, Numbers

(* The answer of any poll is shown: it was read since that poll was made. *)
LEMMA ShowStep ==
    ASSUME PInv, NEW p \in Polls, Show(p)
    PROVE  PInv'
<1>1. /\ UNCHANGED <<up, since, total_request, received, outages, untilPoll, faults>>
      /\ poll[p].state = "answered" /\ Flying(p)
      /\ poll' = [poll EXCEPT ![p] = Idle]
      /\ dataAge' = poll[p].read /\ online' = TRUE
  BY DEF Show, master, Flying
<1>2. /\ poll' \in [Polls -> PollStates] /\ ~Flying(p)'
      /\ \A q \in Polls : q # p => poll'[q] = poll[q]
      /\ Spaced' /\ Horizon' >= poll[p].age /\ Horizon' \in Int
  BY <1>1, PollEnds
<1>3. poll[p].read <= poll[p].age
  BY <1>1 DEF PInv, Spaced
<1>4. TypeOK'
  <2>1. poll[p].requests \in Nat /\ poll[p].read \in Ages /\ prev.age \in Ages
    BY Numbers
  <2>2. prev.requests \in Nat
    BY DEF PInv, TypeOK
  <2>3. NonNegative(poll[p].requests - prev.requests) \in Nat
    BY <2>1, <2>2 DEF NonNegative
  <2>4. rps' \in [requests : Nat, millis : Nat \ {0}]
    <3>1. Elapsed \subseteq Nat \ {0}
      BY <2>1, Numbers DEF Elapsed
    <3> QED
      BY <2>3, <3>1 DEF Show
  <2>5. prev' \in [requests : Nat, age : Ages] /\ data' \in Nat /\ dataAge' \in Ages
    BY <2>1, Numbers DEF Show
  <2>6. online' \in BOOLEAN
    BY <1>1, Zenon
  <2> QED
    BY <1>1, <1>2, <2>4, <2>5, <2>6 DEF PInv, TypeOK
<1>5. Fresh' /\ Noticed'
  BY <1>1, <1>2, <1>3, Numbers DEF Fresh, Noticed
<1>6. Answered'
  BY <1>1, <1>2 DEF PInv, Answered, Flying
<1>7. Prompt'
  BY <1>1, <1>2 DEF PInv, Prompt, Flying
<1> QED
  BY <1>2, <1>4, <1>5, <1>6, <1>7 DEF PInv

(* A poll of a master that is up fails only if it was made before.         *)
LEMMA PollFailsStep ==
    ASSUME PInv, NEW p \in Polls, PollFails(p)
    PROVE  PInv'
<1>1. /\ UNCHANGED <<up, since, total_request, received, outages>>
      /\ UNCHANGED <<untilPoll, data, dataAge, rps, prev, faults>>
      /\ Flying(p) /\ poll' = [poll EXCEPT ![p] = Idle] /\ online' = FALSE
      /\ up => poll[p].age >= PollTimeout
  BY DEF PollFails, master, Flying, Offline
<1>2. /\ poll' \in [Polls -> PollStates] /\ ~Flying(p)'
      /\ \A q \in Polls : q # p => poll'[q] = poll[q]
      /\ Spaced' /\ Horizon' >= poll[p].age /\ Horizon' \in Int
  BY <1>1, PollEnds
<1>3. up => since <= poll[p].age
  BY <1>1, Numbers DEF PInv, Prompt
<1>4. TypeOK'
  <2>1. online' \in BOOLEAN
    BY <1>1, Zenon
  <2> QED
    BY <1>1, <1>2, <2>1 DEF PInv, TypeOK
<1>5. Fresh' /\ Noticed'
  BY <1>1, <1>2, <1>3, Numbers DEF Fresh, Noticed
<1>6. Answered'
  BY <1>1, <1>2 DEF PInv, Answered, Flying
<1>7. Prompt'
  BY <1>1, <1>2 DEF PInv, Prompt, Flying
<1> QED
  BY <1>2, <1>4, <1>5, <1>6, <1>7 DEF PInv

-----------------------------------------------------------------------------
(* What the polls say of the dashboard and the master holds throughout. *)
LEMMA PInvHolds == Spec => []PInv
<1>1. PInv /\ [Next]_vars => PInv'
  <2> SUFFICES ASSUME PInv, [Next]_vars PROVE PInv'
    OBVIOUS
  <2>1. CASE Request \/ GoesDown \/ ComesUp
    BY <2>1, MasterStep
  <2>2. CASE Second
    BY <2>2, SecondStep
  <2>3. ASSUME NEW p \in Polls, StartPoll(p) \/ GetMetrics(p) \/ Show(p) \/ PollFails(p)
        PROVE  PInv'
    BY <2>3, StartStep, GetMetricsStep, ShowStep, PollFailsStep
  <2>4. CASE UNCHANGED vars
    <3>1. UNCHANGED <<up, since, total_request, received, outages, poll, untilPoll,
                      data, dataAge, online, rps, prev, faults>>
      BY <2>4 DEF vars, master, hook
    <3>2. \A p \in Polls : Flying(p)' <=> Flying(p)
      BY <3>1 DEF Flying
    <3>3. Last' = Last /\ Horizon' = Horizon
      BY <3>1, <3>2, SameHorizon
    <3>4. TypeOK' /\ Spaced'
      BY <3>1, <3>2, <3>3 DEF PInv, TypeOK, Spaced
    <3>5. Fresh' /\ Answered' /\ Prompt' /\ Noticed'
      BY <3>1, <3>2, <3>3 DEF PInv, Fresh, Answered, Prompt, Noticed
    <3> QED
      BY <3>4, <3>5 DEF PInv
  <2> QED
    BY <2>1, <2>2, <2>3, <2>4 DEF Next
<1> QED
  BY <1>1, PInvInit, PTL DEF Spec

(* The state of useMetrics keeps its type: the rate is never negative and  *)
(* never divided by nothing.                                               *)
THEOREM DashboardTypes == Spec => []TypeOK
<1>1. PInv => TypeOK
  BY DEF PInv
<1> QED
  BY <1>1, PInvHolds, PTL

(* However polls overlap and overtake each other, what is shown as online  *)
(* is no older than two intervals and a timeout.                           *)
THEOREM ShownIsFresh == Spec => []FreshWhileOnline
<1>1. PInv => FreshWhileOnline
  BY Numbers DEF PInv, Fresh, FreshWhileOnline
<1> QED
  BY <1>1, PInvHolds, PTL

(* The status chip is right two intervals and a timeout after the master   *)
(* went down, two intervals and an answer after it came up.                *)
THEOREM ChipFollowsMaster == Spec => []StatusTracksMaster
<1>1. PInv => StatusTracksMaster
  <2> SUFFICES ASSUME PInv PROVE StatusTracksMaster
    OBVIOUS
  <2>1. ~up /\ online => since <= 2 * Interval + PollTimeout
    BY Numbers DEF PInv, Answered, Fresh
  <2>2. ASSUME up, ~online PROVE since <= 2 * Interval + Latency
    <3>1. since <= Horizon
      BY <2>2 DEF PInv, Noticed
    <3>2. CASE FlyingAt(Last + Interval)
      <4>1. Last + Interval < since => Last + Interval <= Latency
        BY <2>2, <3>2 DEF PInv, Prompt, FlyingAt
      <4>2. Horizon = Last + 3 * Interval
        BY <3>2 DEF Horizon
      <4>3. Last + Interval <= PollTimeout
        BY <3>2 DEF PInv, Spaced, FlyingAt
      <4> QED
        BY <3>1, <4>1, <4>2, <4>3, Numbers
    <3>3. CASE ~FlyingAt(Last + Interval) /\ FlyingAt(Last)
      <4>1. Last < since => Last <= Latency
        BY <2>2, <3>3 DEF PInv, Prompt, FlyingAt
      <4>2. Horizon = Last + 2 * Interval
        BY <3>3 DEF Horizon
      <4> QED
        BY <3>1, <4>1, <4>2, Numbers
    <3>4. CASE ~FlyingAt(Last + Interval) /\ ~FlyingAt(Last)
      BY <3>1, <3>4, Numbers DEF Horizon
    <3> QED
      BY <3>2, <3>3, <3>4
  <2>3. since \in Ages /\ Ages \subseteq Int /\ 2 * Interval + PollTimeout \in Int
        /\ 2 * Interval + Latency \in Int
    BY Numbers
  <2> QED
    BY <2>1, <2>2, <2>3 DEF StatusTracksMaster
<1> QED
  BY <1>1, PInvHolds, PTL
=============================================================================
