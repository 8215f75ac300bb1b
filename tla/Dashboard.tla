------------------------------ MODULE Dashboard ------------------------------
(***************************************************************************)
(* The dashboard: useMetrics polls GET /metrics every 2 s and gives an     *)
(* answer 3 s, so that two polls overlap and may answer in either order.   *)
(* Time passes in whole seconds and is kept as ages, up to Long.           *)
(***************************************************************************)
EXTENDS Integers, FiniteSets

Interval == 2        \* setInterval(poll, 2000)
PollTimeout == 3     \* AbortSignal.timeout(3000)
Long == 9            \* bound: ages beyond it are not told apart

CONSTANTS Total,       \* total_request when the dashboard is opened
          Latency,     \* seconds to an answer of a master that is up
          MaxRequests, \* bound: requests of the clients
          MaxOutages,  \* bound: times the master is down
          MaxFaults    \* bound: failing Redis reads

ASSUME LatencyAssumption == Latency \in 0..(PollTimeout - 1)
ASSUME BoundsAssumption == {Total, MaxRequests, MaxOutages, MaxFaults} \subseteq Nat

Polls == 1..2

VARIABLES up, since,            \* the master answers or not, and since when
          total_request,
          poll, untilPoll,      \* polls in flight, seconds to the next one
          data, dataAge, online, rps, prev,  \* the state of useMetrics
          received, outages, faults  \* bound counters

master == <<up, since, total_request, received, outages>>
hook == <<poll, untilPoll, data, dataAge, online, rps, prev>>
vars == <<master, hook, faults>>

Ages == 0..Long
Older(age) == IF age < Long THEN age + 1 ELSE Long

(* An answer carries the number of requests and how long ago it was read. *)
PollStates == [state : {"idle", "asked", "answered"}, age : Ages, requests : Nat, read : Ages]
Idle == [state |-> "idle", age |-> 0, requests |-> 0, read |-> 0]

TypeOK ==
    /\ up \in BOOLEAN /\ since \in Ages /\ total_request \in Nat
    /\ poll \in [Polls -> PollStates] /\ untilPoll \in 0..Interval
    /\ data \in Nat /\ dataAge \in Ages /\ online \in BOOLEAN
    /\ rps \in [requests : Nat, millis : Nat \ {0}]
    /\ prev \in [requests : Nat, age : Ages]
    /\ received \in 0..MaxRequests
    /\ outages \in 0..MaxOutages /\ faults \in 0..MaxFaults

Init ==
    /\ up = TRUE /\ since = 0 /\ total_request = Total
    /\ poll = [p \in Polls |-> Idle] /\ untilPoll = 0
    /\ data = 0 /\ dataAge = 0 /\ online = FALSE
    /\ rps = [requests |-> 0, millis |-> 1000]
    /\ prev = [requests |-> 0, age |-> 0]
    /\ received = 0 /\ outages = 0 /\ faults = 0

-----------------------------------------------------------------------------
(* The master, its other clients, and the time. *)

Request ==
    /\ up
    /\ received < MaxRequests
    /\ received' = received + 1
    /\ total_request' = total_request + 1
    /\ UNCHANGED <<up, since, outages, hook, faults>>

GoesDown ==
    /\ up
    /\ outages < MaxOutages
    /\ up' = FALSE /\ since' = 0 /\ outages' = outages + 1
    /\ UNCHANGED <<total_request, received, hook, faults>>

ComesUp ==
    /\ ~up
    /\ up' = TRUE /\ since' = 0
    /\ UNCHANGED <<total_request, received, outages, hook, faults>>

(* Mutant: fetch without a signal. *)
InTimeForEver(r, limit) == r.age < Long

(* A second may pass for r before its timeout. *)
InTime(r, limit) == r.age < limit

(* A request made since the master came up has its answer by Latency.      *)
Due(r) == up /\ r.age < since /\ r.age >= Latency

Second ==
    /\ untilPoll > 0
    /\ \A p \in Polls : poll[p].state # "idle" =>
         InTime(poll[p], PollTimeout) /\ ~Due(poll[p])
    /\ since' = Older(since)
    /\ untilPoll' = untilPoll - 1
    /\ poll' = [p \in Polls |-> IF poll[p].state = "idle" THEN Idle
                  ELSE [poll[p] EXCEPT !.age = Older(@), !.read = Older(@)]]
    /\ dataAge' = Older(dataAge)
    /\ prev' = [prev EXCEPT !.age = Older(@)]
    /\ UNCHANGED <<up, total_request, received, outages, data, online, rps, faults>>

-----------------------------------------------------------------------------
(* useMetrics *)

(* The first poll, and those of setInterval. *)
StartPoll(p) ==
    /\ untilPoll = 0
    /\ untilPoll' = Interval
    /\ poll[p] = Idle
    /\ poll' = [poll EXCEPT ![p].state = "asked"]
    /\ UNCHANGED <<master, data, dataAge, online, rps, prev, faults>>

(* GetMetrics; if Redis fails it answers 200 with zeroes. *)
GetMetrics(p) ==
    /\ up
    /\ poll[p].state = "asked"
    /\ \/ /\ poll' = [poll EXCEPT ![p].state = "answered", ![p].read = 0,
                                  ![p].requests = total_request]
          /\ UNCHANGED faults
       \/ /\ faults < MaxFaults /\ faults' = faults + 1
          /\ poll' = [poll EXCEPT ![p].state = "answered", ![p].read = 0,
                                  ![p].requests = 0]
    /\ UNCHANGED <<master, untilPoll, data, dataAge, online, rps, prev>>

(* Mutant: a negative rate is shown. *)
Signed(n) == n

(* Math.max(0, n) *)
NonNegative(n) == IF n > 0 THEN n ELSE 0

(* Mutant: without "|| 1", a rate is divided by 0. *)
Undefaulted == IF prev.age = 0 THEN {0, 1} ELSE {1000 * prev.age}

(* The milliseconds the rate is divided by: "|| 1" makes an exact 0 one    *)
(* second, while two answers some milliseconds apart divide by these.      *)
Elapsed == IF prev.age = 0 THEN {1000, 1} ELSE {1000 * prev.age}

(* The answer is shown, whichever poll it is of. *)
Show(p) ==
    /\ poll[p].state = "answered"
    /\ \E millis \in Elapsed :
         rps' = [requests |-> NonNegative(poll[p].requests - prev.requests),
                 millis |-> millis]
    /\ prev' = [requests |-> poll[p].requests, age |-> 0]
    /\ data' = poll[p].requests
    /\ dataAge' = poll[p].read
    /\ online' = TRUE
    /\ poll' = [poll EXCEPT ![p] = Idle]
    /\ UNCHANGED <<master, untilPoll, faults>>

(* Mutant: "catch" is left empty. *)
Unchanged == online

Offline == FALSE

(* The master refuses the connection, or the poll times out: "catch". *)
PollFails(p) ==
    /\ \/ poll[p].state = "asked" /\ ~up
       \/ poll[p].state # "idle" /\ poll[p].age >= PollTimeout
    /\ online' = Offline
    /\ poll' = [poll EXCEPT ![p] = Idle]
    /\ UNCHANGED <<master, untilPoll, data, dataAge, rps, prev, faults>>

-----------------------------------------------------------------------------
Next ==
    \/ Request \/ GoesDown \/ ComesUp \/ Second
    \/ \E p \in Polls : StartPoll(p) \/ GetMetrics(p) \/ Show(p) \/ PollFails(p)

Spec == Init /\ [][Next]_vars

-----------------------------------------------------------------------------
(* However polls overlap and overtake each other, what is shown as online  *)
(* was read within two intervals and a timeout.                            *)
FreshWhileOnline == online => dataAge <= 2 * Interval + PollTimeout

(* The status chip is wrong for no longer than two intervals and an answer *)
(* or a timeout: an answer on its way may arrive after a newer poll        *)
(* failed, an old poll may time out after a newer one was answered.        *)
StatusTracksMaster ==
    /\ ~up /\ since > 2 * Interval + PollTimeout => ~online
    /\ up /\ since > 2 * Interval + Latency => online
=============================================================================
