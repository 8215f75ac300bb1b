---------------------------- MODULE Records_proofs ----------------------------
(***************************************************************************)
(* Where the records of the tasks are, for any number of workers and tasks *)
(* and any number of crashes, faults and scale-downs, workers started by   *)
(* hand included: no accepted task disappears unseen, and every task has   *)
(* one record at a time, so that the cluster implements TaskLedger.        *)
(*                                                                         *)
(* Accounted alone is not inductive: the cleanup removes a TaskPair, and   *)
(* only AckingDone tells that its task is done by then.  TypeOK tells that *)
(* a polling worker has nothing in its hands.                              *)
(*                                                                         *)
(* The record of a task is spread over three lists, the sweep's hand and   *)
(* the memory of the workers, and a step moves it from one to another.     *)
(* For the ledger the invariant says besides that no list has an element   *)
(* twice and that no two of these places have the same task; what nobody   *)
(* has sent is in none.                                                    *)
(***************************************************************************)
EXTENDS KubeLite_proofs

(* The record Accounted rests on: while a worker cleans up, its task is    *)
(* done, so removing the TaskPair removes nothing that is still needed.    *)
AckingDone == \A w \in Workers : phase[w] = "acking" => holding[w] \in done

(* The inductive invariant. *)
IInv == TypeOK /\ AckingDone /\ Accounted

-----------------------------------------------------------------------------
(* What each list command does to the TaskPairs a sweep can find. *)
LEMMA PairsSplit ==
    Pairs = ToSet(processing_queue) \cup ToSet(temp_queue) \cup ({hand} \ {None})
BY DEF Pairs

(* A worker that waits for a task holds none. *)
LEMMA PollingHoldsNothing ==
    ASSUME TypeOK, NEW w \in Workers, phase[w] = "polling"
    PROVE  holding[w] = None /\ ~registered[w]
BY DEF TypeOK, WorkerTypeOK, Busy

(* If the lists, the hand and the other workers keep what they have, a task *)
(* is still tracked, unless it was in the hands of worker w.               *)
LEMMA TrackedKept ==
    ASSUME NEW w \in Workers, NEW t \in Tasks, Tracked(t),
           ToSet(task_queue) \subseteq ToSet(task_queue'),
           \A p \in Pairs : p.second = t => (p \in Pairs' \/ t \in (done \cup dropped)'),
           done \subseteq done', dropped \subseteq dropped',
           \A v \in Workers \ {w} : holding'[v] = holding[v] /\ registered'[v] = registered[v],
           holding[w] = t /\ ~registered[w] => Tracked(t)'
    PROVE  Tracked(t)'
BY DEF Tracked

-----------------------------------------------------------------------------
(* A worker's next round begins without what it had in its hands. *)
LEMMA EndTaskOthers ==
    ASSUME TypeOK, NEW w \in Workers, EndTask(w) \/ Halt(w)
    PROVE  /\ \A v \in Workers \ {w} : /\ holding'[v] = holding[v]
                                       /\ registered'[v] = registered[v]
                                       /\ phase'[v] = phase[v]
           /\ phase'[w] # "acking"
BY DEF TypeOK, WorkerTypeOK, EndTask, Halt, Goto

(* The steps of a worker keep every task tracked. *)
LEMMA WorkerTracked ==
    ASSUME TypeOK, AckingDone, NEW w \in Workers, NEW t \in Tasks, Tracked(t),
           \/ BLPop(w) \/ PollCancelled(w) \/ Register(w) \/ Finish(w) \/ Ack(w)
           \/ StoreFlag(w) \/ Cancel(w),
           UNCHANGED hand
    PROVE  Tracked(t)'
<1> USE DEF storeVars, lists, counters, history
<1>1. CASE BLPop(w)
  <2>1. ToSet(task_queue) = {Head(task_queue)} \cup ToSet(task_queue')
    BY <1>1, HeadTailToSet DEF BLPop, TypeOK, StoreTypeOK
  <2>2. holding[w] = None /\ ~registered[w]
    BY <1>1, PollingHoldsNothing DEF BLPop
  <2>3. holding'[w] = Head(task_queue) /\ ~registered'[w]
    BY <1>1, <2>2 DEF BLPop, TypeOK, WorkerTypeOK
  <2>4. \A v \in Workers \ {w} : holding'[v] = holding[v] /\ registered'[v] = registered[v]
    BY <1>1 DEF BLPop, TypeOK, WorkerTypeOK
  <2>5. Pairs' = Pairs /\ done' = done /\ dropped' = dropped
    BY <1>1 DEF BLPop, Pairs
  <2>6. QED
    BY <2>1, <2>2, <2>3, <2>4, <2>5, NoneAssumption DEF Tracked
<1>2. CASE PollCancelled(w)
  <2>1. holding[w] # t
    BY <1>2, PollingHoldsNothing, NoneAssumption DEF PollCancelled
  <2>2. Pairs' = Pairs
    BY <1>2 DEF PollCancelled, Pairs
  <2>3. QED
    BY <1>2, <2>1, <2>2, EndTaskOthers, TrackedKept DEF PollCancelled
<1>3. CASE Register(w)
  <2>1. holding[w] \in Tasks
    BY <1>3, BusyHolds DEF Register, Busy
  <2>2. ToSet(processing_queue') = ToSet(processing_queue) \cup {Pair(w, holding[w])}
    BY <1>3, <2>1, PairType, AppendToSet DEF Register, TypeOK, StoreTypeOK
  <2>3. Pairs' = Pairs \cup {Pair(w, holding[w])}
    BY <1>3, <2>2 DEF Register, Pairs
  <2>4. holding[w] = t => Tracked(t)'
    <3>1. Pair(w, holding[w]) \in Pairs' /\ Pair(w, holding[w]).second = holding[w]
      BY <2>3 DEF Pair
    <3>2. QED
      BY <3>1 DEF Tracked
  <2>5. done \subseteq done'
    BY <1>3 DEF Register, Dispatch
  <2>6. \A v \in Workers \ {w} : holding'[v] = holding[v] /\ registered'[v] = registered[v]
    BY <1>3 DEF Register, TypeOK, WorkerTypeOK
  <2>7. QED
    BY <1>3, <2>3, <2>4, <2>5, <2>6, TrackedKept DEF Register
<1>4. CASE Finish(w)
  BY <1>4 DEF Finish, Tracked, Pairs
<1>5. CASE Ack(w)
  <2>1. ToSet(processing_queue) \ {Pair(w, holding[w])} \subseteq ToSet(processing_queue')
    BY <1>5, RemoveFirstToSet DEF Ack, LRem, TypeOK, StoreTypeOK
  <2>2. Pairs \ {Pair(w, holding[w])} \subseteq Pairs'
    BY <1>5, <2>1 DEF Ack, Pairs
  <2>3. Pair(w, holding[w]).second = holding[w] /\ holding[w] \in done
    BY <1>5 DEF Pair, Ack, AckingDone
  <2>4. \A p \in Pairs : p.second = t => (p \in Pairs' \/ t \in (done \cup dropped)')
    BY <1>5, <2>2, <2>3 DEF Ack
  <2>5. holding[w] = t => Tracked(t)'
    BY <1>5, <2>3 DEF Ack, Tracked
  <2>6. QED
    BY <1>5, <2>4, <2>5, EndTaskOthers, TrackedKept DEF Ack
<1>6. CASE StoreFlag(w) \/ Cancel(w)
  BY <1>6 DEF StoreFlag, Cancel, Tracked, Pairs
<1>7. QED
  BY <1>1, <1>2, <1>3, <1>4, <1>5, <1>6

(* So do a failing Redis call and a kill: what they destroy is recorded in *)
(* dropped.                                                                *)
LEMMA WorkerFaultTracked ==
    ASSUME TypeOK, AckingDone, NEW w \in Workers, NEW t \in Tasks, Tracked(t),
           \/ PollFails(w) \/ RegisterFails(w) \/ IncrFails(w) \/ AckFails(w)
           \/ Die(w),
           UNCHANGED hand
    PROVE  Tracked(t)'
<1> USE DEF storeVars, lists, counters, history
<1>1. CASE PollFails(w)
  <2>1. holding[w] # t
    BY <1>1, PollingHoldsNothing, NoneAssumption DEF PollFails
  <2>2. Pairs' = Pairs
    BY <1>1 DEF PollFails, Pairs
  <2>3. CASE UNCHANGED <<task_queue, dropped>>
    BY <1>1, <2>1, <2>2, <2>3, EndTaskOthers, TrackedKept DEF PollFails
  <2>4. CASE ~ UNCHANGED <<task_queue, dropped>>
    <3>1. ToSet(task_queue) = {Head(task_queue)} \cup ToSet(task_queue')
      BY <1>1, <2>4, HeadTailToSet DEF PollFails, TypeOK, StoreTypeOK
    <3>2. dropped' = dropped \cup ({Head(task_queue)} \ done) /\ done' = done
      BY <1>1, <2>4 DEF PollFails, Drop
    <3>3. \A v \in Workers \ {w} : holding'[v] = holding[v] /\ registered'[v] = registered[v]
      BY <1>1, EndTaskOthers DEF PollFails
    <3>4. QED
      BY <2>1, <2>2, <3>1, <3>2, <3>3 DEF Tracked
  <2>5. QED
    BY <2>3, <2>4
<1>2. CASE RegisterFails(w)
  BY <1>2 DEF RegisterFails, Dispatch, Tracked, Pairs
<1>3. CASE IncrFails(w)
  BY <1>3 DEF IncrFails, Tracked, Pairs
<1>4. CASE AckFails(w)
  <2>1. holding[w] = t => Tracked(t)'
    BY <1>4 DEF AckFails, AckingDone, Tracked
  <2>2. Pairs' = Pairs
    BY <1>4 DEF AckFails, Pairs
  <2>3. QED
    BY <1>4, <2>1, <2>2, EndTaskOthers, TrackedKept DEF AckFails
<1>5. CASE Die(w)
  <2>1. dropped \subseteq dropped' /\ done' = done
    BY <1>5 DEF Die, Drop
  <2>2. holding[w] = t /\ ~registered[w] => Tracked(t)'
    <3>1. SUFFICES ASSUME holding[w] = t, ~registered[w] PROVE t \in (done \cup dropped)'
      BY DEF Tracked
    <3>2. phase[w] \in {"popped", "running", "acking"}
      BY <3>1, NoneAssumption DEF TypeOK, WorkerTypeOK, Busy
    <3>3. CASE phase[w] = "acking"
      BY <3>1, <3>3, <2>1 DEF AckingDone
    <3>4. CASE phase[w] \in {"popped", "running"}
      BY <1>5, <3>1, <3>4 DEF Die, Drop
    <3>5. QED
      BY <3>2, <3>3, <3>4
  <2>3. Pairs' = Pairs /\ ToSet(task_queue') = ToSet(task_queue)
    BY <1>5 DEF Die, Pairs
  <2>4. \A v \in Workers \ {w} : holding'[v] = holding[v] /\ registered'[v] = registered[v]
    BY <1>5, EndTaskOthers DEF Die
  <2>5. QED
    BY <2>1, <2>2, <2>3, <2>4, TrackedKept
<1>6. QED
  BY <1>1, <1>2, <1>3, <1>4, <1>5

(* The steps of the sweep move TaskPairs about, requeue a task or record   *)
(* that they have lost it.                                                 *)
LEMMA SweepTracked ==
    ASSUME TypeOK, NEW t \in Tasks, Tracked(t),
           \/ SweepPop \/ SweepEmpty \/ SweepKeep \/ SweepRequeue \/ SweepRestore \/ SweepEnd
           \/ SweepPopFails \/ SweepRouteFails \/ SweepRestoreFails
    PROVE  Tracked(t)'
<1> USE DEF storeVars, lists, counters, history, orchestratorVars
<1>1. processing_queue # <<>> =>
        ToSet(processing_queue) = {Head(processing_queue)} \cup ToSet(Tail(processing_queue))
  BY HeadTailToSet DEF TypeOK, StoreTypeOK
<1>2. temp_queue # <<>> =>
        /\ Head(temp_queue) \in TaskPair
        /\ ToSet(temp_queue) = {Head(temp_queue)} \cup ToSet(Tail(temp_queue))
  BY HeadTailToSet DEF TypeOK, StoreTypeOK
<1>3. stage = "routing" => hand \in TaskPair /\ hand.second \in Tasks
  BY PairFields DEF TypeOK, OrchestratorTypeOK
<1>4. stage # "routing" => hand = None
  BY DEF TypeOK, OrchestratorTypeOK
<1>5. processing_queue # <<>> => Head(processing_queue) # None
  <2>1. None \notin TaskPair
    BY NoneAssumption DEF TaskPair
  <2>2. processing_queue # <<>> => Head(processing_queue) \in TaskPair
    BY HeadTailToSet DEF TypeOK, StoreTypeOK
  <2>3. QED
    BY <2>1, <2>2
<1>6. CASE SweepPop
  <2>1. Pairs' = Pairs
    BY <1>1, <1>4, <1>5, <1>6 DEF SweepPop, Pairs
  <2>2. QED
    BY <1>6, <2>1 DEF SweepPop, Tracked, workerVars
<1>7. CASE SweepEmpty \/ SweepEnd \/ SweepRestoreFails
  BY <1>7 DEF SweepEmpty, SweepEnd, SweepRestoreFails, Tracked, Pairs, workerVars
<1>8. CASE SweepKeep
  <2>1. ToSet(temp_queue') = ToSet(temp_queue) \cup {hand}
    BY <1>3, <1>8, AppendToSet DEF SweepKeep, Parked, Routed, TypeOK, StoreTypeOK
  <2>2. Pairs \subseteq Pairs'
    <3>1. hand \in Pairs'
      BY <1>3, <2>1, NoneAssumption DEF Pairs, TaskPair
    <3>2. QED
      BY <1>8, <2>1, <3>1 DEF SweepKeep, Routed, Pairs
  <2>3. QED
    BY <1>8, <2>2 DEF SweepKeep, Routed, Tracked, workerVars
<1>9. CASE SweepRequeue
  <2>1. ToSet(task_queue') = ToSet(task_queue) \cup {hand.second}
    BY <1>3, <1>9, AppendToSet DEF SweepRequeue, GivenBack, Routed, TypeOK, StoreTypeOK
  <2>2. Pairs \subseteq Pairs' \cup {hand}
    BY <1>9 DEF SweepRequeue, Routed, Pairs
  <2>3. QED
    BY <1>9, <2>1, <2>2 DEF SweepRequeue, Routed, Tracked, workerVars
<1>10. CASE SweepRestore
  <2>1. ToSet(processing_queue') = ToSet(processing_queue) \cup {Head(temp_queue)}
    BY <1>2, <1>10, AppendToSet DEF SweepRestore, TypeOK, StoreTypeOK
  <2>2. Pairs' = Pairs
    BY <1>2, <1>10, <2>1 DEF SweepRestore, Moved, Pairs
  <2>3. QED
    BY <1>10, <2>2 DEF SweepRestore, Tracked, workerVars
<1>11. CASE SweepPopFails
  <2>1. CASE UNCHANGED <<processing_queue, dropped>>
    BY <1>11, <2>1 DEF SweepPopFails, Tracked, Pairs, workerVars
  <2>2. CASE ~ UNCHANGED <<processing_queue, dropped>>
    <3>1. Pairs = Pairs' \cup {Head(processing_queue)}
      BY <1>1, <1>5, <1>11, <2>2 DEF SweepPopFails, Pairs
    <3>2. dropped' = dropped \cup ({Head(processing_queue).second} \ done) /\ done' = done
      BY <1>11, <2>2 DEF SweepPopFails, Drop
    <3>3. QED
      BY <1>11, <3>1, <3>2 DEF SweepPopFails, Tracked, workerVars
  <2>3. QED
    BY <2>1, <2>2
<1>12. CASE SweepRouteFails
  <2>1. Pairs \subseteq Pairs' \cup {hand}
    BY <1>12 DEF SweepRouteFails, Routed, Pairs
  <2>2. dropped' = dropped \cup ({hand.second} \ done) /\ done' = done
    BY <1>12 DEF SweepRouteFails, Routed, Drop
  <2>3. QED
    BY <1>12, <2>1, <2>2 DEF SweepRouteFails, Routed, Tracked, workerVars
<1>13. QED
  BY <1>6, <1>7, <1>8, <1>9, <1>10, <1>11, <1>12

(* The orchestrator's other steps leave the lists and the tasks in the     *)
(* workers' hands alone, until it kills one.                               *)
LEMMA ScalingTracked ==
    ASSUME TypeOK, AckingDone, NEW t \in Tasks, Tracked(t),
           \/ Tick \/ ScaleUp \/ ScaleDown \/ TickAborted \/ ScaleFails
           \/ GenerateStep \/ GenerateFails \/ DestroyStep
           \/ StopFails \/ RemoveFails \/ (\E w \in Workers : StatsFail(w))
    PROVE  Tracked(t)'
<1> USE DEF storeVars, lists, counters, history, workerVars
<1>1. CASE Tick \/ ScaleUp \/ ScaleDown \/ TickAborted \/ ScaleFails
  BY <1>1 DEF Tick, ScaleUp, ScaleDown, TickAborted, ScaleFails, Tracked, Pairs
<1>2. CASE GenerateStep \/ GenerateFails
  BY <1>2 DEF GenerateStep, Generate, Boot, GenerateNoID, GenerateEnd, GenerateFails, Tracked, Pairs,
              scaling
<1>3. ASSUME NEW w \in Workers, Skip(w) \/ Choose(w) \/ StatsFail(w)
      PROVE  Tracked(t)'
  BY <1>3 DEF Skip, Choose, StatsFail, Look, Tracked, Pairs
<1>4. CASE NextPass \/ DestroyEnd \/ StopSignal \/ StopReturns \/ StopFails \/ RemoveFails
  BY <1>4 DEF NextPass, DestroyEnd, StopSignal, StopReturns, StopFails, RemoveFails, VictimDone,
              Tracked, Pairs
<1>5. CASE GraceExpires
  BY <1>5, WorkerFaultTracked
     DEF GraceExpires, orchestratorVars, TypeOK, OrchestratorTypeOK
<1>6. QED
  BY <1>1, <1>2, <1>3, <1>4, <1>5 DEF DestroyStep

(* A crash of the master forgets the pair in the sweep's hand.             *)
LEMMA RestartTracked ==
    ASSUME TypeOK, NEW t \in Tasks, Tracked(t), Restart
    PROVE  Tracked(t)'
<1>1. CASE stage = "routing"
  <2>1. Pairs \subseteq Pairs' \cup {hand}
    BY DEF Restart, Pairs, lists
  <2>2. dropped' = dropped \cup ({hand.second} \ done) /\ done' = done
    BY <1>1 DEF Restart, Drop
  <2>3. QED
    BY <2>1, <2>2 DEF Restart, Tracked, lists, workerVars
<1>2. CASE stage # "routing"
  <2>1. hand = None
    BY <1>2 DEF TypeOK, OrchestratorTypeOK
  <2>2. QED
    BY <1>2, <2>1 DEF Restart, Tracked, Pairs, lists, workerVars
<1>3. QED
  BY <1>1, <1>2

(* Every step of the cluster but a client's keeps a task tracked; a        *)
(* handler only ever adds to task_queue.                                   *)
LEMMA TrackedStep ==
    ASSUME TypeOK, AckingDone, NEW t \in Tasks, Tracked(t), [Next]_vars
    PROVE  Tracked(t)'
<1>1. ASSUME NEW u \in Tasks, Handler(u) \/ HandlerFault(u)
      PROVE  Tracked(t)'
  <2>1. ToSet(Append(task_queue, u)) = ToSet(task_queue) \cup {u}
    BY AppendToSet DEF TypeOK, StoreTypeOK
  <2>2. ToSet(task_queue) \subseteq ToSet(task_queue')
    BY <1>1, <2>1 DEF Handler, HandlerFault, IncrementRequestCount, AcceptRequest, RefuseRequest,
                      CountLost, PushFails, lists, storeVars
  <2>3. UNCHANGED <<processing_queue, temp_queue, hand, done, dropped, holding, registered>>
    BY <1>1 DEF Handler, HandlerFault, IncrementRequestCount, AcceptRequest, RefuseRequest,
                CountLost, PushFails, lists, storeVars, history, workerVars, orchestratorVars
  <2>4. QED
    BY <2>2, <2>3 DEF Tracked, Pairs
<1>2. ASSUME NEW w \in Workers, Loop(w) \/ LoopCancelled(w) \/ OnSignal(w)
      PROVE  Tracked(t)'
  BY <1>2, WorkerTracked DEF Loop, LoopCancelled, OnSignal, orchestratorVars
<1>3. ASSUME NEW w \in Workers, ManualStart(w)
      PROVE  Tracked(t)'
  BY <1>3 DEF ManualStart, Boot, Tracked, Pairs, storeVars, lists, history, orchestratorVars
<1>4. CASE Orchestrate
  BY <1>4, SweepTracked, ScalingTracked DEF Orchestrate, Processing_to_main
<1>5. ASSUME NEW w \in Workers, WorkerCrash(w) \/ WorkerFault(w)
      PROVE  Tracked(t)'
  BY <1>5, WorkerFaultTracked DEF WorkerCrash, WorkerFault, orchestratorVars
<1>6. CASE MasterCrash
  BY <1>6, RestartTracked DEF MasterCrash
<1>7. CASE OrchestratorFault \/ MeasurementFault
  BY <1>7, SweepTracked, ScalingTracked DEF OrchestratorFault, MeasurementFault
<1>8. CASE UNCHANGED vars
  BY <1>8 DEF vars, Tracked, Pairs, storeVars, lists, history, workerVars, orchestratorVars
<1>9. QED
  BY <1>1, <1>2, <1>3, <1>4, <1>5, <1>6, <1>7, <1>8 DEF Next, Failure

-----------------------------------------------------------------------------
(* If worker w does not come to its cleanup and nothing done is undone,    *)
(* the tasks being cleaned up are still done.                              *)
LEMMA AckingKept ==
    ASSUME AckingDone, NEW w \in Workers, done \subseteq done',
           \A v \in Workers \ {w} : phase'[v] = phase[v] /\ holding'[v] = holding[v],
           phase'[w] = "acking" => holding'[w] \in done'
    PROVE  AckingDone'
BY DEF AckingDone

(* A worker reaches its cleanup only with a task it has dealt with.        *)
LEMMA AckingStep ==
    ASSUME TypeOK, AckingDone, [Next]_vars
    PROVE  AckingDone'
<1> USE DEF storeVars, lists, counters, history
<1>1. ASSUME NEW w \in Workers,
             \/ BLPop(w) \/ Register(w) \/ Finish(w) \/ RegisterFails(w) \/ IncrFails(w)
      PROVE  AckingDone'
  <2>1. done \subseteq done'
    BY <1>1 DEF BLPop, Register, Finish, RegisterFails, IncrFails, Dispatch
  <2>2. \A v \in Workers \ {w} : phase'[v] = phase[v] /\ holding'[v] = holding[v]
    BY <1>1 DEF BLPop, Register, Finish, RegisterFails, IncrFails, Dispatch, Selected, Goto,
                TypeOK, WorkerTypeOK
  <2>3. phase'[w] = "acking" => holding'[w] \in done'
    BY <1>1 DEF BLPop, Register, Finish, RegisterFails, IncrFails, Dispatch, Selected, Goto,
                TypeOK, WorkerTypeOK
  <2>4. QED
    BY <2>1, <2>2, <2>3, AckingKept
<1>2. ASSUME NEW w \in Workers,
             PollCancelled(w) \/ Ack(w) \/ PollFails(w) \/ AckFails(w) \/ Die(w)
      PROVE  AckingDone'
  <2>1. EndTask(w) \/ Halt(w)
    BY <1>2 DEF PollCancelled, Ack, PollFails, AckFails, Die
  <2>2. done' = done
    BY <1>2 DEF PollCancelled, Ack, PollFails, AckFails, Die
  <2>3. QED
    BY <2>1, <2>2, EndTaskOthers, AckingKept
<1>3. ASSUME NEW w \in Workers, Boot(w), UNCHANGED done
      PROVE  AckingDone'
  BY <1>3 DEF Boot, Goto, TypeOK, WorkerTypeOK, AckingDone
<1>4. CASE UNCHANGED <<phase, holding, done>>
  BY <1>4 DEF AckingDone
<1>5. ASSUME NEW w \in Workers,
             Loop(w) \/ LoopCancelled(w) \/ OnSignal(w) \/ WorkerCrash(w) \/ WorkerFault(w)
                     \/ ManualStart(w)
      PROVE  AckingDone'
  BY <1>1, <1>2, <1>3, <1>4, <1>5
     DEF Loop, LoopCancelled, OnSignal, WorkerCrash, WorkerFault, ManualStart, StoreFlag, Cancel
<1>6. ASSUME NEW u \in Tasks, Handler(u) \/ HandlerFault(u)
      PROVE  AckingDone'
  BY <1>4, <1>6 DEF Handler, HandlerFault, IncrementRequestCount, AcceptRequest, RefuseRequest,
                    CountLost, PushFails, workerVars
<1>7. CASE Orchestrate
  <2>1. CASE Tick \/ Processing_to_main \/ ScaleUp \/ ScaleDown
    BY <1>4, <2>1 DEF Tick, Processing_to_main, ScaleUp, ScaleDown, SweepPop, SweepEmpty, SweepKeep,
                      SweepRequeue, Routed, SweepRestore, SweepEnd, workerVars
  <2>2. CASE GenerateStep
    BY <1>3, <1>4, <2>2 DEF GenerateStep, Generate, GenerateNoID, GenerateEnd, workerVars
  <2>3. CASE DestroyStep
    <3>1. CASE GraceExpires
      BY <1>2, <3>1 DEF GraceExpires, TypeOK, OrchestratorTypeOK
    <3>2. CASE ~ GraceExpires
      BY <1>4, <2>3, <3>2 DEF DestroyStep, Skip, Choose, Look, NextPass, DestroyEnd, StopSignal,
                              StopReturns, VictimDone, workerVars
    <3>3. QED
      BY <3>1, <3>2
  <2>4. QED
    BY <1>7, <2>1, <2>2, <2>3 DEF Orchestrate
<1>8. CASE MasterCrash \/ OrchestratorFault \/ MeasurementFault
  BY <1>4, <1>8 DEF MasterCrash, Restart, OrchestratorFault, MeasurementFault, SweepPopFails,
                    SweepRouteFails, Routed, SweepRestoreFails, TickAborted, ScaleFails, GenerateFails, StopFails, RemoveFails,
                    VictimDone, StatsFail, Look, workerVars
<1>9. CASE UNCHANGED vars
  BY <1>4, <1>9 DEF vars, workerVars
<1>10. QED
  BY <1>5, <1>6, <1>7, <1>8, <1>9 DEF Next, Failure

(* The tasks answered with 202 after a step were answered before it, but   *)
(* for the one being pushed now.                                           *)
LEMMA AccountedStep ==
    ASSUME IInv, [Next]_vars
    PROVE  Accounted'
<1> SUFFICES ASSUME NEW t \in Tasks, req'[t] = "accepted"
             PROVE  Tracked(t)'
  BY DEF Accounted
<1>1. CASE req[t] = "accepted"
  BY <1>1, TrackedStep DEF IInv, Accounted
<1>2. CASE req[t] # "accepted"
  <2>1. AcceptRequest(t)
    <3>1. req' # req
      BY <1>2
    <3>2. CASE MasterCrash
      BY <1>2, <3>2 DEF MasterCrash
    <3>3. ASSUME NEW u \in Tasks, Handler(u) \/ HandlerFault(u)
          PROVE  AcceptRequest(t)
      BY <1>2, <3>3 DEF Handler, HandlerFault, IncrementRequestCount, AcceptRequest, RefuseRequest,
                        CountLost, PushFails, Answer, IInv, TypeOK, ControllerTypeOK
    <3>4. QED
      BY <3>1, <3>2, <3>3 DEF Next, Failure, Loop, LoopCancelled, OnSignal, ManualStart, Orchestrate,
                              WorkerCrash, WorkerFault, OrchestratorFault, MeasurementFault,
                              vars
  <2>2. ToSet(task_queue') = ToSet(task_queue) \cup {t}
    BY <2>1, AppendToSet DEF AcceptRequest, IInv, TypeOK, StoreTypeOK
  <2>3. QED
    BY <2>2 DEF Tracked
<1>3. QED
  BY <1>1, <1>2

(* The three facts that make IInv an invariant. *)
LEMMA IInvInit == Init => IInv
BY TypeCorrectInit DEF IInv, Init, ControllerInit, WorkerInit, AckingDone, Accounted

(* No step loses a task. *)
LEMMA IInvStep == IInv /\ [Next]_vars => IInv'
BY TypeStep, AckingStep, AccountedStep DEF IInv

(* A task answered with 202 never silently disappears, whatever crashes.   *)
THEOREM AcceptedTasksAccounted == Spec => []Accounted
<1>1. IInv => Accounted
  BY DEF IInv
<1>2. QED
  BY <1>1, IInvInit, IInvStep, PTL DEF Spec

(* A cleanup never takes away the TaskPair of a task that is not done.     *)
THEOREM CleanupAfterDone == Spec => []AckingDone
<1>1. IInv => AckingDone
  BY DEF IInv
<1>2. QED
  BY <1>1, IInvInit, IInvStep, PTL DEF Spec

-----------------------------------------------------------------------------
(* Where a record of task t can be, and who holds it in memory alone. *)
Waits(t) == t \in ToSet(task_queue)
Paired(t) == \E p \in Pairs : p.second = t
Holds(w, t) == holding[w] = t /\ ~registered[w]
Carried(t) == \E w \in Workers : Holds(w, t)

Place(t) ==
    IF Waits(t) THEN "waiting"
    ELSE IF Paired(t) THEN "registered"
    ELSE IF Carried(t) THEN "held" ELSE "none"

(* No list has an element twice, and the lists of pairs share none. *)
NoRepeats ==
    /\ IsInjective(task_queue)
    /\ IsInjective(processing_queue)
    /\ IsInjective(temp_queue)
    /\ ToSet(processing_queue) \cap ToSet(temp_queue) = {}
    /\ hand \notin ToSet(processing_queue) \cup ToSet(temp_queue)

(* Task t is in one place at most, and there once. *)
Alone(t) ==
    /\ \A p, q \in Pairs : p.second = t /\ q.second = t => p = q
    /\ \A v, w \in Workers : Holds(v, t) /\ Holds(w, t) => v = w
    /\ Waits(t) => ~Paired(t) /\ ~Carried(t)
    /\ Paired(t) => ~Carried(t)

Apart == \A t \in Tasks : Alone(t)

(* A task whose request has not been answered is nowhere. *)
Unsent == \A t \in Tasks : req[t] \in {"new", "counted"} => ~Tracked(t)

(* The task a worker is busy with is known to the cluster. *)
InHandTracked == \A w \in Workers : Busy(w) => Tracked(holding[w])

(* The inductive invariant. *)
RInv == IInv /\ NoRepeats /\ Apart /\ Unsent /\ InHandTracked

-----------------------------------------------------------------------------
(* What a step may do to the record of task t: what TaskLedger allows. *)
StepOf(t) ==
    \/ Place(t)' = Place(t)
    \/ /\ Place(t) = "none" /\ Place(t)' = "waiting"
       /\ req[t] = "counted" /\ req'[t] \in {"accepted", "refused"}
    \/ Place(t) = "waiting" /\ Place(t)' = "held"
    \/ Place(t) = "held" /\ Place(t)' = "registered"
    \/ Place(t) = "registered" /\ Place(t)' = "waiting"
    \/ Place(t)' = "none" /\ t \in (done \cup dropped)'

(* What a step may do to TaskPair p: keep it, end its task, give it back.  *)
PairStep(p) ==
    \/ p \in Pairs'
    \/ Place(p.second)' = "none"
    \/ p = hand /\ ~Runs(p.first)

TaskStep(t) ==
    /\ Alone(t)'
    /\ StepOf(t)
    /\ \A p \in Pairs : p.second = t => PairStep(p)

(* Tasks become done or dropped only while the cluster has them, and a     *)
(* dropped task had a record that is gone after the step.                  *)
Deals ==
    /\ done \subseteq done' /\ dropped \subseteq dropped'
    /\ \A t \in Tasks : t \in done' \ done => Tracked(t)
    /\ \A t \in Tasks : t \in dropped' \ dropped =>
         Place(t) # "none" /\ Place(t)' = "none" /\ t \notin done

KeepsTracked == \A t \in Tasks : Tracked(t) => Tracked(t)'

RecordStep ==
    /\ NoRepeats'
    /\ \A t \in Tasks : TaskStep(t)
    /\ Deals
    /\ \A w \in Workers :
         holding'[w] = holding[w] \/ holding'[w] = None \/ Waits(holding'[w])

-----------------------------------------------------------------------------
(* Tracked, with the places named. *)
LEMMA TrackedIs ==
    ASSUME NEW t \in Tasks
    PROVE  Tracked(t) <=> Place(t) # "none" \/ t \in done \cup dropped
BY DEF Tracked, Place, Waits, Paired, Carried, Holds

(* The same in the next state. *)
LEMMA TrackedIsNext ==
    ASSUME NEW t \in Tasks
    PROVE  Tracked(t)' <=> Place(t)' # "none" \/ t \in (done \cup dropped)'
BY DEF Tracked, Place, Waits, Paired, Carried, Holds

(* A step that adds no copy of task t leaves its record alone or ends it.  *)
LEMMA NothingAdded ==
    ASSUME NEW t \in Tasks, Alone(t), Tracked(t) => Tracked(t)',
           Waits(t)' => Waits(t),
           \A p \in Pairs' : p.second = t => p \in Pairs,
           \A w \in Workers : Holds(w, t)' => Holds(w, t)
    PROVE  TaskStep(t)
<1>1. Paired(t)' => Paired(t)
  BY DEF Paired
<1>2. Carried(t)' => Carried(t)
  BY DEF Carried
<1>3. Alone(t)'
  BY <1>1, <1>2 DEF Alone
<1>4. Place(t)' = Place(t) \/ (Place(t) # "none" /\ Place(t)' = "none")
  BY <1>1, <1>2 DEF Alone, Place
<1>5. StepOf(t)
  BY <1>4, TrackedIs, TrackedIsNext DEF StepOf
<1>6. ASSUME NEW p \in Pairs, p.second = t, p \notin Pairs'
      PROVE  Place(t)' = "none"
  <2>1. Paired(t) /\ ~Waits(t) /\ ~Carried(t)
    BY <1>6 DEF Alone, Paired
  <2>2. ~Paired(t)'
    BY <1>6 DEF Alone, Paired
  <2> QED
    BY <2>1, <2>2, <1>2 DEF Place
<1> QED
  BY <1>3, <1>5, <1>6 DEF TaskStep, PairStep

(* The lists of pairs have TaskPairs as elements, and None is none. *)
LEMMA ListTypes ==
    ASSUME TypeOK
    PROVE  /\ ToSet(task_queue) \subseteq Tasks
           /\ ToSet(processing_queue) \subseteq TaskPair
           /\ ToSet(temp_queue) \subseteq TaskPair
           /\ Pairs \subseteq TaskPair
           /\ None \notin TaskPair
<1>1. /\ ToSet(task_queue) \subseteq Tasks
      /\ ToSet(processing_queue) \subseteq TaskPair
      /\ ToSet(temp_queue) \subseteq TaskPair
  BY ElementOfSeq, LenProperties DEF TypeOK, StoreTypeOK, ToSet
<1>2. None \notin TaskPair
  BY NoneAssumption DEF TaskPair
<1> QED
  BY <1>1, <1>2 DEF Pairs, TypeOK, OrchestratorTypeOK

(* A step after which there is less of everything. *)
LEMMA FewerStep ==
    ASSUME RInv, KeepsTracked, NoRepeats', Deals,
           ToSet(task_queue)' \subseteq ToSet(task_queue), Pairs' \subseteq Pairs,
           \A w \in Workers : \/ holding'[w] = None
                              \/ holding'[w] = holding[w] /\ registered'[w] = registered[w]
    PROVE  RecordStep
<1>1. ASSUME NEW t \in Tasks
      PROVE  TaskStep(t)
  <2>1. Alone(t) /\ (Tracked(t) => Tracked(t)')
    BY DEF RInv, Apart, KeepsTracked
  <2>2. Waits(t)' => Waits(t)
    BY DEF Waits
  <2>3. \A w \in Workers : Holds(w, t)' => Holds(w, t)
    BY NoneAssumption DEF Holds
  <2> QED
    BY <2>1, <2>2, <2>3, NothingAdded
<1> QED
  BY <1>1 DEF RecordStep

(* A step that moves nothing; a task of the cluster may become done.       *)
LEMMA IdleStep ==
    ASSUME RInv, KeepsTracked,
           UNCHANGED <<lists, hand, holding, registered, dropped>>,
           done \subseteq done', \A t \in done' \ done : Tracked(t)
    PROVE  RecordStep
<1>1. NoRepeats'
  BY DEF RInv, NoRepeats, lists
<1>2. Deals
  BY DEF Deals
<1>3. ToSet(task_queue)' = ToSet(task_queue) /\ Pairs' = Pairs
  BY DEF Pairs, lists
<1> QED
  BY <1>1, <1>2, <1>3, FewerStep

(* The handlers' steps: only a push of the body adds a record, and the     *)
(* task had none before.                                                   *)
LEMMA HandlerRecord ==
    ASSUME RInv, KeepsTracked, NEW t \in Tasks,
           \/ IncrementRequestCount(t) \/ AcceptRequest(t) \/ RefuseRequest(t)
           \/ CountLost(t) \/ PushFails(t),
           UNCHANGED <<hand, holding, registered>>
    PROVE  RecordStep
<1> USE DEF RInv, IInv
<1>1. UNCHANGED <<processing_queue, temp_queue, done, dropped>>
  BY DEF IncrementRequestCount, AcceptRequest, RefuseRequest, CountLost, PushFails,
         lists, storeVars, history
<1>2. CASE UNCHANGED task_queue
  BY <1>1, <1>2, IdleStep DEF lists
<1>3. CASE task_queue' # task_queue
  <2>1. /\ task_queue' = Append(task_queue, t)
        /\ req[t] = "counted" /\ req'[t] \in {"accepted", "refused"}
    BY <1>3 DEF IncrementRequestCount, AcceptRequest, RefuseRequest, CountLost, PushFails,
                lists, storeVars, Answer, TypeOK, ControllerTypeOK
  <2>2. ~Waits(t) /\ ~Paired(t) /\ ~Carried(t) /\ t \notin done \cup dropped
    BY <2>1 DEF Unsent, Tracked, Waits, Paired, Carried, Holds
  <2>3. IsInjective(task_queue')
    BY <2>1, <2>2, AppendNoRepeats DEF NoRepeats, Waits, TypeOK, StoreTypeOK
  <2>4. NoRepeats'
    BY <1>1, <2>3 DEF NoRepeats
  <2>5. ToSet(task_queue)' = ToSet(task_queue) \cup {t}
    BY <2>1, AppendToSet DEF TypeOK, StoreTypeOK
  <2>6. Pairs' = Pairs
    BY <1>1 DEF Pairs
  <2>7. ASSUME NEW u \in Tasks
        PROVE  TaskStep(u)
    <3>1. CASE u # t
      BY <1>1, <2>5, <2>6, <3>1, NothingAdded DEF Waits, Apart, KeepsTracked, Holds
    <3>2. CASE u = t
      <4>1. Waits(t)' /\ ~Paired(t)' /\ ~Carried(t)'
        BY <2>2, <2>5, <2>6 DEF Waits, Paired, Carried, Holds
      <4>2. Alone(t)'
        BY <4>1 DEF Alone, Paired, Carried
      <4>3. StepOf(t)
        BY <2>1, <2>2, <4>1 DEF StepOf, Place
      <4> QED
        BY <2>6, <3>2, <4>2, <4>3 DEF TaskStep, PairStep
    <3> QED
      BY <3>1, <3>2
  <2> QED
    BY <1>1, <2>4, <2>7 DEF RecordStep, Deals
<1> QED
  BY <1>2, <1>3

(* BLPop moves the head of task_queue into the worker's memory. *)
LEMMA PopRecord ==
    ASSUME RInv, KeepsTracked, NEW w \in Workers, BLPop(w), UNCHANGED hand
    PROVE  RecordStep
<1> USE DEF RInv, IInv
<1> DEFINE t == Head(task_queue)
<1>1. /\ t \in Tasks /\ task_queue' = Tail(task_queue)
      /\ IsInjective(task_queue')
      /\ ToSet(task_queue)' = ToSet(task_queue) \ {t}
      /\ t \in ToSet(task_queue)
  BY HeadTailToSet, HeadTailNoRepeats DEF BLPop, NoRepeats, TypeOK, StoreTypeOK
<1>2. UNCHANGED <<processing_queue, temp_queue, done, dropped, registered>>
  BY DEF BLPop, history
<1>3. NoRepeats'
  BY <1>1, <1>2 DEF NoRepeats
<1>4. Pairs' = Pairs
  BY <1>2 DEF Pairs
<1>5. /\ holding'[w] = t /\ ~registered[w]
      /\ \A v \in Workers \ {w} : holding'[v] = holding[v]
  BY PollingHoldsNothing DEF BLPop, TypeOK, WorkerTypeOK
<1>6. ASSUME NEW u \in Tasks
      PROVE  TaskStep(u)
  <2>1. CASE u # t
    <3>1. \A v \in Workers : Holds(v, u)' => Holds(v, u)
      BY <1>2, <1>5, <2>1 DEF Holds
    <3>2. Waits(u)' => Waits(u)
      BY <1>1 DEF Waits
    <3> HIDE DEF t
    <3> QED
      BY <1>4, <3>1, <3>2, NothingAdded DEF Apart, KeepsTracked
  <2>2. CASE u = t
    <3>1. Waits(u) /\ ~Paired(u) /\ ~Carried(u)
      BY <1>1, <2>2 DEF Apart, Alone, Waits
    <3>2. ~Waits(u)' /\ ~Paired(u)'
      BY <1>1, <1>4, <2>2, <3>1 DEF Waits, Paired
    <3>3. Holds(w, u)' /\ \A v \in Workers \ {w} : ~Holds(v, u)'
      BY <1>2, <1>5, <2>2, <3>1 DEF Holds, Carried
    <3>4. Carried(u)'
      BY <3>3 DEF Carried
    <3>5. Alone(u)'
      BY <3>2, <3>3 DEF Alone, Paired
    <3>6. StepOf(u)
      BY <3>1, <3>2, <3>4 DEF StepOf, Place
    <3> QED
      BY <1>4, <3>5, <3>6 DEF TaskStep, PairStep
  <2> QED
    BY <2>1, <2>2
<1>7. \A v \in Workers : holding'[v] = holding[v] \/ Waits(holding'[v])
  BY <1>1, <1>5 DEF Waits
<1> QED
  BY <1>2, <1>3, <1>6, <1>7 DEF RecordStep, Deals

(* Register writes the worker's task down on processing_queue. *)
LEMMA RegisterRecord ==
    ASSUME RInv, KeepsTracked, NEW w \in Workers, Register(w), UNCHANGED hand
    PROVE  RecordStep
<1> USE DEF RInv, IInv
<1> DEFINE t == holding[w]
           p == Pair(w, t)
<1>1. t \in Tasks /\ p \in TaskPair /\ p.second = t
  BY BusyHolds, PairType DEF Register, Busy, Pair
<1>2. Holds(w, t) /\ Carried(t)
  BY DEF Register, Holds, Carried, TypeOK, WorkerTypeOK
<1>3. ~Waits(t) /\ ~Paired(t)
  BY <1>1, <1>2 DEF Apart, Alone
<1>4. p \notin Pairs
  BY <1>1, <1>3 DEF Paired
<1>5. p \notin ToSet(processing_queue) /\ p \notin ToSet(temp_queue) /\ p # hand
  BY <1>1, <1>4, ListTypes DEF Pairs
<1>6. /\ UNCHANGED <<task_queue, temp_queue, dropped, holding>>
      /\ processing_queue' = Append(processing_queue, p)
      /\ registered' = [registered EXCEPT ![w] = TRUE]
      /\ done' = done \cup ({t} \ Runnable)
  BY DEF Register, Dispatch
<1>7. /\ IsInjective(processing_queue')
      /\ ToSet(processing_queue)' = ToSet(processing_queue) \cup {p}
  <2> HIDE DEF p
  <2> QED
    BY <1>1, <1>5, <1>6, AppendNoRepeats, AppendToSet DEF NoRepeats, TypeOK, StoreTypeOK
<1>8. NoRepeats'
  BY <1>5, <1>6, <1>7 DEF NoRepeats
<1>9. Pairs' = Pairs \cup {p}
  BY <1>6, <1>7 DEF Pairs
<1>10. registered'[w] /\ \A v \in Workers \ {w} : registered'[v] = registered[v]
  BY <1>6 DEF TypeOK, WorkerTypeOK
<1>11. ASSUME NEW u \in Tasks
       PROVE  TaskStep(u)
  <2>1. \A v \in Workers : Holds(v, u)' => Holds(v, u) /\ v # w
    BY <1>6, <1>10 DEF Holds
  <2>2. CASE u # t
    <3>1. Waits(u)' => Waits(u)
      BY <1>6 DEF Waits
    <3>2. \A q \in Pairs' : q.second = u => q \in Pairs
      BY <1>1, <1>9, <2>2
    <3> QED
      BY <2>1, <3>1, <3>2, NothingAdded DEF Apart, KeepsTracked
  <2>3. CASE u = t
    <3>1. ~Waits(u)' /\ Paired(u)'
      BY <1>1, <1>3, <1>6, <1>9, <2>3 DEF Waits, Paired
    <3>2. \A v \in Workers : ~Holds(v, u)'
      <4>1. \A v \in Workers : Holds(v, u) => v = w
        BY <1>2, <2>3 DEF Apart, Alone
      <4> QED
        BY <2>1, <4>1
    <3>3. ~Carried(u)'
      BY <3>2 DEF Carried
    <3>4. Alone(u)'
      BY <1>3, <1>9, <2>3, <3>1, <3>2, <3>3 DEF Alone, Paired
    <3>5. StepOf(u)
      BY <1>2, <1>3, <2>3, <3>1, <3>3 DEF StepOf, Place
    <3> QED
      BY <1>9, <3>4, <3>5 DEF TaskStep, PairStep
  <2> QED
    BY <2>2, <2>3
<1>12. Tracked(t)
  BY <1>2 DEF Tracked, Holds
<1>13. Deals
  BY <1>6, <1>12 DEF Deals
<1> QED
  BY <1>6, <1>8, <1>11, <1>13 DEF RecordStep

(* A round that ends, or a process that does: the cleanup takes the pair   *)
(* out, a lost reply of BLPop destroys a waiting task, a kill the task in  *)
(* the worker's memory.                                                    *)
LEMMA LeaveRecord ==
    ASSUME RInv, KeepsTracked, NEW w \in Workers,
           PollCancelled(w) \/ Ack(w) \/ PollFails(w) \/ AckFails(w) \/ Die(w),
           UNCHANGED hand
    PROVE  RecordStep
<1> USE DEF RInv, IInv
<1>1. /\ EndTask(w) \/ Halt(w)
      /\ UNCHANGED <<temp_queue, done>>
  BY DEF PollCancelled, Ack, PollFails, AckFails, Die, storeVars, lists, history
<1>2. /\ holding'[w] = None
      /\ \A v \in Workers \ {w} : holding'[v] = holding[v] /\ registered'[v] = registered[v]
  BY <1>1, EndTaskOthers DEF EndTask, Halt, TypeOK, WorkerTypeOK
<1>3. /\ IsInjective(processing_queue')
      /\ ToSet(processing_queue)' \subseteq ToSet(processing_queue)
  <2>1. CASE Ack(w)
    BY <2>1, RemoveFirstNoRepeats DEF Ack, LRem, NoRepeats, TypeOK, StoreTypeOK
  <2>2. CASE PollCancelled(w) \/ PollFails(w) \/ AckFails(w) \/ Die(w)
    BY <2>2 DEF PollCancelled, PollFails, AckFails, Die, storeVars, lists, NoRepeats
  <2> QED
    BY <2>1, <2>2
<1>4. CASE PollFails(w) /\ ~UNCHANGED <<task_queue, dropped>>
  <2>1. task_queue # <<>> /\ task_queue' = Tail(task_queue) /\ Drop(Head(task_queue))
    BY <1>4 DEF PollFails
  <2>2. IsInjective(task_queue) /\ task_queue \in Seq(Tasks)
    BY DEF NoRepeats, TypeOK, StoreTypeOK
  <2>3. PICK t \in Tasks : t = Head(task_queue)
    BY <2>1, <2>2, HeadTailToSet
  <2>4. /\ IsInjective(task_queue')
        /\ ToSet(task_queue)' = ToSet(task_queue) \ {t}
        /\ t \in ToSet(task_queue)
    BY <2>1, <2>2, <2>3, HeadTailToSet, HeadTailNoRepeats
  <2>5. NoRepeats' /\ Pairs' \subseteq Pairs
    BY <1>1, <1>3, <2>4 DEF NoRepeats, Pairs
  <2>6. Waits(t) /\ ~Paired(t) /\ ~Carried(t)
    BY <2>4 DEF Waits, Apart, Alone
  <2>7. ~Waits(t)' /\ ~Paired(t)' /\ ~Carried(t)'
    BY <1>2, <2>4, <2>5, <2>6, NoneAssumption DEF Waits, Paired, Carried, Holds
  <2>8. Deals
    BY <1>1, <2>1, <2>3, <2>6, <2>7 DEF Deals, Drop, Place
  <2> QED
    BY <1>2, <2>4, <2>5, <2>8, FewerStep
<1>5. CASE ~PollFails(w) \/ UNCHANGED <<task_queue, dropped>>
  <2>1. UNCHANGED task_queue
    BY <1>5 DEF PollCancelled, Ack, PollFails, AckFails, Die, storeVars, lists
  <2>2. NoRepeats' /\ ToSet(task_queue)' = ToSet(task_queue) /\ Pairs' \subseteq Pairs
    BY <1>1, <1>3, <2>1 DEF NoRepeats, Pairs
  <2>3. CASE UNCHANGED dropped
    <3>1. Deals
      BY <1>1, <2>3 DEF Deals
    <3> QED
      BY <1>2, <2>2, <3>1, FewerStep
  <2>4. CASE ~UNCHANGED dropped
    <3>1. Die(w) /\ ~registered[w] /\ phase[w] \in {"popped", "running"}
      BY <1>5, <2>4 DEF PollCancelled, Ack, PollFails, AckFails, Die, storeVars, history
    <3>2. PICK t \in Tasks : t = holding[w]
      BY <3>1, BusyHolds DEF Busy
    <3>3. Holds(w, t) /\ Carried(t)
      BY <3>1, <3>2 DEF Holds, Carried
    <3>4. ~Waits(t) /\ ~Paired(t) /\ \A v \in Workers : Holds(v, t) => v = w
      BY <3>3 DEF Apart, Alone
    <3>5. ~Waits(t)' /\ ~Paired(t)' /\ ~Carried(t)'
      BY <1>2, <2>2, <3>4, NoneAssumption DEF Waits, Paired, Carried, Holds
    <3>6. dropped' = dropped \cup ({t} \ done)
      BY <3>1, <3>2 DEF Die, Drop
    <3>7. Deals
      BY <1>1, <3>3, <3>5, <3>6 DEF Deals, Place
    <3> QED
      BY <1>2, <2>2, <3>7, FewerStep
  <2> QED
    BY <2>3, <2>4
<1> QED
  BY <1>4, <1>5

(* The sweep carries pairs from list to list, and a task back to           *)
(* task_queue only by giving up its pair.                                  *)
LEMMA RequeueRecord ==
    ASSUME RInv, KeepsTracked, SweepRequeue
    PROVE  RecordStep
<1> USE DEF RInv, IInv
<1>1. PICK p \in TaskPair : p = hand
  BY DEF SweepRequeue, Routed, TypeOK, OrchestratorTypeOK
<1>2. PICK t \in Tasks : t = p.second
  BY PairFields
<1>3. /\ UNCHANGED <<processing_queue, temp_queue, done, dropped, holding, registered>>
      /\ task_queue' = Append(task_queue, t)
      /\ hand' = None
  BY <1>1, <1>2 DEF SweepRequeue, GivenBack, Routed, workerVars
<1>4. p \in Pairs /\ p # None
  BY <1>1, ListTypes DEF Pairs
<1>5. Paired(t) /\ ~Waits(t) /\ ~Carried(t) /\ \A q \in Pairs : q.second = t => q = p
  BY <1>2, <1>4 DEF Apart, Alone, Paired
<1>6. /\ IsInjective(task_queue')
      /\ ToSet(task_queue)' = ToSet(task_queue) \cup {t}
  BY <1>3, <1>5, AppendNoRepeats, AppendToSet DEF NoRepeats, Waits, TypeOK, StoreTypeOK
<1>7. None \notin ToSet(processing_queue) \cup ToSet(temp_queue)
  BY ListTypes
<1>8. NoRepeats'
  BY <1>3, <1>6, <1>7 DEF NoRepeats
<1>9. Pairs' = Pairs \ {p}
  BY <1>1, <1>3, <1>7 DEF Pairs, NoRepeats
<1>10. ASSUME NEW u \in Tasks
       PROVE  TaskStep(u)
  <2>1. \A v \in Workers : Holds(v, u)' <=> Holds(v, u)
    BY <1>3 DEF Holds
  <2>2. CASE u # t
    <3>1. Waits(u)' => Waits(u)
      BY <1>6, <2>2 DEF Waits
    <3> QED
      BY <1>9, <2>1, <3>1, NothingAdded DEF Apart, KeepsTracked
  <2>3. CASE u = t
    <3>1. Waits(u)' /\ ~Paired(u)' /\ ~Carried(u)'
      BY <1>5, <1>6, <1>9, <2>1, <2>3 DEF Waits, Paired, Carried
    <3>2. Alone(u)'
      BY <3>1 DEF Alone, Paired, Carried
    <3>3. StepOf(u)
      BY <1>5, <2>3, <3>1 DEF StepOf, Place
    <3>4. \A q \in Pairs : q.second = u => PairStep(q)
      BY <1>1, <1>5, <2>3 DEF PairStep, SweepRequeue
    <3> QED
      BY <3>2, <3>3, <3>4 DEF TaskStep
  <2> QED
    BY <2>2, <2>3
<1> QED
  BY <1>3, <1>8, <1>10 DEF RecordStep, Deals

(* The other steps of the sweep that leave the pairs a sweep can find as   *)
(* they are.                                                               *)
LEMMA SweepRecord ==
    ASSUME RInv, KeepsTracked,
           \/ SweepPop \/ SweepEmpty \/ SweepKeep \/ SweepRestore \/ SweepEnd
           \/ SweepRestoreFails
    PROVE  RecordStep
<1> USE DEF RInv, IInv
<1>1. UNCHANGED <<task_queue, done, dropped, holding, registered>>
  BY DEF SweepPop, SweepEmpty, SweepKeep, SweepRestore, SweepEnd, SweepRestoreFails, Routed,
         storeVars, lists, history, workerVars
<1>2. stage # "routing" => hand = None
  BY DEF TypeOK, OrchestratorTypeOK
<1>3. SUFFICES NoRepeats' /\ Pairs' = Pairs
  <2>1. Deals
    BY <1>1 DEF Deals
  <2> QED
    BY <1>1, <1>3, <2>1, FewerStep
<1>4. CASE SweepPop
  <2>1. /\ Head(processing_queue) \in TaskPair
        /\ IsInjective(processing_queue')
        /\ ToSet(processing_queue)' = ToSet(processing_queue) \ {Head(processing_queue)}
        /\ Head(processing_queue) \in ToSet(processing_queue)
    BY <1>4, HeadTailToSet, HeadTailNoRepeats DEF SweepPop, NoRepeats, TypeOK, StoreTypeOK
  <2>2. UNCHANGED temp_queue /\ hand' = Head(processing_queue)
    BY <1>4 DEF SweepPop
  <2>3. NoRepeats'
    BY <1>1, <2>1, <2>2 DEF NoRepeats
  <2>4. Pairs' = Pairs
    BY <1>2, <1>4, <2>1, <2>2, ListTypes DEF Pairs, SweepPop
  <2> QED
    BY <2>3, <2>4
<1>5. CASE SweepKeep
  <2>1. hand \in TaskPair /\ hand # None /\ hand' = None /\ UNCHANGED processing_queue
    BY <1>5, ListTypes DEF SweepKeep, Routed, TypeOK, OrchestratorTypeOK
  <2>2. /\ IsInjective(temp_queue')
        /\ ToSet(temp_queue)' = ToSet(temp_queue) \cup {hand}
    BY <1>5, <2>1, AppendNoRepeats, AppendToSet
       DEF SweepKeep, Parked, NoRepeats, TypeOK, StoreTypeOK
  <2>3. NoRepeats'
    BY <1>1, <2>1, <2>2, ListTypes DEF NoRepeats
  <2>4. Pairs' = Pairs
    BY <2>1, <2>2, ListTypes DEF Pairs
  <2> QED
    BY <2>3, <2>4
<1>6. CASE SweepRestore
  <2>1. UNCHANGED hand
    BY <1>6 DEF SweepRestore, orchestratorVars
  <2>2. PICK p \in TaskPair : p = Head(temp_queue)
    BY <1>6, HeadTailToSet DEF SweepRestore, TypeOK, StoreTypeOK
  <2>3. /\ IsInjective(temp_queue')
        /\ ToSet(temp_queue)' = ToSet(temp_queue) \ {p}
        /\ p \in ToSet(temp_queue)
    BY <1>6, <2>2, HeadTailToSet, HeadTailNoRepeats
       DEF SweepRestore, Moved, NoRepeats, TypeOK, StoreTypeOK
  <2>4. /\ IsInjective(processing_queue')
        /\ ToSet(processing_queue)' = ToSet(processing_queue) \cup {p}
    BY <1>6, <2>2, <2>3, AppendNoRepeats, AppendToSet
       DEF SweepRestore, NoRepeats, TypeOK, StoreTypeOK
  <2>5. NoRepeats'
    BY <1>1, <2>1, <2>3, <2>4 DEF NoRepeats
  <2>6. Pairs' = Pairs
    BY <2>1, <2>3, <2>4 DEF Pairs
  <2> QED
    BY <2>5, <2>6
<1>7. CASE SweepEmpty \/ SweepEnd \/ SweepRestoreFails
  BY <1>7 DEF SweepEmpty, SweepEnd, SweepRestoreFails, NoRepeats, Pairs, storeVars, lists
<1> QED
  BY <1>4, <1>5, <1>6, <1>7

(* A pair is lost by a failing LPop or RPush of the sweep, or by a crash   *)
(* of the master that has it in hand.                                      *)
LEMMA SweepLossRecord ==
    ASSUME RInv, KeepsTracked, SweepPopFails \/ SweepRouteFails \/ Restart
    PROVE  RecordStep
<1> USE DEF RInv, IInv
<1>1. UNCHANGED <<task_queue, temp_queue, done, holding, registered>>
  BY DEF SweepPopFails, SweepRouteFails, Restart, Routed, lists, workerVars
<1>2. stage # "routing" => hand = None
  BY DEF TypeOK, OrchestratorTypeOK
<1>3. ASSUME NEW p \in Pairs, Drop(p.second), Pairs' = Pairs \ {p}, NoRepeats'
      PROVE  RecordStep
  <2>1. PICK t \in Tasks : t = p.second
    BY PairFields, ListTypes
  <2>2. Paired(t) /\ ~Waits(t) /\ ~Carried(t) /\ \A q \in Pairs : q.second = t => q = p
    BY <2>1 DEF Apart, Alone, Paired
  <2>3. ~Waits(t)' /\ ~Paired(t)' /\ ~Carried(t)'
    BY <1>1, <1>3, <2>2 DEF Waits, Paired, Carried, Holds
  <2>4. dropped' = dropped \cup ({t} \ done)
    BY <1>3, <2>1 DEF Drop
  <2>5. Deals
    BY <1>1, <2>2, <2>3, <2>4 DEF Deals, Place
  <2> QED
    BY <1>1, <1>3, <2>5, FewerStep
<1>4. CASE SweepPopFails /\ ~UNCHANGED <<processing_queue, dropped>>
  <2>1. /\ processing_queue # <<>> /\ processing_queue' = Tail(processing_queue)
        /\ Drop(Head(processing_queue).second)
        /\ hand = None /\ hand' = None
    BY <1>2, <1>4 DEF SweepPopFails
  <2>2. PICK p \in TaskPair : p = Head(processing_queue)
    BY <2>1, HeadTailToSet DEF TypeOK, StoreTypeOK
  <2>3. /\ IsInjective(processing_queue')
        /\ ToSet(processing_queue)' = ToSet(processing_queue) \ {p}
        /\ p \in ToSet(processing_queue)
    BY <2>1, <2>2, HeadTailToSet, HeadTailNoRepeats DEF NoRepeats, TypeOK, StoreTypeOK
  <2>4. NoRepeats'
    BY <1>1, <2>1, <2>3 DEF NoRepeats
  <2>5. p \in Pairs /\ Pairs' = Pairs \ {p}
    BY <1>1, <2>1, <2>3 DEF Pairs, NoRepeats
  <2> QED
    BY <1>3, <2>1, <2>2, <2>4, <2>5
<1>5. CASE SweepRouteFails \/ (Restart /\ stage = "routing")
  <2>1. /\ UNCHANGED processing_queue /\ hand' = None
        /\ Drop(hand.second) /\ hand \in TaskPair
    BY <1>5 DEF SweepRouteFails, Routed, Restart, lists, TypeOK, OrchestratorTypeOK
  <2>2. PICK p \in TaskPair : p = hand
    BY <2>1
  <2>3. NoRepeats'
    BY <1>1, <2>1, ListTypes DEF NoRepeats
  <2>4. p \in Pairs /\ Pairs' = Pairs \ {p}
    BY <1>1, <2>1, <2>2, ListTypes DEF Pairs, NoRepeats
  <2> QED
    BY <1>3, <2>1, <2>2, <2>3, <2>4
<1>6. CASE \/ SweepPopFails /\ UNCHANGED <<processing_queue, dropped>>
           \/ Restart /\ stage # "routing"
  <2>1. UNCHANGED <<processing_queue, dropped, hand>>
    BY <1>2, <1>6 DEF SweepPopFails, Restart, lists
  <2> QED
    BY <1>1, <2>1, IdleStep DEF lists
<1> QED
  BY <1>4, <1>5, <1>6

(* The worker's steps that leave its task where it is: the task function   *)
(* returns, a body turns out not to be runnable, a signal travels on.      *)
LEMMA DealRecord ==
    ASSUME RInv, KeepsTracked, NEW w \in Workers,
           \/ Finish(w) \/ RegisterFails(w) \/ IncrFails(w) \/ StoreFlag(w) \/ Cancel(w),
           UNCHANGED hand
    PROVE  RecordStep
<1>1. UNCHANGED <<lists, hand, holding, registered, dropped>>
  BY DEF Finish, RegisterFails, IncrFails, StoreFlag, Cancel, storeVars, history
<1>2. CASE UNCHANGED done
  BY <1>1, <1>2, IdleStep
<1>3. CASE ~UNCHANGED done
  <2>1. Busy(w) /\ done \subseteq done' /\ \A t \in done' \ done : t = holding[w]
    BY <1>3 DEF Finish, RegisterFails, IncrFails, StoreFlag, Cancel, storeVars, history,
                Dispatch, Busy
  <2>2. Tracked(holding[w])
    BY <2>1 DEF RInv, InHandTracked
  <2> QED
    BY <1>1, <2>1, <2>2, IdleStep
<1> QED
  BY <1>2, <1>3

(* Starting and stopping containers moves no record, until it kills a      *)
(* worker that has one.                                                    *)
LEMMA ScalingRecord ==
    ASSUME RInv, KeepsTracked,
           \/ Tick \/ ScaleUp \/ ScaleDown \/ TickAborted \/ ScaleFails
           \/ GenerateStep \/ GenerateFails \/ DestroyStep
           \/ StopFails \/ RemoveFails \/ (\E w \in Workers : StatsFail(w))
    PROVE  RecordStep
<1> USE DEF storeVars, history, workerVars
<1>1. CASE UNCHANGED <<lists, hand, holding, registered, dropped, done>>
  BY <1>1, IdleStep
<1>2. CASE GraceExpires
  BY <1>2, LeaveRecord DEF GraceExpires, orchestratorVars, RInv, IInv, TypeOK, OrchestratorTypeOK
<1>3. CASE Tick \/ ScaleUp \/ ScaleDown \/ TickAborted \/ ScaleFails
  BY <1>1, <1>3 DEF Tick, ScaleUp, ScaleDown, TickAborted, ScaleFails
<1>4. CASE GenerateStep \/ GenerateFails
  BY <1>1, <1>4 DEF GenerateStep, Generate, Boot, GenerateNoID, GenerateEnd, GenerateFails
<1>5. ASSUME NEW w \in Workers, Skip(w) \/ Choose(w) \/ StatsFail(w)
      PROVE  RecordStep
  BY <1>1, <1>5 DEF Skip, Choose, StatsFail, Look
<1>6. CASE NextPass \/ DestroyEnd \/ StopSignal \/ StopReturns \/ StopFails \/ RemoveFails
  BY <1>1, <1>6 DEF NextPass, DestroyEnd, StopSignal, StopReturns, StopFails, RemoveFails, VictimDone
<1> QED
  BY <1>2, <1>3, <1>4, <1>5, <1>6 DEF DestroyStep

(* Every step of the cluster. *)
LEMMA EveryRecordStep ==
    ASSUME RInv, [Next]_vars
    PROVE  RecordStep
<1>1. KeepsTracked
  BY TrackedStep DEF KeepsTracked, RInv, IInv
<1>2. ASSUME NEW t \in Tasks, Handler(t) \/ HandlerFault(t)
      PROVE  RecordStep
  BY <1>1, <1>2, HandlerRecord DEF Handler, HandlerFault, workerVars, orchestratorVars
<1>3. ASSUME NEW w \in Workers, Loop(w) \/ LoopCancelled(w) \/ OnSignal(w) \/ WorkerFault(w)
      PROVE  RecordStep
  BY <1>1, <1>3, PopRecord, RegisterRecord, LeaveRecord, DealRecord
     DEF Loop, LoopCancelled, OnSignal, WorkerFault, orchestratorVars
<1>4. ASSUME NEW w \in Workers, WorkerCrash(w)
      PROVE  RecordStep
  BY <1>1, <1>4, LeaveRecord DEF WorkerCrash, orchestratorVars
<1>5. ASSUME NEW w \in Workers, ManualStart(w)
      PROVE  RecordStep
  BY <1>1, <1>5, IdleStep DEF ManualStart, Boot, storeVars, history, orchestratorVars
<1>6. CASE Orchestrate \/ OrchestratorFault \/ MeasurementFault
  BY <1>1, <1>6, RequeueRecord, SweepRecord, SweepLossRecord, ScalingRecord
     DEF Orchestrate, OrchestratorFault, MeasurementFault, Processing_to_main
<1>7. CASE MasterCrash
  BY <1>1, <1>7, SweepLossRecord DEF MasterCrash
<1>8. CASE UNCHANGED vars
  BY <1>1, <1>8, IdleStep DEF vars, storeVars, history, workerVars, orchestratorVars
<1> QED
  BY <1>2, <1>3, <1>4, <1>5, <1>6, <1>7, <1>8 DEF Next, Failure

(* A request that is not answered after a step was not before it. *)
LEMMA RequestStep ==
    ASSUME TypeOK, [Next]_vars, NEW t \in Tasks
    PROVE  /\ req'[t] \in {"new", "counted"} => req[t] \in {"new", "counted"}
           /\ req[t] = "refused" => req'[t] = "refused"
           /\ req'[t] = "refused" => req[t] \in {"counted", "refused"}
<1>1. ASSUME NEW u \in Tasks, Handler(u) \/ HandlerFault(u)
      PROVE  \/ UNCHANGED req
             \/ /\ req[u] = "new" /\ req' = [req EXCEPT ![u] = "counted"]
             \/ /\ req[u] = "counted"
                /\ req' \in {[req EXCEPT ![u] = "accepted"], [req EXCEPT ![u] = "refused"]}
  BY <1>1 DEF Handler, HandlerFault, IncrementRequestCount, AcceptRequest, RefuseRequest,
              CountLost, PushFails, Answer
<1>2. CASE MasterCrash
  BY <1>2 DEF MasterCrash
<1>3. CASE UNCHANGED req
  BY <1>3
<1>4. CASE ~MasterCrash /\ ~ \E u \in Tasks : Handler(u) \/ HandlerFault(u)
  BY <1>3, <1>4 DEF Next, Failure, Loop, LoopCancelled, OnSignal, ManualStart, Orchestrate,
                    WorkerCrash, WorkerFault, OrchestratorFault, MeasurementFault, vars
<1> QED
  BY <1>1, <1>2, <1>3, <1>4 DEF TypeOK, ControllerTypeOK

-----------------------------------------------------------------------------
(* The three facts that make RInv an invariant. *)
LEMMA RInvInit == Init => RInv
<1> SUFFICES ASSUME Init PROVE RInv
  OBVIOUS
<1> USE DEF Init, StoreInit, WorkerInit, OrchestratorInit
<1>1. IInv
  BY IInvInit
<1>2. ToSet(<<>>) = {} /\ IsInjective(<<>>)
  BY EmptyToSet DEF IsInjective
<1>3. NoRepeats /\ Pairs = {}
  BY <1>2 DEF NoRepeats, Pairs
<1>4. ASSUME NEW t \in Tasks
      PROVE  ~Waits(t) /\ ~Paired(t) /\ ~Carried(t) /\ ~Tracked(t)
  BY <1>2, <1>3, <1>4, NoneAssumption DEF Waits, Paired, Carried, Holds, Tracked
<1>5. Apart /\ Unsent
  BY <1>3, <1>4 DEF Apart, Alone, Unsent, Carried
<1>6. InHandTracked
  BY DEF InHandTracked, Busy
<1> QED
  BY <1>1, <1>3, <1>5, <1>6 DEF RInv

(* No step gives a task a second record. *)
LEMMA RInvStep == RInv /\ [Next]_vars => RInv'
<1> SUFFICES ASSUME RInv, [Next]_vars PROVE RInv'
  OBVIOUS
<1>1. IInv' /\ TypeOK /\ TypeOK'
  BY IInvStep, TypeStep DEF RInv, IInv
<1>2. RecordStep
  BY EveryRecordStep
<1>3. NoRepeats' /\ Apart'
  BY <1>2 DEF RecordStep, TaskStep, Apart
<1>4. Unsent'
  <2> SUFFICES ASSUME NEW t \in Tasks, req'[t] \in {"new", "counted"}
               PROVE  ~Tracked(t)'
    BY DEF Unsent
  <2>1. req[t] \in {"new", "counted"}
    BY <1>1, RequestStep
  <2>2. ~Tracked(t) /\ Place(t) = "none" /\ t \notin done \cup dropped
    BY <2>1, TrackedIs DEF RInv, Unsent
  <2>3. StepOf(t) /\ Deals
    BY <1>2 DEF RecordStep, TaskStep
  <2>4. Place(t)' = "none" /\ t \notin (done \cup dropped)'
    BY <2>2, <2>3 DEF StepOf, Deals
  <2> QED
    BY <2>4, TrackedIsNext
<1>5. InHandTracked'
  <2> SUFFICES ASSUME NEW w \in Workers, Busy(w)'
               PROVE  Tracked(holding[w])'
    BY DEF InHandTracked
  <2>1. PICK t \in Tasks : t = holding'[w]
    BY <1>1 DEF TypeOK, WorkerTypeOK
  <2>2. holding[w] = t \/ Waits(t)
    BY <1>2, <2>1, NoneAssumption DEF RecordStep
  <2>3. Tracked(t)
    <3>1. CASE holding[w] = t
      <4>1. Busy(w)
        BY <3>1, NoneAssumption DEF RInv, IInv, TypeOK, WorkerTypeOK
      <4> QED
        BY <3>1, <4>1 DEF RInv, InHandTracked
    <3>2. CASE Waits(t)
      BY <3>2 DEF Tracked, Waits
    <3> QED
      BY <2>2, <3>1, <3>2
  <2>4. Tracked(t)'
    BY <2>3, TrackedStep DEF RInv, IInv
  <2> QED
    BY <2>1, <2>4
<1> QED
  BY <1>1, <1>3, <1>4, <1>5 DEF RInv

-----------------------------------------------------------------------------
(* RecordOf counts copies; as there is one at most, it is the place.       *)
Recorded(t) ==
    IF Place(t) # "none" THEN Place(t)
    ELSE IF t \in done \cup dropped THEN "gone"
    ELSE IF req[t] = "refused" THEN "refused" ELSE "new"

(* The lists RecordOf goes through have each pair once. *)
LEMMA PairList ==
    ASSUME TypeOK, NoRepeats
    PROVE  LET pairs == processing_queue \o temp_queue \o (IF hand = None THEN <<>> ELSE <<hand>>)
           IN  pairs \in Seq(TaskPair) /\ IsInjective(pairs) /\ ToSet(pairs) = Pairs
<1> DEFINE both == processing_queue \o temp_queue
           last == IF hand = None THEN <<>> ELSE <<hand>>
<1>1. /\ both \in Seq(TaskPair) /\ IsInjective(both)
      /\ ToSet(both) = ToSet(processing_queue) \cup ToSet(temp_queue)
  BY ConcatNoRepeats DEF NoRepeats, TypeOK, StoreTypeOK
<1>2. last \in Seq(TaskPair) /\ IsInjective(last) /\ ToSet(last) = {hand} \ {None}
  <2>1. CASE hand = None
    BY <2>1, EmptySeq, EmptyToSet DEF IsInjective
  <2>2. CASE hand # None
    <3>1. hand \in TaskPair /\ last = <<hand>>
      BY <2>2 DEF TypeOK, OrchestratorTypeOK
    <3>2. Len(last) = 1 /\ DOMAIN last = {1} /\ last[1] = hand
      BY <3>1
    <3>3. last \in Seq(TaskPair)
      BY <3>1
    <3> HIDE DEF last
    <3> QED
      BY <2>2, <3>2, <3>3 DEF IsInjective, ToSet
  <2> QED
    BY <2>1, <2>2
<1>3. ToSet(both) \cap ToSet(last) = {}
  BY <1>1, <1>2 DEF NoRepeats
<1> HIDE DEF both, last
<1>4. both \o last \in Seq(TaskPair) /\ IsInjective(both \o last) /\ ToSet(both \o last) = Pairs
  BY <1>1, <1>2, <1>3, ConcatNoRepeats DEF Pairs
<1> QED
  BY <1>4 DEF both, last

(* A set of one copy. *)
LEMMA OneElement ==
    ASSUME NEW c
    PROVE  Cardinality({c}) = 1 /\ (CHOOSE x \in {c} : TRUE) = c /\ {c} # {}
BY FS_Singleton

(* The record of a task is where its only copy is. *)
LEMMA RecordIs == TypeOK /\ NoRepeats /\ Apart => \A t \in Tasks : RecordOf(t) = Recorded(t)
<1> SUFFICES ASSUME TypeOK, NoRepeats, Apart, NEW t \in Tasks
             PROVE  RecordOf(t) = Recorded(t)
  OBVIOUS
<1> DEFINE pairs == processing_queue \o temp_queue \o (IF hand = None THEN <<>> ELSE <<hand>>)
           A == {i \in DOMAIN task_queue : task_queue[i] = t}
           B == {i \in DOMAIN pairs : pairs[i].second = t}
           C == {w \in Workers : holding[w] = t /\ ~registered[w]}
           copies == {<<"waiting", i>> : i \in A} \cup {<<"registered", i>> : i \in B}
                       \cup {<<"held", w>> : w \in C}
<1>1. Copies(t) = copies
  BY DEF Copies
<1>2. IsInjective(pairs) /\ ToSet(pairs) = Pairs
  BY PairList
<1> HIDE DEF pairs
<1>3. Alone(t)
  BY DEF Apart
<1>4. IF Waits(t) THEN \E i : A = {i} ELSE A = {}
  <2>1. \A i, j \in DOMAIN task_queue : task_queue[i] = task_queue[j] => i = j
    BY DEF NoRepeats, IsInjective
  <2>2. ToSet(task_queue) = {task_queue[i] : i \in DOMAIN task_queue}
    BY DEF ToSet
  <2>3. ASSUME Waits(t) PROVE \E i : A = {i}
    <3>1. PICK i \in DOMAIN task_queue : task_queue[i] = t
      BY <2>2, <2>3 DEF Waits
    <3>2. A = {i}
      BY <2>1, <3>1
    <3> QED
      BY <3>2
  <2>4. ASSUME ~Waits(t) PROVE A = {}
    BY <2>2, <2>4 DEF Waits
  <2> QED
    BY <2>3, <2>4
<1>5. IF Paired(t) THEN \E i : B = {i} ELSE B = {}
  <2>1. \A i, j \in DOMAIN pairs : pairs[i] = pairs[j] => i = j
    BY <1>2 DEF IsInjective
  <2>2. Pairs = {pairs[i] : i \in DOMAIN pairs}
    BY <1>2 DEF ToSet
  <2>3. ASSUME Paired(t) PROVE \E i : B = {i}
    <3>1. PICK i \in DOMAIN pairs : pairs[i].second = t
      BY <2>2, <2>3 DEF Paired
    <3>2. \A j \in DOMAIN pairs : pairs[j].second = t => pairs[j] = pairs[i]
      BY <1>3, <2>2, <3>1 DEF Alone
    <3>3. B = {i}
      BY <2>1, <3>1, <3>2
    <3> QED
      BY <3>3
  <2>4. ASSUME ~Paired(t) PROVE B = {}
    BY <2>2, <2>4 DEF Paired
  <2> QED
    BY <2>3, <2>4
<1>6. IF Carried(t) THEN \E w : C = {w} ELSE C = {}
  <2>1. ASSUME Carried(t) PROVE \E w : C = {w}
    <3>1. PICK w \in Workers : Holds(w, t)
      BY <2>1 DEF Carried
    <3>2. \A v \in Workers : Holds(v, t) => v = w
      BY <1>3, <3>1 DEF Alone
    <3>3. C = {w}
      BY <3>1, <3>2 DEF Holds
    <3> QED
      BY <3>3
  <2>2. ASSUME ~Carried(t) PROVE C = {}
    BY <2>2 DEF Carried, Holds
  <2> QED
    BY <2>1, <2>2
<1> HIDE DEF A, B, C
<1>7. CASE Place(t) = "none"
  <2>1. A = {} /\ B = {} /\ C = {}
    BY <1>4, <1>5, <1>6, <1>7 DEF Place
  <2>2. copies = {}
    BY <2>1
  <2> HIDE DEF copies
  <2> QED
    BY <1>1, <1>7, <2>2 DEF RecordOf, Recorded
<1>8. CASE Place(t) # "none"
  <2>1. \E c : copies = {c} /\ c[1] = Place(t)
    <3>1. CASE Waits(t)
      <4>1. B = {} /\ C = {} /\ Place(t) = "waiting"
        BY <1>3, <1>5, <1>6, <3>1 DEF Alone, Place
      <4>2. PICK i : A = {i}
        BY <1>4, <3>1
      <4>3. copies = {<<"waiting", i>>} /\ <<"waiting", i>>[1] = "waiting"
        BY <4>1, <4>2
      <4> QED
        BY <4>1, <4>3
    <3>2. CASE Paired(t)
      <4>1. A = {} /\ C = {} /\ Place(t) = "registered"
        BY <1>3, <1>4, <1>6, <3>2 DEF Alone, Place
      <4>2. PICK i : B = {i}
        BY <1>5, <3>2
      <4>3. copies = {<<"registered", i>>} /\ <<"registered", i>>[1] = "registered"
        BY <4>1, <4>2
      <4> QED
        BY <4>1, <4>3
    <3>3. CASE Carried(t)
      <4>1. A = {} /\ B = {} /\ Place(t) = "held"
        BY <1>3, <1>4, <1>5, <3>3 DEF Alone, Place
      <4>2. PICK w : C = {w}
        BY <1>6, <3>3
      <4>3. copies = {<<"held", w>>} /\ <<"held", w>>[1] = "held"
        BY <4>1, <4>2
      <4> QED
        BY <4>1, <4>3
    <3> QED
      BY <1>8, <3>1, <3>2, <3>3 DEF Place
  <2>2. PICK c : copies = {c} /\ c[1] = Place(t)
    BY <2>1
  <2>3. Cardinality({c}) = 1 /\ (CHOOSE x \in {c} : TRUE) = c /\ {c} # {}
    BY OneElement
  <2> HIDE DEF copies
  <2>4. RecordOf(t) = c[1]
    BY <1>1, <2>2, <2>3 DEF RecordOf
  <2> QED
    BY <1>8, <2>2, <2>4 DEF Recorded
<1> QED
  BY <1>7, <1>8

(* A step of the cluster is a step of the ledger, or none. *)
LEMMA LedgerStep ==
    ASSUME RInv, [Next]_vars,
           \A t \in Tasks : RecordOf(t) = Recorded(t),
           \A t \in Tasks : RecordOf(t)' = Recorded(t)'
    PROVE  Ledger!Next
<1> DEFINE record == [t \in Tasks |-> RecordOf(t)]
<1>1. RecordStep /\ TypeOK /\ TypeOK'
  BY EveryRecordStep, TypeStep DEF RInv, IInv
<1>2. ASSUME NEW t \in Tasks
      PROVE  /\ record[t] = Recorded(t) /\ record'[t] = Recorded(t)'
             /\ StepOf(t)
             /\ t \in done \cup dropped => t \in (done \cup dropped)'
             /\ t \in (done \cup dropped)' =>
                  Place(t) # "none" \/ t \in done \cup dropped
  BY <1>1, <1>2, TrackedIs DEF RecordStep, TaskStep, Deals
<1> HIDE DEF record
<1>3. ASSUME NEW t \in Tasks
      PROVE  Place(t) \in {"none", "waiting", "registered", "held"}
  BY DEF Place
<1>4. ASSUME NEW t \in Tasks, Place(t) # "none", Place(t)' = "none", t \in (done \cup dropped)'
      PROVE  \E place \in Ledger!Kept : record[t] = place /\ record'[t] = "gone"
  BY <1>2, <1>3, <1>4 DEF Recorded, Ledger!Kept
<1>5. ASSUME NEW t \in Tasks
      PROVE  \/ record'[t] = record[t]
             \/ record[t] = "new" /\ record'[t] = "waiting"
             \/ record[t] = "new" /\ record'[t] = "refused"
             \/ record[t] = "waiting" /\ record'[t] = "held"
             \/ record[t] = "held" /\ record'[t] = "registered"
             \/ record[t] = "registered" /\ record'[t] = "waiting"
             \/ /\ \E place \in Ledger!Kept : record[t] = place /\ record'[t] = "gone"
                /\ t \in (done \cup dropped)'
  <2>1. CASE Place(t) = "none" /\ Place(t)' = "none"
    <3>1. req[t] = "refused" => req'[t] = "refused"
      BY <1>1, RequestStep
    <3> QED
      BY <1>2, <2>1, <3>1 DEF Recorded
  <2>2. CASE Place(t) = "none" /\ Place(t)' # "none"
    <3>1. Place(t)' = "waiting" /\ req[t] = "counted"
      BY <1>2, <2>2 DEF StepOf
    <3>2. t \notin done \cup dropped
      BY <3>1, TrackedIs DEF RInv, Unsent
    <3> QED
      BY <1>2, <2>2, <3>1, <3>2 DEF Recorded
  <2>3. CASE Place(t) # "none" /\ Place(t)' = "none"
    <3>1. t \in (done \cup dropped)'
      BY <1>2, <2>3 DEF StepOf
    <3> QED
      BY <1>4, <2>3, <3>1
  <2>4. CASE Place(t) # "none" /\ Place(t)' # "none"
    BY <1>2, <2>4 DEF StepOf, Recorded
  <2> QED
    BY <2>1, <2>2, <2>3, <2>4
<1>6. \A t \in done' \ done : record[t] \notin {"new", "refused"}
  <2> SUFFICES ASSUME NEW t \in Tasks, t \in done'
               PROVE  record[t] \notin {"new", "refused"}
    BY <1>1 DEF TypeOK, StoreTypeOK
  <2> QED
    BY <1>2, <1>3 DEF Recorded
<1>7. ASSUME NEW t \in dropped' \ dropped
      PROVE  /\ t \notin done /\ t \in (done \cup dropped)'
             /\ \E place \in Ledger!Kept : record[t] = place /\ record'[t] = "gone"
  <2>1. t \in Tasks
    BY <1>1, <1>7 DEF TypeOK, StoreTypeOK
  <2>2. Place(t) # "none" /\ Place(t)' = "none" /\ t \notin done
    BY <1>1, <1>7, <2>1 DEF RecordStep, Deals
  <2> QED
    BY <1>4, <1>7, <2>1, <2>2
<1>8. done \subseteq done' /\ dropped \subseteq dropped'
  BY <1>1 DEF RecordStep, Deals
<1>9. Ledger!Deal
  BY <1>6, <1>8 DEF Ledger!Deal, record
<1>10. Ledger!GiveUp
  BY <1>7, <1>8 DEF Ledger!GiveUp, Ledger!End, Ledger!Moves, record
<1>11. ASSUME NEW t \in Tasks
       PROVE  \/ Ledger!Stays(t) \/ Ledger!Accept(t) \/ Ledger!Refuse(t)
              \/ Ledger!Take(t) \/ Ledger!Register(t) \/ Ledger!GiveBack(t) \/ Ledger!End(t)
  BY <1>5
     DEF Ledger!Stays, Ledger!Accept, Ledger!Refuse, Ledger!Take, Ledger!Register,
         Ledger!GiveBack, Ledger!End, Ledger!Moves, record
<1> QED
  BY <1>9, <1>10, <1>11 DEF Ledger!Next

(* In the beginning every record is a new one. *)
LEMMA LedgerInit == Init => Ledger!Init
<1> SUFFICES ASSUME Init PROVE Ledger!Init
  OBVIOUS
<1>1. TypeOK /\ Unsent /\ \A t \in Tasks : RecordOf(t) = Recorded(t)
  BY RInvInit, RecordIs DEF RInv, IInv
<1>2. ASSUME NEW t \in Tasks
      PROVE  RecordOf(t) = "new"
  <2>1. req[t] = "new" /\ ~Tracked(t)
    BY <1>1 DEF Init, ControllerInit, Unsent
  <2> QED
    BY <1>1, <2>1, TrackedIs DEF Recorded
<1> QED
  BY <1>2 DEF Ledger!Init, Init, StoreInit

(* The lists, the hand and the memories of the workers are one ledger of   *)
(* the tasks, whatever crashes or fails: no task is recorded twice, lost   *)
(* on the way from one place to another, or taken up again after its end.  *)
THEOREM RecordsAreALedger == Spec => KeepsLedger
<1>1. RInv => TypeOK /\ NoRepeats /\ Apart
  BY DEF RInv, IInv
<1>2. RInv /\ [Next]_vars
        /\ (\A t \in Tasks : RecordOf(t) = Recorded(t))
        /\ (\A t \in Tasks : RecordOf(t) = Recorded(t))'
      => Ledger!Next
  <2> SUFFICES ASSUME RInv, [Next]_vars, \A t \in Tasks : RecordOf(t) = Recorded(t),
                      (\A t \in Tasks : RecordOf(t) = Recorded(t))'
               PROVE  Ledger!Next
    OBVIOUS
  <2>1. \A t \in Tasks : RecordOf(t)' = Recorded(t)'
    OBVIOUS
  <2> QED
    BY <2>1, LedgerStep
<1> QED
  BY <1>1, <1>2, LedgerInit, RecordIs, RInvInit, RInvStep, PTL DEF Spec, KeepsLedger, Ledger!Spec
==============================================================================
