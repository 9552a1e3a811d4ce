--------------------------- MODULE InformerProofs ---------------------------
(***************************************************************************)
(* What module Informer promises for any keys, workers, queue sizes and    *)
(* delays: the safety properties of MCInformer.cfg as theorems.            *)
(*                                                                         *)
(* They hold together in one inductive invariant, IInv. NoKeyLost needs to *)
(* know that the map and the heap agree and that the key the retrier       *)
(* handles is out of the heap (HeapInv), and that a Handle has not seen    *)
(* more reports than there were (Bounded); TimerArmed needs that the timer *)
(* is where expiredTime says (TimerInv); PanicOnlyAtShutdown needs the     *)
(* order in which the queues are closed (ClosedInOrder).                   *)
(***************************************************************************)
EXTENDS Informer, TLAPS

\* The key the retrier handles is out of the heap.
Popped == retrier.st = "handle" => retrier.key \notin pq

\* Nobody has seen a report that was not made.
Bounded ==
    /\ \A w \in Workers : worker[w].key \in Keys => worker[w].ver <= noted[worker[w].key]
    /\ retrier.key \in Keys => retrier.ver <= noted[retrier.key]
    /\ \A k \in Keys : applied[k] <= noted[k] /\ gaveUp[k] <= noted[k]

\* closeCh, then deltaQueue with nothing left to enqueue, then retryQueue with
\* nothing left to handle; only then can a send panic.
ClosedInOrder ==
    /\ batch # {} => loop = "enqueue"
    /\ DeltaClosed => closed
    /\ RetryClosed => DeltaClosed /\ deltaQueue = <<>>
    /\ panicked => RetryClosed

-----------------------------------------------------------------------------
USE InformerAssumption DEF InformerAssumption

\* What the queues hold stays a sequence of keys.
LEMMA Queues ==
    ASSUME NEW q \in Seq(Keys)
    PROVE  /\ \A k \in Keys : Append(q, k) \in Seq(Keys)
           /\ q # <<>> => Head(q) \in Keys /\ Tail(q) \in Seq(Keys)
  OBVIOUS

\* The types hold initially ...
LEMMA TypeInit == Init => TypeOK
<1> SUFFICES ASSUME Init PROVE TypeOK
  OBVIOUS
<1>1. LoopTypes
  <2>1. deltaQueue \in Seq(Keys)
    BY DEF Init
  <2>2. QED
    BY <2>1 DEF Init, LoopTypes, LoopStates
<1>2. WorkTypes
  BY DEF Init, WorkTypes, Idle
<1>3. HeapTypes
  BY DEF Init, HeapTypes
<1>4. HistoryTypes
  BY DEF Init, HistoryTypes
<1>5. QED
  BY <1>1, <1>2, <1>3, <1>4 DEF TypeOK

\* ... and every action of the informer preserves them.
LEMMA TypeStep == TypeOK /\ [Next]_vars => TypeOK'
<1> SUFFICES ASSUME TypeOK, [Next]_vars PROVE TypeOK'
  OBVIOUS
<1> USE DEF TypeOK, queueVars, retryVars, historyVars
<1>1. ASSUME LoopSelect PROVE TypeOK'
  BY <1>1 DEF LoopSelect, LoopTypes, LoopStates, WorkTypes, HeapTypes,
     HistoryTypes
<1>2. ASSUME NEW ks \in SUBSET Keys, WatchReturns(ks) PROVE TypeOK'
  <2>1. LoopTypes'
    BY <1>2 DEF LoopTypes, LoopStates, WatchReturns
  <2>2. WorkTypes'
    BY <1>2 DEF WorkTypes, WatchReturns
  <2>3. HeapTypes'
    BY <1>2 DEF HeapTypes, WatchReturns
  <2>4. HistoryTypes'
    BY <1>2 DEF HistoryTypes, WatchReturns
  <2>5. QED
    BY <2>1, <2>2, <2>3, <2>4
<1>3. ASSUME WatchFails PROVE TypeOK'
  BY <1>3 DEF WatchFails, LoopTypes, LoopStates, WorkTypes, HeapTypes,
     HistoryTypes
<1>4. ASSUME WatchAbandoned PROVE TypeOK'
  BY <1>4 DEF WatchAbandoned, LoopTypes, LoopStates, WorkTypes, HeapTypes,
     HistoryTypes
<1>5. ASSUME NEW k \in Keys, Enqueue(k) PROVE TypeOK'
  <2>1. LoopTypes'
    BY <1>5, Queues DEF LoopTypes, LoopStates, Enqueue
  <2>2. WorkTypes'
    BY <1>5 DEF WorkTypes, Enqueue
  <2>3. HeapTypes'
    BY <1>5 DEF HeapTypes, Enqueue
  <2>4. HistoryTypes'
    BY <1>5 DEF HistoryTypes, Enqueue
  <2>5. QED
    BY <2>1, <2>2, <2>3, <2>4
<1>6. ASSUME Close PROVE TypeOK'
  <2>1. LoopTypes'
    BY <1>6 DEF LoopTypes, LoopStates, Close
  <2>2. WorkTypes'
    BY <1>6 DEF WorkTypes, Close
  <2>3. HeapTypes'
    BY <1>6 DEF HeapTypes, Close
  <2>4. HistoryTypes'
    BY <1>6 DEF HistoryTypes, Close
  <2>5. QED
    BY <2>1, <2>2, <2>3, <2>4
<1>7. ASSUME WaitReturns PROVE TypeOK'
  BY <1>7 DEF WaitReturns, LoopTypes, LoopStates, WorkTypes, HeapTypes,
     HistoryTypes
<1>8. ASSUME Receive PROVE TypeOK'
  <2>1. LoopTypes'
    BY <1>8, Queues DEF LoopTypes, LoopStates, Receive
  <2>2. WorkTypes'
    BY <1>8 DEF WorkTypes, Receive
  <2>3. HeapTypes'
    BY <1>8 DEF HeapTypes, Receive
  <2>4. HistoryTypes'
    BY <1>8 DEF HistoryTypes, Receive
  <2>5. QED
    BY <2>1, <2>2, <2>3, <2>4
<1>9. ASSUME NEW w \in Workers, StartWorker(w) PROVE TypeOK'
  BY <1>9 DEF StartWorker, Handling, LoopTypes, LoopStates, WorkTypes,
     HeapTypes, HistoryTypes
<1>10. ASSUME CloseRetryQueue PROVE TypeOK'
  BY <1>10 DEF CloseRetryQueue, LoopTypes, LoopStates, WorkTypes, HeapTypes,
     HistoryTypes
<1>11. ASSUME NEW w \in Workers, HandleOk(w) PROVE TypeOK'
  <2>1. LoopTypes' /\ HeapTypes'
    BY <1>11 DEF LoopTypes, HeapTypes, HandleOk
  <2>2. WorkTypes'
    BY <1>11 DEF WorkTypes, HandleOk, Idle
  <2>3. HistoryTypes'
    BY <1>11 DEF HistoryTypes, WorkTypes, HandleOk, Newer
  <2>4. QED
    BY <2>1, <2>2, <2>3
<1>12. ASSUME NEW w \in Workers, HandleFails(w) PROVE TypeOK'
  <2>1. LoopTypes' /\ HeapTypes' /\ HistoryTypes'
    BY <1>12 DEF LoopTypes, HeapTypes, HistoryTypes, HandleFails
  <2>2. WorkTypes'
    BY <1>12 DEF WorkTypes, HandleFails
  <2>3. QED
    BY <2>1, <2>2
<1>13. ASSUME NEW w \in Workers, SendRetry(w) PROVE TypeOK'
  <2>1. LoopTypes'
    BY <1>13 DEF LoopTypes, LoopStates, SendRetry, Idle
  <2>2. WorkTypes'
    BY <1>13, Queues DEF WorkTypes, SendRetry, Idle
  <2>3. HeapTypes'
    BY <1>13 DEF HeapTypes, SendRetry, Idle
  <2>4. HistoryTypes'
    BY <1>13 DEF HistoryTypes, SendRetry, Idle
  <2>5. QED
    BY <2>1, <2>2, <2>3, <2>4
<1>14. ASSUME NEW w \in Workers, SendOnClosed(w) PROVE TypeOK'
  BY <1>14 DEF SendOnClosed, LoopTypes, LoopStates, WorkTypes, HeapTypes,
     HistoryTypes
<1>15. ASSUME NEW d \in 1..MaxDelay, ReceiveRetry(d) PROVE TypeOK'
  <2>1. LoopTypes'
    BY <1>15 DEF LoopTypes, LoopStates, ReceiveRetry, RearmTimer
  <2>2. WorkTypes'
    BY <1>15, Queues DEF WorkTypes, ReceiveRetry, RearmTimer
  <2>3. HeapTypes'
    <3>1. Head(retryQueue) \in Keys
      BY <1>15, Queues DEF WorkTypes, ReceiveRetry
    <3>2. items' \in SUBSET Keys /\ pq' \in SUBSET Keys
      BY <1>15, <3>1 DEF HeapTypes, ReceiveRetry
    <3>3. due' \in [Keys -> 0..MaxDelay] /\ tries' \in [Keys -> 0..MaxTries]
      BY <1>15, <3>1 DEF HeapTypes, ReceiveRetry
    <3>4. timer' \in Nat /\ expiredTime' \in Nat
      BY <1>15, <3>3 DEF HeapTypes, ReceiveRetry, RearmTimer, SetTimer
    <3>5. QED
      BY <3>2, <3>3, <3>4 DEF HeapTypes
  <2>4. HistoryTypes'
    BY <1>15 DEF HistoryTypes, ReceiveRetry, RearmTimer
  <2>5. QED
    BY <2>1, <2>2, <2>3, <2>4
<1>16. ASSUME RetrierReturns PROVE TypeOK'
  BY <1>16 DEF RetrierReturns, LoopTypes, LoopStates, WorkTypes, HeapTypes,
     HistoryTypes
<1>17. ASSUME TimerIdles PROVE TypeOK'
  BY <1>17 DEF TimerIdles, SetTimer, LoopTypes, LoopStates, WorkTypes, HeapTypes,
     HistoryTypes
<1>18. ASSUME NEW k \in Keys, PopAndHandle(k) PROVE TypeOK'
  <2>1. LoopTypes'
    BY <1>18 DEF LoopTypes, LoopStates, PopAndHandle, Handling
  <2>2. WorkTypes'
    BY <1>18 DEF WorkTypes, HistoryTypes, HeapTypes, PopAndHandle, Handling
  <2>3. HeapTypes'
    BY <1>18 DEF HeapTypes, PopAndHandle, Handling
  <2>4. HistoryTypes'
    BY <1>18 DEF HistoryTypes, PopAndHandle, Handling
  <2>5. QED
    BY <2>1, <2>2, <2>3, <2>4
<1>19. ASSUME RetryOk PROVE TypeOK'
  <2>1. LoopTypes'
    BY <1>19 DEF LoopTypes, LoopStates, RetryOk, ArmTimer, Newer, Idle
  <2>2. WorkTypes'
    BY <1>19 DEF WorkTypes, RetryOk, ArmTimer, Newer, Idle
  <2>3. HeapTypes'
    BY <1>19 DEF HeapTypes, WorkTypes, RetryOk, ArmTimer, SetTimer, Newer, Idle
  <2>4. HistoryTypes'
    BY <1>19 DEF HistoryTypes, WorkTypes, RetryOk, ArmTimer, Newer, Idle
  <2>5. QED
    BY <2>1, <2>2, <2>3, <2>4
<1>20. ASSUME NEW d \in 1..MaxDelay, RetryFails(d) PROVE TypeOK'
  <2>1. LoopTypes'
    BY <1>20 DEF LoopTypes, LoopStates, RetryFails, ArmTimer, Idle
  <2>2. WorkTypes'
    BY <1>20 DEF WorkTypes, RetryFails, ArmTimer, Idle
  <2>3. HeapTypes'
    <3>1. pq' \in SUBSET Keys /\ items' \in SUBSET Keys
      BY <1>20 DEF HeapTypes, WorkTypes, RetryFails
    <3>2. due' \in [Keys -> 0..MaxDelay] /\ tries' \in [Keys -> 0..MaxTries]
      BY <1>20 DEF HeapTypes, WorkTypes, RetryFails
    <3>3. timer' \in Nat /\ expiredTime' \in Nat
      BY <1>20, <3>2 DEF RetryFails, ArmTimer, SetTimer
    <3>4. QED
      BY <3>1, <3>2, <3>3 DEF HeapTypes
  <2>4. HistoryTypes'
    BY <1>20 DEF HistoryTypes, RetryFails, ArmTimer, Idle
  <2>5. QED
    BY <2>1, <2>2, <2>3, <2>4
<1>21. ASSUME RetryStops PROVE TypeOK'
  <2>1. LoopTypes'
    BY <1>21 DEF LoopTypes, LoopStates, RetryStops, ArmTimer, Newer, Idle
  <2>2. WorkTypes'
    BY <1>21 DEF WorkTypes, RetryStops, ArmTimer, Newer, Idle
  <2>3. HeapTypes'
    BY <1>21 DEF HeapTypes, WorkTypes, RetryStops, ArmTimer, SetTimer, Newer, Idle
  <2>4. HistoryTypes'
    BY <1>21 DEF HistoryTypes, WorkTypes, RetryStops, ArmTimer, Newer, Idle
  <2>5. QED
    BY <2>1, <2>2, <2>3, <2>4
<1>22. ASSUME Tick PROVE TypeOK'
  <2>1. LoopTypes'
    BY <1>22 DEF LoopTypes, LoopStates, Tick
  <2>2. WorkTypes'
    BY <1>22 DEF WorkTypes, Tick
  <2>3. HeapTypes'
    BY <1>22 DEF HeapTypes, Tick
  <2>4. HistoryTypes'
    BY <1>22 DEF HistoryTypes, Tick
  <2>5. QED
    BY <2>1, <2>2, <2>3, <2>4
<1>23. CASE UNCHANGED vars
  <2>1. LoopTypes'
    BY <1>23 DEF LoopTypes, LoopStates, vars
  <2>2. WorkTypes'
    BY <1>23 DEF WorkTypes, vars
  <2>3. HeapTypes'
    BY <1>23 DEF HeapTypes, vars
  <2>4. HistoryTypes'
    BY <1>23 DEF HistoryTypes, vars
  <2>5. QED
    BY <2>1, <2>2, <2>3, <2>4
<1>24. QED
  BY <1>1, <1>2, <1>3, <1>4, <1>5, <1>6, <1>7, <1>8, <1>9, <1>10, <1>11,
     <1>12, <1>13, <1>14, <1>15, <1>16, <1>17, <1>18, <1>19, <1>20, <1>21,
     <1>22, <1>23
  DEF Next, Running, Watching, Consuming, Working, Retrying, Stopped

\* For every instance: queues, workers and heap only ever hold keys, and a
\* goroutine holds one exactly while it works on it.
THEOREM TypeCorrect == Spec => []TypeOK
<1>1. Init => TypeOK
  BY TypeInit
<1>2. TypeOK /\ [Next]_vars => TypeOK'
  BY TypeStep
<1>3. QED
  BY <1>1, <1>2, PTL DEF Spec

-----------------------------------------------------------------------------
\* Only the retrier and time touch the map, the heap and the timer.
LEMMA Elsewhere ==
    Watching \/ Close \/ Consuming \/ (\E w \in Workers : Working(w)) \/ Stopped
        => UNCHANGED <<retrier, retryVars>>
  BY DEF Watching, LoopSelect, WatchReturns, WatchFails, WatchAbandoned,
     Enqueue,
     WaitReturns, Close, Consuming, Receive, StartWorker, CloseRetryQueue, Working,
     HandleOk, HandleFails, SendRetry, SendOnClosed, Stopped, vars, retryVars

\* The heap part of the inductive invariant.
HeapInv == ItemsInHeap /\ Popped

\* Each action of the retrier changes the map and the heap together.
LEMMA HeapStep == TypeOK /\ HeapInv /\ [Next]_vars => HeapInv'
<1> SUFFICES ASSUME TypeOK, HeapInv, [Next]_vars PROVE HeapInv'
  OBVIOUS
<1> USE DEF HeapInv, ItemsInHeap, Popped, retryVars
<1>1. CASE UNCHANGED <<retrier, retryVars>>
  BY <1>1
<1>2. ASSUME NEW d \in 1..MaxDelay, ReceiveRetry(d) PROVE HeapInv'
  BY <1>2 DEF ReceiveRetry
<1>3. CASE RetrierReturns
  BY <1>3 DEF RetrierReturns, TypeOK, WorkTypes
<1>4. CASE TimerIdles \/ Tick
  BY <1>4 DEF TimerIdles, Tick
<1>5. ASSUME NEW k \in Keys, PopAndHandle(k) PROVE HeapInv'
  BY <1>5 DEF PopAndHandle, Handling
<1>6. CASE RetryOk \/ RetryStops
  BY <1>6 DEF RetryOk, RetryStops, Idle
<1>7. ASSUME NEW d \in 1..MaxDelay, RetryFails(d) PROVE HeapInv'
  BY <1>7 DEF RetryFails, Idle
<1>8. CASE UNCHANGED vars
  BY <1>8 DEF vars
<1>9. QED
  BY <1>1, <1>2, <1>3, <1>4, <1>5, <1>6, <1>7, <1>8, Elsewhere
  DEF Next, Running, Retrying

\* The timer part of the inductive invariant: what ReceiveRetry compares the
\* head with is where the timer is, so it may skip the reset when they agree.
TimerInv == timer = expiredTime /\ TimerArmed

\* Each path of the retrier back to its select leaves the timer at the head.
LEMMA TimerStep == TypeOK /\ HeapInv /\ TimerInv /\ [Next]_vars => TimerInv'
<1> SUFFICES ASSUME TypeOK, HeapInv, TimerInv, [Next]_vars PROVE TimerInv'
  OBVIOUS
<1> USE DEF TimerInv, TimerArmed, TypeOK, HeapTypes, retryVars
<1>1. CASE UNCHANGED <<retrier, retryVars>>
  BY <1>1
<1>2. HeapTypes'
  BY TypeStep
<1>3. ASSUME NEW k \in Keys, IsHead(k), timer' = due'[k], expiredTime' = due'[k]
      PROVE  TimerInv'
  BY <1>2, <1>3 DEF IsHead
<1>4. ASSUME ArmTimer PROVE TimerInv'
  <2>1. CASE pq' = {} /\ SetTimer(IdleDelay)
    BY <2>1 DEF SetTimer
  <2>2. CASE \E k \in Keys : IsHead(k) /\ SetTimer(due'[k])
    BY <1>3, <2>2 DEF SetTimer
  <2>3. QED
    BY <1>4, <2>1, <2>2 DEF ArmTimer
<1>5. ASSUME NEW d \in 1..MaxDelay, ReceiveRetry(d) PROVE TimerInv'
  <2>1. PICK k \in Keys : /\ IsHead(k)
                          /\ IF due'[k] # expiredTime
                             THEN SetTimer(due'[k])
                             ELSE UNCHANGED <<timer, expiredTime>>
    BY <1>5 DEF ReceiveRetry, RearmTimer
  <2>2. timer' = due'[k] /\ expiredTime' = due'[k]
    BY <2>1 DEF SetTimer
  <2>3. QED
    BY <1>3, <2>1, <2>2
<1>6. CASE RetryOk \/ RetryStops \/ \E d \in 1..MaxDelay : RetryFails(d)
  BY <1>4, <1>6 DEF RetryOk, RetryStops, RetryFails
<1>7. CASE RetrierReturns
  BY <1>7 DEF RetrierReturns, WorkTypes
<1>8. CASE TimerIdles
  BY <1>8 DEF TimerIdles, SetTimer
<1>9. ASSUME NEW k \in Keys, PopAndHandle(k) PROVE TimerInv'
  BY <1>9 DEF PopAndHandle, Handling
<1>10. CASE Tick
  BY <1>10 DEF Tick
<1>11. CASE UNCHANGED vars
  BY <1>11 DEF vars
<1>12. QED
  BY <1>1, <1>5, <1>6, <1>7, <1>8, <1>9, <1>10, <1>11, Elsewhere
  DEF Next, Running, Retrying
-----------------------------------------------------------------------------
\* The shutdown goes in order, and nothing is enqueued after it.
LEMMA CloseStep == TypeOK /\ ClosedInOrder /\ [Next]_vars => ClosedInOrder'
<1> SUFFICES ASSUME TypeOK, ClosedInOrder, [Next]_vars PROVE ClosedInOrder'
  OBVIOUS
<1> USE DEF ClosedInOrder, DeltaClosed, RetryClosed, queueVars, retryVars, historyVars
<1>1. CASE LoopSelect \/ (\E ks \in SUBSET Keys : WatchReturns(ks)) \/ WatchFails
           \/ WatchAbandoned
  BY <1>1 DEF LoopSelect, WatchReturns, WatchFails, WatchAbandoned
<1>2. CASE (\E k \in Keys : Enqueue(k)) \/ WaitReturns \/ Close
  BY <1>2 DEF Enqueue, WaitReturns, Close
<1>3. CASE Consuming
  BY <1>3 DEF Consuming, Receive, StartWorker, CloseRetryQueue, TypeOK,
     LoopTypes
<1>4. ASSUME NEW w \in Workers, Working(w) PROVE ClosedInOrder'
  BY <1>4 DEF Working, HandleOk, HandleFails, SendRetry, SendOnClosed
<1>5. CASE Retrying
  BY <1>5 DEF Retrying, ReceiveRetry, RetrierReturns, TimerIdles, PopAndHandle,
     RetryOk, RetryFails, RetryStops
<1>6. CASE Tick
  BY <1>6 DEF Tick
<1>7. CASE UNCHANGED vars
  BY <1>7 DEF vars
<1>8. QED
  BY <1>1, <1>2, <1>3, <1>4, <1>5, <1>6, <1>7
  DEF Next, Running, Watching, Stopped

\* Handle reads the reports there are when it begins.
LEMMA BoundedStep == TypeOK /\ Bounded /\ [Next]_vars => Bounded'
<1> SUFFICES ASSUME TypeOK, Bounded, [Next]_vars PROVE Bounded'
  OBVIOUS
<1> USE DEF Bounded, TypeOK, HistoryTypes, historyVars
<1>1. CASE UNCHANGED <<worker, retrier, historyVars>>
  BY <1>1
<1>2. ASSUME NEW ks \in SUBSET Keys, WatchReturns(ks) PROVE Bounded'
  <2>1. \A k \in Keys : noted'[k] \in Nat /\ noted[k] \in Nat /\ noted[k] <= noted'[k]
    BY <1>2 DEF WatchReturns
  <2>2. UNCHANGED <<worker, retrier, applied, gaveUp>>
    BY <1>2 DEF WatchReturns
  <2>3. QED
    BY <2>1, <2>2 DEF WorkTypes
<1>3. CASE LoopSelect \/ WatchFails \/ WatchAbandoned \/ (\E k \in Keys : Enqueue(k))
           \/ WaitReturns \/ Close \/ Receive \/ CloseRetryQueue
  BY <1>1, <1>3 DEF LoopSelect, WatchFails, WatchAbandoned, Enqueue,
     WaitReturns,
     Close, Receive, CloseRetryQueue
<1>4. ASSUME NEW w \in Workers, StartWorker(w) PROVE Bounded'
  BY <1>4 DEF StartWorker, Handling, WorkTypes
<1>5. ASSUME NEW w \in Workers, HandleOk(w) PROVE Bounded'
  BY <1>5 DEF HandleOk, Idle, Newer, WorkTypes
<1>6. ASSUME NEW w \in Workers, HandleFails(w) PROVE Bounded'
  BY <1>6 DEF HandleFails, WorkTypes
<1>7. ASSUME NEW w \in Workers, SendRetry(w) \/ SendOnClosed(w) PROVE Bounded'
  <2>1. UNCHANGED <<retrier, historyVars>>
    BY <1>7 DEF SendRetry, SendOnClosed
  <2>2. \A v \in Workers : worker'[v] \in {worker[v], Idle}
    BY <1>7 DEF SendRetry, SendOnClosed, WorkTypes
  <2>3. QED
    BY <2>1, <2>2 DEF Idle
<1>8. CASE (\E d \in 1..MaxDelay : ReceiveRetry(d)) \/ TimerIdles \/ Tick
  BY <1>1, <1>8 DEF ReceiveRetry, TimerIdles, Tick
<1>9. CASE RetrierReturns
  BY <1>9 DEF RetrierReturns, WorkTypes
<1>10. ASSUME NEW k \in Keys, PopAndHandle(k) PROVE Bounded'
  BY <1>10 DEF PopAndHandle, Handling
<1>11. CASE RetryOk
  BY <1>11 DEF RetryOk, Idle, Newer, WorkTypes
<1>12. ASSUME NEW d \in 1..MaxDelay, RetryFails(d) PROVE Bounded'
  BY <1>12 DEF RetryFails, Idle
<1>13. CASE RetryStops
  BY <1>13 DEF RetryStops, Idle, Newer, WorkTypes
<1>14. CASE UNCHANGED vars
  BY <1>1, <1>14 DEF vars
<1>15. QED
  BY <1>2, <1>3, <1>4, <1>5, <1>6, <1>7, <1>8, <1>9, <1>10, <1>11, <1>12, <1>13,
     <1>14
  DEF Next, Running, Watching, Consuming, Working, Retrying, Stopped

-----------------------------------------------------------------------------
\* What enqueueing and dequeueing do to the keys queued.
LEMMA QueuedAfter ==
    ASSUME NEW q \in Seq(Keys), NEW k \in Keys
    PROVE  /\ \A e \in Keys : Queued(Append(q, e), k) <=> Queued(q, k) \/ e = k
           /\ q # <<>> => (Queued(q, k) <=> Head(q) = k \/ Queued(Tail(q), k))
<1>1. ASSUME NEW e \in Keys PROVE Queued(Append(q, e), k) <=> Queued(q, k) \/ e = k
  <2>1. Len(Append(q, e)) = Len(q) + 1 /\ Len(q) \in Nat
    OBVIOUS
  <2>2. \A i \in 1..Len(q) : Append(q, e)[i] = q[i]
    OBVIOUS
  <2>3. Append(q, e)[Len(q) + 1] = e
    OBVIOUS
  <2>4. QED
    BY <2>1, <2>2, <2>3 DEF Queued
<1>2. ASSUME q # <<>> PROVE Queued(q, k) <=> Head(q) = k \/ Queued(Tail(q), k)
  <2>1. Len(q) \in Nat \ {0} /\ Len(Tail(q)) = Len(q) - 1 /\ Head(q) = q[1]
    BY <1>2
  <2>2. \A i \in 1..(Len(q) - 1) : Tail(q)[i] = q[i + 1]
    BY <1>2
  <2>3. ASSUME Queued(q, k) PROVE Head(q) = k \/ Queued(Tail(q), k)
    <3>1. PICK i \in 1..Len(q) : q[i] = k
      BY <2>3 DEF Queued
    <3>2. CASE i = 1
      BY <3>1, <3>2, <2>1
    <3>3. CASE i # 1
      <4>1. i - 1 \in 1..(Len(q) - 1) /\ (i - 1) + 1 = i
        BY <3>3, <2>1
      <4>2. Tail(q)[i - 1] = k
        BY <4>1, <2>2, <3>1
      <4>3. QED
        BY <4>1, <4>2, <2>1 DEF Queued
    <3>4. QED
      BY <3>2, <3>3
  <2>4. ASSUME Head(q) = k \/ Queued(Tail(q), k) PROVE Queued(q, k)
    BY <2>1, <2>2, <2>4 DEF Queued
  <2>5. QED
    BY <2>3, <2>4
<1>3. QED
  BY <1>1, <1>2

\* Where a report goes from each place that carries it.
LEMMA CarriedStep ==
    TypeOK /\ HeapInv /\ ClosedInOrder /\ Bounded /\ NoKeyLost /\ [Next]_vars
        => NoKeyLost'
<1> SUFFICES ASSUME TypeOK, HeapInv, ClosedInOrder, Bounded, NoKeyLost, [Next]_vars
             PROVE  NoKeyLost'
  OBVIOUS
<1> USE DEF NoKeyLost, Carried, Unsettled, TypeOK, queueVars, retryVars, historyVars
<1>1. CASE LoopSelect \/ WatchFails \/ WatchAbandoned \/ Close \/ WaitReturns
  BY <1>1 DEF LoopSelect, WatchFails, WatchAbandoned, Close, WaitReturns
<1>2. ASSUME NEW ks \in SUBSET Keys, WatchReturns(ks) PROVE NoKeyLost'
  BY <1>2 DEF WatchReturns, HistoryTypes, ClosedInOrder
<1>3. ASSUME NEW j \in Keys, Enqueue(j) PROVE NoKeyLost'
  BY <1>3, QueuedAfter DEF Enqueue, LoopTypes
<1>4. CASE Receive
  BY <1>4, QueuedAfter DEF Receive, LoopTypes
<1>5. ASSUME NEW w \in Workers, StartWorker(w) PROVE NoKeyLost'
  <2>1. \A v \in Workers : worker'[v] = IF v = w THEN Handling(consumer) ELSE worker[v]
    BY <1>5 DEF StartWorker, WorkTypes
  <2>2. worker[w].key = NoKey
    BY <1>5 DEF StartWorker, WorkTypes
  <2>3. QED
    BY <1>5, <2>1, <2>2 DEF StartWorker, Handling
<1>6. CASE CloseRetryQueue
  BY <1>6 DEF CloseRetryQueue
<1>7. ASSUME NEW w \in Workers, HandleOk(w) PROVE NoKeyLost'
  <2>1. \A v \in Workers \ {w} : worker'[v] = worker[v]
    BY <1>7 DEF HandleOk, WorkTypes
  <2>2. worker[w].st # "failed" /\ worker[w].key \in Keys
    BY <1>7 DEF HandleOk, WorkTypes
  <2>3. \A k \in Keys : Unsettled(k)' => Unsettled(k)
    BY <1>7, <2>2 DEF HandleOk, HistoryTypes, WorkTypes, Newer
  <2>4. ASSUME worker[w].ver = noted[worker[w].key]
        PROVE  ~(noted'[worker[w].key] > applied'[worker[w].key])
    <3>1. applied'[worker[w].key] = Newer(applied[worker[w].key], worker[w].ver)
      BY <1>7, <2>2 DEF HandleOk, HistoryTypes
    <3>2. noted'[worker[w].key] = worker[w].ver
      BY <1>7, <2>4 DEF HandleOk
    <3>3. applied[worker[w].key] \in Nat /\ worker[w].ver \in Nat
      BY <2>2 DEF HistoryTypes, WorkTypes
    <3>4. QED
      BY <3>1, <3>2, <3>3 DEF Newer
  <2>5. QED
    BY <1>7, <2>1, <2>2, <2>3, <2>4 DEF HandleOk
<1>8. ASSUME NEW w \in Workers, HandleFails(w) PROVE NoKeyLost'
  <2>1. \A v \in Workers \ {w} : worker'[v] = worker[v]
    BY <1>8 DEF HandleFails, WorkTypes
  <2>2. worker'[w].key = worker[w].key /\ worker'[w].st = "failed"
    BY <1>8 DEF HandleFails, WorkTypes
  <2>3. QED
    BY <1>8, <2>1, <2>2 DEF HandleFails
<1>9. ASSUME NEW w \in Workers, SendRetry(w) PROVE NoKeyLost'
  <2>1. \A v \in Workers \ {w} : worker'[v] = worker[v]
    BY <1>9 DEF SendRetry, WorkTypes
  <2>2. worker[w].key \in Keys
    BY <1>9 DEF SendRetry, WorkTypes
  <2>3. \A k \in Keys : Queued(retryQueue', k) <=> Queued(retryQueue, k) \/ worker[w].key = k
    BY <1>9, <2>2, QueuedAfter DEF SendRetry, WorkTypes
  <2>4. QED
    BY <1>9, <2>1, <2>3 DEF SendRetry
<1>10. ASSUME NEW w \in Workers, SendOnClosed(w) PROVE NoKeyLost'
  BY <1>10 DEF SendOnClosed
<1>11. ASSUME NEW d \in 1..MaxDelay, ReceiveRetry(d) PROVE NoKeyLost'
  <2>1. items = pq
    BY <1>11 DEF ReceiveRetry, HeapInv, ItemsInHeap
  <2>2. pq' = pq \cup {Head(retryQueue)}
    BY <1>11, <2>1 DEF ReceiveRetry
  <2>3. \A k \in Keys : Queued(retryQueue, k)
                          => Head(retryQueue) = k \/ Queued(retryQueue', k)
    BY <1>11, QueuedAfter DEF ReceiveRetry, WorkTypes
  <2>4. QED
    BY <1>11, <2>2, <2>3 DEF ReceiveRetry
<1>12. CASE RetrierReturns
  BY <1>12 DEF RetrierReturns, WorkTypes
<1>13. CASE TimerIdles \/ Tick
  BY <1>13 DEF TimerIdles, Tick
<1>14. ASSUME NEW j \in Keys, PopAndHandle(j) PROVE NoKeyLost'
  <2>1. retrier' = Handling(j) /\ pq' = pq \ {j}
    BY <1>14 DEF PopAndHandle
  <2>2. retrier.key \notin Keys
    BY <1>14 DEF PopAndHandle, WorkTypes
  <2>3. QED
    BY <1>14, <2>1, <2>2 DEF PopAndHandle, Handling
<1>15. CASE RetryOk
  BY <1>15 DEF RetryOk, Idle, Newer, WorkTypes, HistoryTypes, Bounded
<1>16. ASSUME NEW d \in 1..MaxDelay, RetryFails(d) PROVE NoKeyLost'
  BY <1>16 DEF RetryFails, Idle, WorkTypes
<1>17. CASE RetryStops
  BY <1>17 DEF RetryStops, Idle, Newer, WorkTypes, HistoryTypes, Bounded
<1>18. CASE UNCHANGED vars
  BY <1>18 DEF vars
<1>19. QED
  BY <1>1, <1>2, <1>3, <1>4, <1>5, <1>6, <1>7, <1>8, <1>9, <1>10, <1>11, <1>12,
     <1>13, <1>14, <1>15, <1>16, <1>17, <1>18
  DEF Next, Running, Watching, Consuming, Working, Retrying, Stopped

-----------------------------------------------------------------------------
\* The inductive invariant.
IInv == TypeOK /\ HeapInv /\ TimerInv /\ ClosedInOrder /\ Bounded /\ NoKeyLost

\* IInv holds initially ...
LEMMA IInvInit == Init => IInv
<1> SUFFICES ASSUME Init PROVE IInv
  OBVIOUS
<1>1. HeapInv /\ TimerInv /\ ClosedInOrder
  BY DEF Init, HeapInv, ItemsInHeap, Popped, TimerInv, TimerArmed, ClosedInOrder,
     DeltaClosed,
     RetryClosed, Idle
<1>2. Bounded
  BY DEF Init, Bounded, Idle
<1>3. NoKeyLost
  BY DEF Init, NoKeyLost, Unsettled
<1>4. QED
  BY <1>1, <1>2, <1>3, TypeInit DEF IInv

\* ... and is preserved.
LEMMA IInvStep == IInv /\ [Next]_vars => IInv'
  BY TypeStep, HeapStep, TimerStep, CloseStep, BoundedStep, CarriedStep DEF IInv

\* The conjunction above is an invariant of every instance; the theorems below
\* are its parts.
THEOREM Inductive == Spec => []IInv
  BY IInvInit, IInvStep, PTL DEF Spec

\* For every instance: no interleaving of the watch loop, the workers, the
\* retrier and Close loses a reported key (WatchAndHandle).
THEOREM NothingLost == Spec => []NoKeyLost
<1>1. IInv => NoKeyLost
  BY DEF IInv
<1>2. QED
  BY <1>1, Inductive, PTL

\* For every instance: the retrier's map and its heap hold the same items, so
\* that update never fixes an item that is not in the heap.
THEOREM MapAndHeapAgree == Spec => []ItemsInHeap
<1>1. IInv => ItemsInHeap
  BY DEF IInv, HeapInv
<1>2. QED
  BY <1>1, Inductive, PTL

\* For every instance: the retrier never waits with its timer set for another
\* time than its earliest item's, also where WatchAndHandle skips the reset
\* because expiredTime says it is set.
THEOREM TimerIsArmed == Spec => []TimerArmed
<1>1. IInv => TimerArmed
  BY DEF IInv, TimerInv
<1>2. QED
  BY <1>1, Inductive, PTL

\* For every instance: a send on the closed retryQueue happens only after
\* Close and with no key left on its way to a worker.
THEOREM NoEarlyPanic == Spec => []PanicOnlyAtShutdown
<1>1. IInv => PanicOnlyAtShutdown
  BY DEF IInv, PanicOnlyAtShutdown, ClosedInOrder, DeltaClosed, RetryClosed
<1>2. QED
  BY <1>1, Inductive, PTL

-----------------------------------------------------------------------------
(* The refinement: each action of the informer is one of KeyDispatch, or   *)
(* moves a key from one place where it waits to another.                   *)

\* What KeyDispatch sees, as one function and three counters.
Goroutines == [w \in Workers |-> HandledBy(worker[w])]

\* A step that leaves the goroutines, the counters and what waits alone.
LEMMA Unseen ==
    ASSUME UNCHANGED historyVars, Goroutines' = Goroutines,
           HandledBy(retrier)' = HandledBy(retrier), Waiting' = Waiting
    PROVE  UNCHANGED Dispatch!dispatch
  BY DEF Dispatch!dispatch, Dispatch!history, historyVars, Goroutines

\* Keys on the move: they wait before and after.
LEMMA Moves ==
    ASSUME TypeOK, HeapInv,
           \/ \E k \in Keys : Enqueue(k)
           \/ Receive
           \/ \E w \in Workers : SendRetry(w)
           \/ \E d \in 1..MaxDelay : ReceiveRetry(d)
    PROVE  Waiting' = Waiting
<1> USE DEF TypeOK, Waiting
<1>1. ASSUME NEW k \in Keys, Enqueue(k) PROVE Waiting' = Waiting
  <2>1. \A j \in Keys : Queued(deltaQueue', j) <=> Queued(deltaQueue, j) \/ k = j
    BY <1>1, QueuedAfter DEF Enqueue, LoopTypes
  <2>2. k \in batch /\ batch' = batch \ {k} /\ UNCHANGED <<pq, consumer, retryQueue, worker>>
    BY <1>1 DEF Enqueue, retryVars
  <2>3. QED
    BY <2>1, <2>2
<1>2. CASE Receive
  <2>1. \A j \in Keys : Queued(deltaQueue, j) <=> consumer' = j \/ Queued(deltaQueue', j)
    BY <1>2, QueuedAfter DEF Receive, LoopTypes
  <2>2. consumer = NoKey /\ UNCHANGED <<batch, pq, retryQueue, worker>>
    BY <1>2 DEF Receive, retryVars
  <2>3. QED
    BY <2>1, <2>2
<1>3. ASSUME NEW w \in Workers, SendRetry(w) PROVE Waiting' = Waiting
  <2>1. \A v \in Workers \ {w} : worker'[v] = worker[v]
    BY <1>3 DEF SendRetry, WorkTypes
  <2>2. worker[w].key \in Keys /\ worker'[w].st = "idle"
    BY <1>3 DEF SendRetry, WorkTypes, Idle
  <2>3. \A k \in Keys : Queued(retryQueue', k) <=> Queued(retryQueue, k) \/ worker[w].key = k
    BY <1>3, <2>2, QueuedAfter DEF SendRetry, WorkTypes
  <2>4. worker[w].st = "failed" /\ UNCHANGED <<batch, pq, consumer, deltaQueue>>
    BY <1>3 DEF SendRetry, retryVars
  <2>5. QED
    BY <2>1, <2>2, <2>3, <2>4
<1>4. ASSUME NEW d \in 1..MaxDelay, ReceiveRetry(d) PROVE Waiting' = Waiting
  <2>1. items = pq
    BY <1>4 DEF ReceiveRetry, HeapInv, ItemsInHeap
  <2>2. pq' = pq \cup {Head(retryQueue)}
    BY <1>4, <2>1 DEF ReceiveRetry
  <2>3. \A k \in Keys : Queued(retryQueue, k)
                          <=> Head(retryQueue) = k \/ Queued(retryQueue', k)
    BY <1>4, QueuedAfter DEF ReceiveRetry, WorkTypes
  <2>4. UNCHANGED <<batch, consumer, deltaQueue, worker>>
    BY <1>4 DEF ReceiveRetry
  <2>5. QED
    BY <2>2, <2>3, <2>4
<1>5. QED
  BY <1>1, <1>2, <1>3, <1>4

\* A worker's step changes what that worker handles.
LEMMA OneWorker ==
    ASSUME TypeOK, NEW w \in Workers, NEW g, worker' = [worker EXCEPT ![w] = g]
    PROVE  /\ Goroutines' = [Goroutines EXCEPT ![w] = HandledBy(g)]
           /\ worker'[w] = g
           /\ \A v \in Workers \ {w} : worker'[v] = worker[v]
<1>1. worker'[w] = g /\ \A v \in Workers \ {w} : worker'[v] = worker[v]
  BY DEF TypeOK, WorkTypes
<1>2. QED
  BY <1>1 DEF Goroutines, HandledBy

\* A Handle of a worker begins.
LEMMA WorkStep ==
    ASSUME TypeOK, NEW w \in Workers, StartWorker(w)
    PROVE  Dispatch!Work(w, consumer)
<1>1. consumer \in Keys /\ UNCHANGED <<historyVars, retrier, batch, pq, deltaQueue, retryQueue>>
  BY DEF StartWorker, retryVars, queueVars
<1>2. HandledBy(Handling(consumer)) = [key |-> consumer, ver |-> noted[consumer]]
  BY DEF HandledBy, Handling
<1>3. HandledBy(worker[w]) = [key |-> NoKey, ver |-> 0] /\ worker[w].st = "idle"
  BY DEF StartWorker, HandledBy
<1>4. /\ Goroutines' = [Goroutines EXCEPT ![w] = HandledBy(Handling(consumer))]
      /\ worker'[w] = Handling(consumer)
      /\ \A v \in Workers \ {w} : worker'[v] = worker[v]
  BY OneWorker DEF StartWorker
<1>5. consumer \in Waiting
  BY <1>1 DEF Waiting
<1>6. Waiting' \in {Waiting, Waiting \ {consumer}}
  <2>1. worker'[w].st = "handle" /\ consumer' = NoKey
    BY <1>4 DEF StartWorker, Handling
  <2>2. \A k \in Keys \ {consumer} : k \in Waiting' <=> k \in Waiting
    BY <1>1, <1>3, <1>4, <2>1 DEF Waiting
  <2>3. Waiting \subseteq Keys /\ Waiting' \subseteq Keys
    BY DEF Waiting
  <2>4. QED
    BY <2>2, <2>3, <1>5
<1>7. QED
  BY <1>1, <1>2, <1>3, <1>4, <1>5, <1>6
  DEF Dispatch!Work, Dispatch!Taken, Dispatch!Seeing, Dispatch!Nothing, Dispatch!history,
      Goroutines, historyVars

\* A Handle of a worker ends.
LEMMA WorkEnds ==
    ASSUME TypeOK, NEW w \in Workers, HandleOk(w) \/ HandleFails(w)
    PROVE  Dispatch!WorkSucceeds(w) \/ Dispatch!WorkFails(w)
<1> DEFINE g == [key |-> worker[w].key, ver |-> worker[w].ver]
<1>1. worker[w].st = "handle" /\ worker[w].key \in Keys
  BY DEF HandleOk, HandleFails, TypeOK, WorkTypes
<1>2. Goroutines[w] = g /\ g # [key |-> NoKey, ver |-> 0]
  BY <1>1 DEF Goroutines, HandledBy
<1>3. UNCHANGED <<noted, gaveUp, retrier, batch, pq, consumer, deltaQueue, retryQueue>>
  BY DEF HandleOk, HandleFails, historyVars, queueVars, retryVars
<1>4. HandledBy(retrier)' = HandledBy(retrier)
  BY <1>3 DEF HandledBy
<1>5. CASE HandleOk(w)
  <2>1. /\ Goroutines' = [Goroutines EXCEPT ![w] = HandledBy(Idle)]
        /\ worker'[w] = Idle
        /\ \A v \in Workers \ {w} : worker'[v] = worker[v]
    BY <1>5, OneWorker DEF HandleOk
  <2>2. HandledBy(Idle) = [key |-> NoKey, ver |-> 0] /\ Idle.st # "failed"
    BY DEF HandledBy, Idle
  <2>3. Waiting' = Waiting
    BY <1>1, <1>3, <2>1, <2>2 DEF Waiting
  <2>4. applied' = [applied EXCEPT ![g.key] = Dispatch!Newer(@, g.ver)]
    BY <1>5 DEF HandleOk, Newer, Dispatch!Newer
  <2>5. QED
    BY <1>2, <1>3, <1>4, <2>1, <2>2, <2>3, <2>4
    DEF Dispatch!WorkSucceeds, Dispatch!Settles, Dispatch!Nothing, Goroutines
<1>6. CASE HandleFails(w)
  <2> DEFINE f == [st |-> "failed", key |-> worker[w].key, ver |-> worker[w].ver]
  <2>1. worker' = [worker EXCEPT ![w] = f] /\ UNCHANGED applied
    <3>1. worker' = [worker EXCEPT ![w] = [worker[w] EXCEPT !.st = "failed"]]
      BY <1>6 DEF HandleFails
    <3>2. worker[w] \in [st : {"idle", "handle", "failed"}, key : Keys \cup {NoKey}, ver : Nat]
      BY DEF TypeOK, WorkTypes
    <3>3. [worker[w] EXCEPT !.st = "failed"] = f
      BY <3>2
    <3>4. QED
      BY <1>6, <3>1, <3>3 DEF HandleFails, historyVars
  <2>2. /\ Goroutines' = [Goroutines EXCEPT ![w] = HandledBy(f)]
        /\ worker'[w] = f
        /\ \A v \in Workers \ {w} : worker'[v] = worker[v]
    BY <2>1, OneWorker
  <2>3. HandledBy(f) = [key |-> NoKey, ver |-> 0]
    BY DEF HandledBy
  <2>4. Waiting' = Waiting \cup {g.key}
    BY <1>1, <1>3, <2>2 DEF Waiting
  <2>5. QED
    BY <1>2, <1>3, <1>4, <2>1, <2>2, <2>3, <2>4
    DEF Dispatch!WorkFails, Dispatch!Nothing, Dispatch!history, Goroutines
<1>7. QED
  BY <1>5, <1>6

\* A Handle of the retrier begins.
LEMMA RetryStep ==
    ASSUME TypeOK, NEW k \in Keys, PopAndHandle(k)
    PROVE  Dispatch!Retry(k)
<1>1. UNCHANGED <<historyVars, worker, batch, consumer, deltaQueue, retryQueue>>
  BY DEF PopAndHandle, queueVars
<1>2. HandledBy(retrier) = [key |-> NoKey, ver |-> 0]
  BY DEF PopAndHandle, HandledBy
<1>3. HandledBy(retrier)' = [key |-> k, ver |-> noted[k]]
  BY DEF PopAndHandle, HandledBy, Handling
<1>4. k \in Waiting
  BY DEF PopAndHandle, Waiting
<1>5. \A j \in Keys \ {k} : j \in Waiting' <=> j \in Waiting
  BY <1>1 DEF PopAndHandle, Waiting
<1>6. Waiting \subseteq Keys /\ Waiting' \subseteq Keys
  BY DEF Waiting
<1>7. Waiting' \in {Waiting, Waiting \ {k}}
  BY <1>4, <1>5, <1>6
<1>8. QED
  BY <1>1, <1>2, <1>3, <1>4, <1>7
  DEF Dispatch!Retry, Dispatch!Taken, Dispatch!Seeing, Dispatch!Nothing, Dispatch!history,
      historyVars

\* A Handle of the retrier ends.
LEMMA RetryEnds ==
    ASSUME TypeOK, RetryOk \/ RetryStops \/ (\E d \in 1..MaxDelay : RetryFails(d))
    PROVE  Dispatch!RetrySucceeds \/ Dispatch!GivesUp \/ Dispatch!RetryFails
<1> DEFINE g == [key |-> retrier.key, ver |-> retrier.ver]
<1>1. retrier.st = "handle" /\ retrier.key \in Keys
  BY DEF RetryOk, RetryStops, RetryFails, TypeOK, WorkTypes
<1>2. HandledBy(retrier) = g /\ g # [key |-> NoKey, ver |-> 0]
  BY <1>1 DEF HandledBy
<1>3. /\ UNCHANGED <<noted, worker, batch, consumer, deltaQueue, retryQueue>>
      /\ retrier' = Idle
  BY DEF RetryOk, RetryStops, RetryFails, queueVars, historyVars
<1>4. HandledBy(retrier)' = [key |-> NoKey, ver |-> 0]
  BY <1>3 DEF HandledBy, Idle
<1>5. CASE RetryOk
  <2>1. Waiting' = Waiting /\ UNCHANGED gaveUp
    BY <1>3, <1>5 DEF Waiting, RetryOk
  <2>2. applied' = [applied EXCEPT ![g.key] = Dispatch!Newer(@, g.ver)]
    BY <1>5 DEF RetryOk, Newer, Dispatch!Newer
  <2>3. QED
    BY <1>2, <1>3, <1>4, <2>1, <2>2
    DEF Dispatch!RetrySucceeds, Dispatch!Settles, Dispatch!Nothing
<1>6. CASE RetryStops
  <2>1. Waiting' = Waiting /\ UNCHANGED applied
    BY <1>3, <1>6 DEF Waiting, RetryStops
  <2>2. gaveUp' = [gaveUp EXCEPT ![g.key] = Dispatch!Newer(@, g.ver)]
    BY <1>6 DEF RetryStops, Newer, Dispatch!Newer
  <2>3. QED
    BY <1>2, <1>3, <1>4, <2>1, <2>2
    DEF Dispatch!GivesUp, Dispatch!Settles, Dispatch!Nothing
<1>7. ASSUME NEW d \in 1..MaxDelay, RetryFails(d) PROVE Dispatch!RetryFails
  <2>1. pq' = pq \cup {g.key} /\ UNCHANGED historyVars
    BY <1>7 DEF RetryFails
  <2>2. Waiting' = Waiting \cup {g.key}
    BY <1>1, <1>3, <2>1 DEF Waiting
  <2>3. QED
    BY <1>2, <1>3, <1>4, <2>1, <2>2
    DEF Dispatch!RetryFails, Dispatch!Nothing, Dispatch!history, historyVars
<1>8. QED
  BY <1>5, <1>6, <1>7

\* What Watch returns is reported: nothing of an earlier batch is left then.
LEMMA ReportStep ==
    ASSUME TypeOK, ClosedInOrder, NEW ks \in SUBSET Keys, WatchReturns(ks)
    PROVE  Dispatch!Report(ks)
<1>1. UNCHANGED <<applied, gaveUp, worker, retrier, pq, consumer, deltaQueue, retryQueue>>
  BY DEF WatchReturns, queueVars, retryVars
<1>2. batch = {} /\ batch' = ks
  BY DEF WatchReturns, ClosedInOrder
<1>3. Waiting' = Waiting \cup ks
  BY <1>1, <1>2 DEF Waiting
<1>4. QED
  BY <1>1, <1>3 DEF Dispatch!Report, WatchReturns, HandledBy

\* Every step of the informer is a step of KeyDispatch or changes nothing of it.
LEMMA DispatchStep == IInv /\ [Next]_vars => [Dispatch!Next]_(Dispatch!dispatch)
<1> SUFFICES ASSUME IInv, [Next]_vars PROVE [Dispatch!Next]_(Dispatch!dispatch)
  OBVIOUS
<1> USE DEF IInv
<1>1. ASSUME UNCHANGED <<historyVars, worker, retrier, batch, pq, consumer, deltaQueue, retryQueue>>
      PROVE  UNCHANGED Dispatch!dispatch
  BY <1>1 DEF Dispatch!dispatch, Dispatch!history, historyVars, Waiting, HandledBy
<1>2. CASE LoopSelect \/ WatchFails \/ WatchAbandoned \/ WaitReturns \/ Close \/ Stopped
           \/ (\E w \in Workers : SendOnClosed(w)) \/ TimerIdles \/ Tick \/ UNCHANGED vars
  BY <1>1, <1>2 DEF LoopSelect, WatchFails, WatchAbandoned, WaitReturns, Close, Stopped,
     SendOnClosed, TimerIdles, Tick, vars, queueVars, retryVars
<1>3. CASE CloseRetryQueue
  <2>1. UNCHANGED <<historyVars, worker, retrier, batch, pq, deltaQueue, retryQueue>>
    BY <1>3 DEF CloseRetryQueue, queueVars, retryVars
  <2>2. consumer \notin Keys /\ consumer' \notin Keys
    BY <1>3 DEF CloseRetryQueue
  <2>3. QED
    BY <2>1, <2>2 DEF Dispatch!dispatch, Dispatch!history, historyVars, Waiting, HandledBy
<1>4. CASE RetrierReturns
  <2>1. UNCHANGED <<historyVars, worker, batch, pq, consumer, deltaQueue, retryQueue>>
    BY <1>4 DEF RetrierReturns, queueVars, retryVars
  <2>2. HandledBy(retrier)' = HandledBy(retrier)
    BY <1>4 DEF RetrierReturns, HandledBy, TypeOK, WorkTypes
  <2>3. QED
    BY <2>1, <2>2 DEF Dispatch!dispatch, Dispatch!history, historyVars, Waiting, HandledBy
<1>5. ASSUME \/ \E k \in Keys : Enqueue(k)
             \/ Receive
             \/ \E w \in Workers : SendRetry(w)
             \/ \E d \in 1..MaxDelay : ReceiveRetry(d)
      PROVE  UNCHANGED Dispatch!dispatch
  <2>1. UNCHANGED <<historyVars, retrier>>
    BY <1>5 DEF Enqueue, Receive, SendRetry, ReceiveRetry
  <2>2. Goroutines' = Goroutines
    <3>1. CASE UNCHANGED worker
      BY <3>1 DEF Goroutines, HandledBy
    <3>2. ASSUME NEW w \in Workers, SendRetry(w) PROVE Goroutines' = Goroutines
      <4>1. Goroutines' = [Goroutines EXCEPT ![w] = HandledBy(Idle)]
        BY <3>2, OneWorker DEF SendRetry
      <4>2. Goroutines[w] = HandledBy(Idle)
        BY <3>2 DEF Goroutines, HandledBy, SendRetry, Idle
      <4>3. QED
        BY <4>1, <4>2 DEF Goroutines
    <3>3. QED
      BY <1>5, <3>1, <3>2 DEF Enqueue, Receive, ReceiveRetry
  <2>3. HandledBy(retrier)' = HandledBy(retrier)
    BY <2>1 DEF HandledBy
  <2>4. QED
    BY <1>5, <2>1, <2>2, <2>3, Moves, Unseen
<1>6. CASE \E ks \in SUBSET Keys : WatchReturns(ks)
  BY <1>6, ReportStep DEF Dispatch!Next
<1>7. ASSUME NEW w \in Workers, StartWorker(w) PROVE Dispatch!Next
  BY <1>7, WorkStep DEF Dispatch!Next, StartWorker
<1>8. CASE \E w \in Workers : HandleOk(w) \/ HandleFails(w)
  BY <1>8, WorkEnds DEF Dispatch!Next
<1>9. CASE \E k \in Keys : PopAndHandle(k)
  BY <1>9, RetryStep DEF Dispatch!Next
<1>10. CASE RetryOk \/ RetryStops \/ (\E d \in 1..MaxDelay : RetryFails(d))
  BY <1>10, RetryEnds DEF Dispatch!Next
<1>11. QED
  BY <1>2, <1>3, <1>4, <1>5, <1>6, <1>7, <1>8, <1>9, <1>10
  DEF Next, Running, Watching, Consuming, Working, Retrying

\* For every instance: to the handler, the informer is KeyDispatch - a reported
\* key leaves what waits only into a Handle that sees the report
\* (WatchAndHandle).
THEOREM ImplementsKeyDispatch == Spec => ImplementsDispatch
<1>1. Init => Dispatch!Init
  BY DEF Init, Dispatch!Init, Dispatch!Nothing, Waiting, Queued, HandledBy, Idle
<1>2. QED
  BY <1>1, DispatchStep, Inductive, PTL DEF Spec, ImplementsDispatch, Dispatch!Spec
=============================================================================
