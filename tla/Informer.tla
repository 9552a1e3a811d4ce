------------------------------ MODULE Informer ------------------------------
(***************************************************************************)
(* The informer of app/internal/informer: the goroutines that carry the    *)
(* keys a reflector reports to the handler that applies them.              *)
(*                                                                         *)
(*   loop      the caller of WatchAndHandle: watches, enqueues, shuts down *)
(*   consumer  takes keys off deltaQueue and starts a worker for each      *)
(*   worker    the goroutines that run handler.Handle once for one key     *)
(*   retrier   the goroutine that owns the retry heap and its timer        *)
(*                                                                         *)
(* Time is what the retrier sees of it: the time left until an item's      *)
(* priority (due), until the instant the retrier takes its timer to be set *)
(* for (expiredTime), and until the timer fires (timer).                   *)
(***************************************************************************)
EXTENDS Naturals, Sequences

CONSTANTS
    Keys,        \* the keys a reflector may report
    Workers,     \* the worker slots: errgroup limit less the two long goroutines
    NoKey,       \* the consumer holds no key
    Done,        \* the consumer has returned
    DeltaCap,    \* deltaQueueSize
    RetryCap,    \* retryQueueSize
    MaxDelay,    \* longest interval NextBackOff returns
    MaxTries,    \* NextBackOff returns Stop after this many failures in a row
    IdleDelay,   \* the timer of an empty heap (24 h)
    MaxNotes     \* bound: how often Watch reports each key

ASSUME InformerAssumption ==
    /\ NoKey \notin Keys
    /\ Done \notin Keys
    /\ NoKey # Done
    /\ DeltaCap \in Nat \ {0}
    /\ RetryCap \in Nat \ {0}
    /\ MaxDelay \in Nat \ {0}
    /\ MaxTries \in Nat
    /\ IdleDelay \in Nat \ {0}
    /\ MaxNotes \in [Keys -> Nat]

VARIABLES
    closed,      \* closeCh and the reflector are closed
    loop,        \* where WatchAndHandle is
    batch,       \* keys Watch returned that are not enqueued yet
    deltaQueue,
    consumer,    \* the key held while every worker slot is taken, NoKey or Done
    worker,
    retryQueue,
    retrier,
    items,       \* keys of the map items
    pq,          \* keys in the heap
    due,         \* time left until the priority of a key in the heap
    tries,       \* failures since the key's backoff was created or reset
    timer,       \* time left until the timer fires
    expiredTime, \* time left until what the retrier has last set the timer for
    panicked,    \* a worker sent on the closed retryQueue
    noted,       \* history: times Watch reported the key
    applied,     \* history: newest report whose value Handle has applied
    gaveUp       \* history: newest report that was retried until Stop

queueVars == <<deltaQueue, retryQueue>>
retryVars == <<items, pq, due, tries, timer, expiredTime>>
historyVars == <<noted, applied, gaveUp>>
vars == <<closed, loop, batch, deltaQueue, consumer, worker, retryQueue,
          retrier, retryVars, panicked, historyVars>>

-----------------------------------------------------------------------------
LoopStates == {"select", "watch", "backoff", "enqueue", "wait", "returned"}

\* A goroutine that handles a key remembers how many reports it had seen
\* when Handle began: Handle reads the reflector's value after that.
Idle == [st |-> "idle", key |-> NoKey, ver |-> 0]
Handling(k) == [st |-> "handle", key |-> k, ver |-> noted[k]]

DeltaClosed == loop \in {"wait", "returned"}
RetryClosed == consumer = Done

Queued(q, k) == \E i \in 1..Len(q) : q[i] = k
Newer(m, n) == IF m > n THEN m ELSE n

LoopTypes ==
    /\ closed \in BOOLEAN
    /\ loop \in LoopStates
    /\ batch \in SUBSET Keys
    /\ deltaQueue \in Seq(Keys)
    /\ consumer \in Keys \cup {NoKey, Done}
    /\ panicked \in BOOLEAN

WorkTypes ==
    /\ worker \in [Workers -> [st : {"idle", "handle", "failed"},
                               key : Keys \cup {NoKey}, ver : Nat]]
    /\ retryQueue \in Seq(Keys)
    /\ retrier \in [st : {"idle", "handle", "done"},
                    key : Keys \cup {NoKey}, ver : Nat]
    /\ \A w \in Workers : worker[w].st = "idle" <=> worker[w].key = NoKey
    /\ retrier.st = "handle" <=> retrier.key \in Keys

HeapTypes ==
    /\ items \in SUBSET Keys
    /\ pq \in SUBSET Keys
    /\ due \in [Keys -> 0..MaxDelay]
    /\ tries \in [Keys -> 0..MaxTries]
    /\ timer \in Nat
    /\ expiredTime \in Nat

HistoryTypes ==
    /\ noted \in [Keys -> Nat]
    /\ applied \in [Keys -> Nat]
    /\ gaveUp \in [Keys -> Nat]

TypeOK == LoopTypes /\ WorkTypes /\ HeapTypes /\ HistoryTypes

Init ==
    /\ closed = FALSE
    /\ loop = "select"
    /\ batch = {}
    /\ deltaQueue = <<>>
    /\ retryQueue = <<>>
    /\ consumer = NoKey
    /\ worker = [w \in Workers |-> Idle]
    /\ retrier = Idle
    /\ items = {}
    /\ pq = {}
    /\ due = [k \in Keys |-> 0]
    /\ tries = [k \in Keys |-> 0]
    /\ timer = IdleDelay
    /\ expiredTime = IdleDelay
    /\ panicked = FALSE
    /\ noted = [k \in Keys |-> 0]
    /\ applied = [k \in Keys |-> 0]
    /\ gaveUp = [k \in Keys |-> 0]

-----------------------------------------------------------------------------
(* The watch loop.                                                         *)

\* The select at the top of the loop: shut down, or go and watch.
LoopSelect ==
    /\ loop = "select"
    /\ loop' = IF closed THEN "wait" ELSE "watch"
    /\ UNCHANGED <<closed, batch, queueVars, consumer, worker, retrier,
                   retryVars, panicked, historyVars>>

\* Watch, called directly or by backoff.Retry, reports keys (perhaps none).
WatchReturns(ks) ==
    /\ loop \in {"watch", "backoff"}
    /\ \A k \in ks : noted[k] < MaxNotes[k]
    /\ loop' = IF ks = {} THEN "select" ELSE "enqueue"
    /\ batch' = ks
    /\ noted' = [k \in Keys |-> IF k \in ks THEN noted[k] + 1 ELSE noted[k]]
    /\ UNCHANGED <<closed, queueVars, consumer, worker, retrier, retryVars,
                   panicked, applied, gaveUp>>

\* Watch fails on the database; backoff.Retry takes over and does not look at
\* closeCh. Its own failing attempts change nothing.
WatchFails ==
    /\ loop = "watch"
    /\ loop' = "backoff"
    /\ UNCHANGED <<closed, batch, queueVars, consumer, worker, retrier,
                   retryVars, panicked, historyVars>>

\* Mutation: Watch polls the version without looking at the reflector's closeCh.
WatchIgnoresClose ==
    /\ loop = "backoff"
    /\ loop' = "select"
    /\ UNCHANGED <<closed, batch, queueVars, consumer, worker, retrier,
                   retryVars, panicked, historyVars>>

\* Watch saw the closed reflector, or backoff.Retry gave up after 24 h.
WatchAbandoned ==
    /\ \/ loop \in {"watch", "backoff"} /\ closed
       \/ loop = "backoff"
    /\ loop' = "select"
    /\ UNCHANGED <<closed, batch, queueVars, consumer, worker, retrier,
                   retryVars, panicked, historyVars>>

\* deltaQueue <- key, which blocks while the queue is full.
Enqueue(k) ==
    /\ loop = "enqueue"
    /\ k \in batch
    /\ Len(deltaQueue) < DeltaCap
    /\ deltaQueue' = Append(deltaQueue, k)
    /\ batch' = batch \ {k}
    /\ loop' = IF batch = {k} THEN "select" ELSE "enqueue"
    /\ UNCHANGED <<closed, consumer, worker, retryQueue, retrier, retryVars,
                   panicked, historyVars>>

Close ==
    /\ ~closed
    /\ closed' = TRUE
    /\ UNCHANGED <<loop, batch, queueVars, consumer, worker, retrier,
                   retryVars, panicked, historyVars>>

\* eg.Wait returns once all goroutines of the group have.
WaitReturns ==
    /\ loop = "wait"
    /\ consumer = Done
    /\ retrier.st = "done"
    /\ \A w \in Workers : worker[w].st = "idle"
    /\ loop' = "returned"
    /\ UNCHANGED <<closed, batch, queueVars, consumer, worker, retrier,
                   retryVars, panicked, historyVars>>

-----------------------------------------------------------------------------
(* The consumer of deltaQueue and its workers.                             *)

Receive ==
    /\ consumer = NoKey
    /\ deltaQueue # <<>>
    /\ consumer' = Head(deltaQueue)
    /\ deltaQueue' = Tail(deltaQueue)
    /\ UNCHANGED <<closed, loop, batch, worker, retryQueue, retrier,
                   retryVars, panicked, historyVars>>

\* eg.Go blocks while the limit of the group is reached.
StartWorker(w) ==
    /\ consumer \in Keys
    /\ worker[w].st = "idle"
    /\ worker' = [worker EXCEPT ![w] = Handling(consumer)]
    /\ consumer' = NoKey
    /\ UNCHANGED <<closed, loop, batch, queueVars, retrier, retryVars,
                   panicked, historyVars>>

\* Mutation: the consumer ends when deltaQueue is empty, closed or not.
CloseRetryQueueEarly ==
    /\ consumer = NoKey
    /\ deltaQueue = <<>>
    /\ consumer' = Done
    /\ UNCHANGED <<closed, loop, batch, queueVars, worker, retrier,
                   retryVars, panicked, historyVars>>

\* The range over the closed, drained deltaQueue ends: retryQueue is closed
\* at once, without waiting for the workers.
CloseRetryQueue ==
    /\ consumer = NoKey
    /\ DeltaClosed
    /\ deltaQueue = <<>>
    /\ consumer' = Done
    /\ UNCHANGED <<closed, loop, batch, queueVars, worker, retrier,
                   retryVars, panicked, historyVars>>

HandleOk(w) ==
    /\ worker[w].st = "handle"
    /\ LET k == worker[w].key IN
       applied' = [applied EXCEPT ![k] = Newer(@, worker[w].ver)]
    /\ worker' = [worker EXCEPT ![w] = Idle]
    /\ UNCHANGED <<closed, loop, batch, queueVars, consumer, retrier,
                   retryVars, panicked, noted, gaveUp>>

\* Mutation: the failed key is logged and not sent on.
HandleFailsSilently(w) ==
    /\ worker[w].st = "handle"
    /\ worker' = [worker EXCEPT ![w] = Idle]
    /\ UNCHANGED <<closed, loop, batch, queueVars, consumer, retrier,
                   retryVars, panicked, historyVars>>

HandleFails(w) ==
    /\ worker[w].st = "handle"
    /\ worker' = [worker EXCEPT ![w].st = "failed"]
    /\ UNCHANGED <<closed, loop, batch, queueVars, consumer, retrier,
                   retryVars, panicked, historyVars>>

\* Mutation: the send gives up when the queue is full.
SendRetryOrDrop(w) ==
    /\ worker[w].st = "failed"
    /\ ~RetryClosed
    /\ retryQueue' = IF Len(retryQueue) < RetryCap
                     THEN Append(retryQueue, worker[w].key) ELSE retryQueue
    /\ worker' = [worker EXCEPT ![w] = Idle]
    /\ UNCHANGED <<closed, loop, batch, deltaQueue, consumer, retrier,
                   retryVars, panicked, historyVars>>

\* retryQueue <- key of a failed worker, which blocks while the queue is full.
SendRetry(w) ==
    /\ worker[w].st = "failed"
    /\ ~RetryClosed
    /\ Len(retryQueue) < RetryCap
    /\ retryQueue' = Append(retryQueue, worker[w].key)
    /\ worker' = [worker EXCEPT ![w] = Idle]
    /\ UNCHANGED <<closed, loop, batch, deltaQueue, consumer, retrier,
                   retryVars, panicked, historyVars>>

\* The same send after close(retryQueue), or blocked in it: Go panics.
SendOnClosed(w) ==
    /\ worker[w].st = "failed"
    /\ RetryClosed
    /\ panicked' = TRUE
    /\ UNCHANGED <<closed, loop, batch, queueVars, consumer, worker, retrier,
                   retryVars, historyVars>>

-----------------------------------------------------------------------------
(* The retrier: the heap, the map of items and the timer.                  *)

\* pq[0], once a step has changed the heap.
IsHead(k) == k \in pq' /\ \A j \in pq' : due'[k] <= due'[j]

SetTimer(time) == timer' = time /\ expiredTime' = time

\* After a Handle the timer is reset to the head of the heap, or to 24 h when
\* it is empty.
ArmTimer ==
    \/ pq' = {} /\ SetTimer(IdleDelay)
    \/ \E k \in Keys : IsHead(k) /\ SetTimer(due'[k])

\* Mutation: the timer is reset and expiredTime is not.
RearmTimerOnly ==
    \E k \in Keys :
        /\ IsHead(k)
        /\ IF due'[k] # expiredTime THEN timer' = due'[k] ELSE UNCHANGED timer
        /\ UNCHANGED expiredTime

\* When a key arrives the timer is reset only if the head is not due at the
\* time it has been set for. (Two instants in the past are both 0 here: the
\* timer has fired, and a reset to either lets it fire at once.)
RearmTimer ==
    \E k \in Keys :
        /\ IsHead(k)
        /\ IF due'[k] # expiredTime
           THEN SetTimer(due'[k])
           ELSE UNCHANGED <<timer, expiredTime>>

\* A failed key arrives: a new item, or the item it has gets a fresh backoff
\* and is moved in the heap by update. delay is NextBackOff's answer.
ReceiveRetry(delay) ==
    /\ retrier.st = "idle"
    /\ retryQueue # <<>>
    /\ LET k == Head(retryQueue) IN
       /\ items' = items \cup {k}
       /\ pq' = IF k \in items THEN pq ELSE pq \cup {k}
       /\ due' = [due EXCEPT ![k] = delay]
       /\ tries' = [tries EXCEPT ![k] = 0]
       /\ RearmTimer
    /\ retryQueue' = Tail(retryQueue)
    /\ UNCHANGED <<closed, loop, batch, deltaQueue, consumer, worker, retrier,
                   panicked, historyVars>>

\* The closed retryQueue is drained: return, forgetting the items left.
RetrierReturns ==
    /\ retrier.st = "idle"
    /\ RetryClosed
    /\ retryQueue = <<>>
    /\ retrier' = [retrier EXCEPT !.st = "done"]
    /\ UNCHANGED <<closed, loop, batch, queueVars, consumer, worker,
                   retryVars, panicked, historyVars>>

\* The timer fires with nothing in the heap.
TimerIdles ==
    /\ retrier.st = "idle"
    /\ timer = 0
    /\ pq = {}
    /\ SetTimer(IdleDelay)
    /\ UNCHANGED <<closed, loop, batch, queueVars, consumer, worker, retrier,
                   items, pq, due, tries, panicked, historyVars>>

\* The timer fires: pop the head of the heap and handle it here.
PopAndHandle(k) ==
    /\ retrier.st = "idle"
    /\ timer = 0
    /\ k \in pq
    /\ \A j \in pq : due[k] <= due[j]
    /\ pq' = pq \ {k}
    /\ due' = [due EXCEPT ![k] = 0]
    /\ retrier' = Handling(k)
    /\ UNCHANGED <<closed, loop, batch, queueVars, consumer, worker, items,
                   tries, timer, expiredTime, panicked, historyVars>>

\* Mutation: a key handled at last stays in the map of items.
RetryOkKeepsItem ==
    /\ retrier.st = "handle"
    /\ applied' = [applied EXCEPT ![retrier.key] = Newer(@, retrier.ver)]
    /\ UNCHANGED <<items, pq, due, tries>>
    /\ ArmTimer
    /\ retrier' = Idle
    /\ UNCHANGED <<closed, loop, batch, queueVars, consumer, worker,
                   panicked, noted, gaveUp>>

\* Handled at last: the key leaves the map.
RetryOk ==
    /\ retrier.st = "handle"
    /\ LET k == retrier.key IN
       /\ items' = items \ {k}
       /\ applied' = [applied EXCEPT ![k] = Newer(@, retrier.ver)]
    /\ UNCHANGED <<pq, due, tries>>
    /\ ArmTimer
    /\ retrier' = Idle
    /\ UNCHANGED <<closed, loop, batch, queueVars, consumer, worker,
                   panicked, noted, gaveUp>>

\* Mutation: NextBackOff never answers Stop.
RetryFailsForEver(delay) ==
    /\ retrier.st = "handle"
    /\ LET k == retrier.key IN
       /\ tries' = [tries EXCEPT ![k] = @ + 1]
       /\ due' = [due EXCEPT ![k] = delay]
       /\ pq' = pq \cup {k}
       /\ ArmTimer
    /\ retrier' = Idle
    /\ UNCHANGED <<closed, loop, batch, queueVars, consumer, worker, items,
                   panicked, historyVars>>

\* Mutation: the popped item is not pushed back.
RetryFailsUnpushed(delay) ==
    /\ retrier.st = "handle"
    /\ LET k == retrier.key IN
       /\ tries[k] < MaxTries
       /\ tries' = [tries EXCEPT ![k] = @ + 1]
       /\ due' = [due EXCEPT ![k] = delay]
       /\ pq' = pq
       /\ ArmTimer
    /\ retrier' = Idle
    /\ UNCHANGED <<closed, loop, batch, queueVars, consumer, worker, items,
                   panicked, historyVars>>

\* Failed again: back into the heap after the next interval.
RetryFails(delay) ==
    /\ retrier.st = "handle"
    /\ LET k == retrier.key IN
       /\ tries[k] < MaxTries
       /\ tries' = [tries EXCEPT ![k] = @ + 1]
       /\ due' = [due EXCEPT ![k] = delay]
       /\ pq' = pq \cup {k}
       /\ ArmTimer
    /\ retrier' = Idle
    /\ UNCHANGED <<closed, loop, batch, queueVars, consumer, worker, items,
                   panicked, historyVars>>

\* Failed and NextBackOff answered Stop: the key is dropped.
RetryStops ==
    /\ retrier.st = "handle"
    /\ LET k == retrier.key IN
       /\ tries[k] = MaxTries
       /\ items' = items \ {k}
       /\ gaveUp' = [gaveUp EXCEPT ![k] = Newer(@, retrier.ver)]
    /\ UNCHANGED <<pq, due, tries>>
    /\ ArmTimer
    /\ retrier' = Idle
    /\ UNCHANGED <<closed, loop, batch, queueVars, consumer, worker,
                   panicked, noted, applied>>

\* One unit of time passes.
Tick ==
    /\ retrier.st # "done"
    /\ timer > 0 \/ \E k \in pq : due[k] > 0
    /\ timer' = IF timer > 0 THEN timer - 1 ELSE 0
    /\ expiredTime' = IF expiredTime > 0 THEN expiredTime - 1 ELSE 0
    /\ due' = [k \in Keys |-> IF due[k] > 0 THEN due[k] - 1 ELSE 0]
    /\ UNCHANGED <<closed, loop, batch, queueVars, consumer, worker, retrier,
                   items, pq, tries, panicked, historyVars>>

-----------------------------------------------------------------------------
Watching ==
    \/ LoopSelect
    \/ \E ks \in SUBSET Keys : WatchReturns(ks)
    \/ WatchFails
    \/ WatchAbandoned
    \/ \E k \in Keys : Enqueue(k)
    \/ WaitReturns

Consuming ==
    \/ Receive
    \/ \E w \in Workers : StartWorker(w)
    \/ CloseRetryQueue

Working(w) == HandleOk(w) \/ HandleFails(w) \/ SendRetry(w) \/ SendOnClosed(w)

Retrying ==
    \/ \E d \in 1..MaxDelay : ReceiveRetry(d)
    \/ RetrierReturns
    \/ TimerIdles
    \/ \E k \in Keys : PopAndHandle(k)
    \/ RetryOk
    \/ \E d \in 1..MaxDelay : RetryFails(d)
    \/ RetryStops

Running ==
    /\ ~panicked
    /\ \/ Watching
       \/ Close
       \/ Consuming
       \/ \E w \in Workers : Working(w)
       \/ Retrying
       \/ Tick

\* The process is gone, or WatchAndHandle has returned.
Stopped ==
    /\ panicked \/ loop = "returned"
    /\ UNCHANGED vars

Next == Running \/ Stopped

Spec == Init /\ [][Next]_vars

(* Every goroutine that can take a step is scheduled, a Handle that began  *)
(* returns, time passes. The retrier's select picks among its ready cases  *)
(* at random, so neither the queue nor the timer is passed over for ever.  *)
(* Nothing is assumed of what Watch reports, of whether Handle succeeds,   *)
(* or of Close.                                                            *)
Fairness ==
    /\ WF_vars(~panicked /\ LoopSelect)
    /\ WF_vars(~panicked /\ WatchAbandoned)
    /\ WF_vars(~panicked /\ \E k \in Keys : Enqueue(k))
    /\ WF_vars(~panicked /\ WaitReturns)
    /\ WF_vars(~panicked /\ Consuming)
    /\ \A w \in Workers : WF_vars(~panicked /\ Working(w))
    /\ WF_vars(~panicked /\ Retrying)
    /\ SF_vars(~panicked /\ \E d \in 1..MaxDelay : ReceiveRetry(d))
    /\ SF_vars(~panicked /\ \E k \in Keys : PopAndHandle(k))
    /\ SF_vars(~panicked /\ RetrierReturns)
    /\ WF_vars(~panicked /\ Tick)

FairSpec == Spec /\ Fairness

-----------------------------------------------------------------------------
(* Properties.                                                             *)

\* The newest report of k is neither applied nor retried until Stop.
Unsettled(k) == noted[k] > applied[k] /\ noted[k] > gaveUp[k]

\* What carries the newest report of k on to a Handle that will see it.
Carried(k) ==
    \/ k \in batch
    \/ Queued(deltaQueue, k)
    \/ consumer = k
    \/ \E w \in Workers :
         /\ worker[w].key = k
         /\ worker[w].st = "failed" \/ worker[w].ver = noted[k]
    \/ Queued(retryQueue, k)
    \/ k \in pq
    \/ retrier.key = k /\ retrier.ver = noted[k]

\* No report of a key is lost between the queues, the workers and the retry
\* heap, however they interleave: as long as the retrier lives, a key whose
\* newest report has been neither applied nor retried until Stop is carried by
\* one of them (informer.go, the whole hand-over of WatchAndHandle).
NoKeyLost ==
    ~panicked /\ retrier.st # "done" => \A k \in Keys : Unsettled(k) => Carried(k)

\* The map and the heap agree: an item is in the heap, but for the one the
\* retrier has popped. Otherwise update calls heap.Fix with index -1.
ItemsInHeap ==
    items = pq \cup (IF retrier.st = "handle" THEN {retrier.key} ELSE {})

\* Whenever the retrier waits in its select the timer is set for the earliest
\* item: skipping the reset when expiredTime is the head's time never leaves
\* the timer at another one, of an item that has moved, or at the 24 h of an
\* empty heap.
TimerArmed ==
    retrier.st = "idle" =>
        /\ \A k \in pq : timer <= due[k]
        /\ pq # {} => \E k \in pq : timer = due[k]

\* Every report is applied, retried until Stop, or overtaken by the end of the
\* process: no interleaving strands it.
EventuallySettled ==
    \A k \in Keys :
        Unsettled(k) ~> ~Unsettled(k) \/ closed \/ panicked

\* After Close, WatchAndHandle returns unless a worker panics: Watch, the
\* blocking sends and eg.Wait never wait on each other for ever.
ShutdownEnds == closed ~> (loop = "returned" \/ panicked)

\* The informer crashes only after Close, and only once every reported key has
\* reached a worker: what panics is a Handle that was running when retryQueue
\* was closed and failed then, never a key still on its way.
PanicOnlyAtShutdown ==
    panicked => closed /\ batch = {} /\ deltaQueue = <<>> /\ consumer = Done

\* Where a key waits for a Handle: on its way to a worker, in the hands of one
\* whose Handle failed, on its way to the retrier, or in the heap.
Waiting ==
    {k \in Keys :
        \/ k \in batch \cup pq
        \/ consumer = k
        \/ Queued(deltaQueue, k) \/ Queued(retryQueue, k)
        \/ \E w \in Workers : worker[w].st = "failed" /\ worker[w].key = k}

\* What a goroutine handles.
HandledBy(g) == IF g.st = "handle" THEN [key |-> g.key, ver |-> g.ver]
                ELSE [key |-> NoKey, ver |-> 0]

Dispatch == INSTANCE KeyDispatch WITH
    waiting <- Waiting,
    working <- [w \in Workers |-> HandledBy(worker[w])],
    retrying <- HandledBy(retrier)

\* To the handler the informer is module KeyDispatch: queues, workers, heap and
\* shutdown move a key on or leave it where it is, and it goes missing only
\* into a Handle that began after it was reported (WatchAndHandle).
ImplementsDispatch == Dispatch!Spec
=============================================================================
