------------------------------ MODULE Consumer ------------------------------
(***************************************************************************)
(* One consumer of one RocketMQ topic: Receive, messageHandle and Close of *)
(* app/job/internal/data/rocketmq.go, with as much of the broker as they   *)
(* rely on: a received message is hidden for a time the consumer asks for, *)
(* is delivered again when that time is over, and goes to the dead letter  *)
(* queue after MaxAttempts deliveries.                                     *)
(*                                                                         *)
(* Time is discrete; every duration the code adds up is a constant.        *)
(***************************************************************************)
EXTENDS Naturals, FiniteSets

CONSTANTS
    Msgs,          \* messages of the topic
    Strategy,      \* retry strategy of each message: "backoff" or "decay"
    Orderly,       \* TRUE: BUS_WORK_MODE_ORDERLY, FALSE: CONCURRENTLY
    Slots,         \* goroutines messageHandle runs on (WorkersPerMqTopic)
    NoMsg,         \* a slot is free
    MaxAttempts,   \* broker: deliveries before the dead letter queue
    Earlier,       \* deliveries to consumers that have stopped since
    HandleTime,    \* timeout of the handler's context
    ReqTime,       \* rmqReqTimeout: longest ack or change request
    Margin,        \* the 10 s in the invisible duration
    BackoffLimit,  \* executions of a backoff event (4)
    DecayLimit,    \* executions of an exponential decay event (177)
    DecaySteps,    \* attempt from which the decay delay is constant (10)
    BackoffDelays  \* the delays 10 + rand.Intn(10) may give

ASSUME ConsumerAssumption ==
    /\ IsFiniteSet(Msgs)
    /\ IsFiniteSet(Slots) /\ Slots # {}
    /\ Orderly \in BOOLEAN
    /\ Orderly => Cardinality(Slots) = 1
    /\ Strategy \in [Msgs -> {"backoff", "decay"}]
    /\ NoMsg \notin Msgs
    /\ MaxAttempts \in Nat \ {0}
    /\ Earlier \in [Msgs -> 0..MaxAttempts]
    /\ HandleTime \in Nat \ {0}
    /\ ReqTime \in Nat \ {0}
    /\ Margin \in Nat \ {0}
    /\ BackoffLimit \in Nat \ {0}
    /\ DecayLimit \in Nat \ {0}
    /\ DecaySteps \in Nat \ {0}
    /\ BackoffDelays \subseteq Nat \ {0}

VARIABLES
    where,       \* where the broker has a message
    hidden,      \* time until a hidden message becomes visible
    attempt,     \* deliveries of a message so far
    pc,          \* where Receive is
    want,        \* maxMessageNum of the request
    batch,       \* received messages no slot has taken yet
    slot,        \* what each goroutine works on
    closed       \* closeC is closed

consumerVars == <<where, hidden, attempt, pc, want, batch, slot, closed>>

-----------------------------------------------------------------------------
Free == [msg |-> NoMsg, phase |-> "free", left |-> 0]

Busy == {s \in Slots : slot[s].msg # NoMsg}
FreeSlots == Cardinality(Slots) - Cardinality(Busy)

\* Mutation: the handler's timeout and nothing more.
InvisibleForHandler(n) == HandleTime

\* How long the messages of a request for n stay hidden.
InvisibleFor(n) ==
    (IF Orderly THEN Margin ELSE n + Margin) + ReqTime + HandleTime

\* The attempt at which messageHandle leaves the message to the broker.
Limit(m) == IF Strategy[m] = "backoff" THEN BackoffLimit ELSE DecayLimit

\* The delays messageHandle may ask for after the a-th execution failed.
Delays(m, a) ==
    IF Strategy[m] = "backoff" THEN BackoffDelays
    ELSE {2 ^ ((IF a < DecaySteps THEN a ELSE DecaySteps) - 1)}

Deliverable(m) == where[m] = "visible" /\ attempt[m] < MaxAttempts

ConsumerTypeOK ==
    /\ where \in [Msgs -> {"unsent", "visible", "hidden", "acked", "dead"}]
    /\ hidden \in [Msgs -> Nat]
    /\ attempt \in [Msgs -> 0..MaxAttempts]
    /\ pc \in {"poll", "receive", "assign", "returned"}
    /\ want \in 0..Cardinality(Slots)
    /\ batch \in SUBSET Msgs
    /\ slot \in [Slots -> [msg : Msgs \cup {NoMsg},
                           phase : {"free", "handle", "ack", "change"},
                           left : Nat]]
    /\ \A s \in Slots : slot[s].msg = NoMsg <=> slot[s].phase = "free"
    /\ closed \in BOOLEAN

ConsumerInit ==
    /\ where = [m \in Msgs |-> "unsent"]
    /\ hidden = [m \in Msgs |-> 0]
    /\ attempt = Earlier
    /\ pc = "poll"
    /\ want = 0
    /\ batch = {}
    /\ slot = [s \in Slots |-> Free]
    /\ closed = FALSE

-----------------------------------------------------------------------------
(* The broker.                                                             *)

Send(m) ==
    /\ where[m] = "unsent"
    /\ where' = [where EXCEPT ![m] = "visible"]
    /\ UNCHANGED <<hidden, attempt, pc, want, batch, slot, closed>>

DeadLetter(m) ==
    /\ where[m] = "visible"
    /\ attempt[m] = MaxAttempts
    /\ where' = [where EXCEPT ![m] = "dead"]
    /\ UNCHANGED <<hidden, attempt, pc, want, batch, slot, closed>>

-----------------------------------------------------------------------------
(* Receive.                                                                *)

\* Mutation: the request asks for a message per slot, free or not.
PollAll ==
    /\ pc = "poll"
    /\ FreeSlots > 0
    /\ want' = IF Orderly THEN 1 ELSE Cardinality(Slots)
    /\ pc' = "receive"
    /\ UNCHANGED <<where, hidden, attempt, batch, slot, closed>>

\* Wait for a free slot and ask for as many messages as there are free slots.
\* Only this loop fills slots, so there may be more of them, never fewer, when
\* the answer comes. ORDERLY asks for one once the last has been handled.
Poll ==
    /\ pc = "poll"
    /\ FreeSlots > 0
    /\ want' = IF Orderly THEN 1 ELSE FreeSlots
    /\ pc' = "receive"
    /\ UNCHANGED <<where, hidden, attempt, batch, slot, closed>>

\* The select of the concurrent loop sees closeC.
PollClosed ==
    /\ pc = "poll"
    /\ ~Orderly
    /\ closed
    /\ pc' = "returned"
    /\ UNCHANGED <<where, hidden, attempt, want, batch, slot, closed>>

\* The broker answers with some messages and hides them.
ReceiveBatch(S) ==
    /\ pc = "receive"
    /\ Cardinality(S) <= want
    /\ \A m \in S : Deliverable(m)
    /\ batch' = S
    /\ where' = [m \in Msgs |-> IF m \in S THEN "hidden" ELSE where[m]]
    /\ hidden' = [m \in Msgs |-> IF m \in S THEN InvisibleFor(want) ELSE hidden[m]]
    /\ attempt' = [m \in Msgs |-> IF m \in S THEN attempt[m] + 1 ELSE attempt[m]]
    /\ pc' = "assign"
    /\ UNCHANGED <<want, slot, closed>>

\* Mutation: an error ends Receive, as if the consumer had been closed.
ReceiveFailsForGood ==
    /\ pc = "receive"
    /\ pc' = "returned"
    /\ UNCHANGED <<where, hidden, attempt, want, batch, slot, closed>>

\* Mutation: an error is retried without a look at closeC.
ReceiveFailsForEver ==
    /\ pc = "receive"
    /\ pc' = "poll"
    /\ UNCHANGED <<where, hidden, attempt, want, batch, slot, closed>>

\* No message, or an error: return if closed, else start over.
ReceiveFails ==
    /\ pc = "receive"
    /\ pc' = IF closed THEN "returned" ELSE "poll"
    /\ UNCHANGED <<where, hidden, attempt, want, batch, slot, closed>>

\* A slot is acquired and messageHandle starts.
Assign(m, s) ==
    /\ pc = "assign"
    /\ m \in batch
    /\ s \notin Busy
    /\ slot' = [slot EXCEPT ![s] =
                    [msg |-> m, phase |-> "handle", left |-> HandleTime]]
    /\ batch' = batch \ {m}
    /\ pc' = IF batch = {m} THEN "poll" ELSE "assign"
    /\ UNCHANGED <<where, hidden, attempt, want, closed>>

\* The select of the concurrent loop sees closeC with messages left: they are
\* dropped and come again when their time is over.
AssignClosed ==
    /\ pc = "assign"
    /\ ~Orderly
    /\ closed
    /\ batch' = {}
    /\ pc' = "returned"
    /\ UNCHANGED <<where, hidden, attempt, want, slot, closed>>

Close ==
    /\ ~closed
    /\ closed' = TRUE
    /\ UNCHANGED <<where, hidden, attempt, pc, want, batch, slot>>

-----------------------------------------------------------------------------
(* messageHandle, on slot s.                                               *)

\* Mutation: the semaphore is not released.
ReleaseLeaks(s) == slot' = [slot EXCEPT ![s].phase = "free"]

Release(s) == slot' = [slot EXCEPT ![s] = Free]

\* The body cannot be decoded: return without an answer to the broker.
DecodeFails(s) ==
    /\ slot[s].phase = "handle"
    /\ slot[s].left = HandleTime
    /\ Release(s)
    /\ UNCHANGED <<where, hidden, attempt, pc, want, batch, closed>>

\* The ack runs under what is left of the handler's context.
HandleOk(s) ==
    /\ slot[s].phase = "handle"
    /\ slot' = [slot EXCEPT ![s].phase = "ack"]
    /\ UNCHANGED <<where, hidden, attempt, pc, want, batch, closed>>

\* The event failed, by the handler or by the ack: give up on it at the limit,
\* otherwise ask for a delay.
Failed(s) ==
    IF attempt[slot[s].msg] >= Limit(slot[s].msg)
    THEN Release(s)
    ELSE slot' = [slot EXCEPT ![s].phase = "change", ![s].left = ReqTime]

HandleFails(s) ==
    /\ slot[s].phase = "handle"
    /\ Failed(s)
    /\ UNCHANGED <<where, hidden, attempt, pc, want, batch, closed>>

\* The broker takes the ack of a message that is still hidden for this
\* delivery.
AckOk(s) ==
    /\ slot[s].phase = "ack"
    /\ where[slot[s].msg] = "hidden"
    /\ where' = [where EXCEPT ![slot[s].msg] = "acked"]
    /\ hidden' = [hidden EXCEPT ![slot[s].msg] = 0]
    /\ Release(s)
    /\ UNCHANGED <<attempt, pc, want, batch, closed>>

\* The ack fails, or its answer is lost after the broker took it.
AckFails(s) ==
    /\ slot[s].phase = "ack"
    /\ \/ UNCHANGED <<where, hidden>>
       \/ /\ where[slot[s].msg] = "hidden"
          /\ where' = [where EXCEPT ![slot[s].msg] = "acked"]
          /\ hidden' = [hidden EXCEPT ![slot[s].msg] = 0]
    /\ Failed(s)
    /\ UNCHANGED <<attempt, pc, want, batch, closed>>

\* ChangeInvisibleDuration, whose failure is only logged.
ChangeDelay(s) ==
    /\ slot[s].phase = "change"
    /\ LET m == slot[s].msg IN
       \/ UNCHANGED hidden
       \/ /\ where[m] = "hidden"
          /\ \E d \in Delays(m, attempt[m]) : hidden' = [hidden EXCEPT ![m] = d]
    /\ Release(s)
    /\ UNCHANGED <<where, attempt, pc, want, batch, closed>>

\* One unit of time passes: the handler returns before its context's deadline
\* is over by one, a request is answered or times out, and a free slot takes
\* its message without delay.
Tick ==
    /\ \A s \in Busy : slot[s].left > 0
    /\ ~(pc = "assign" /\ FreeSlots > 0)
    /\ hidden' = [m \in Msgs |-> IF hidden[m] > 0 THEN hidden[m] - 1 ELSE 0]
    /\ where' = [m \in Msgs |-> IF where[m] = "hidden" /\ hidden[m] <= 1
                                THEN "visible" ELSE where[m]]
    /\ slot' = [s \in Slots |-> IF s \in Busy
                                THEN [slot[s] EXCEPT !.left = @ - 1] ELSE slot[s]]
    /\ \/ Busy # {}
       \/ \E m \in Msgs : where[m] = "hidden"
    /\ UNCHANGED <<attempt, pc, want, batch, closed>>

-----------------------------------------------------------------------------
Receiving ==
    \/ Poll
    \/ PollClosed
    \/ \E m \in Msgs, s \in Slots : Assign(m, s)
    \/ AssignClosed

Response ==
    \/ \E S \in SUBSET Msgs : S # {} /\ ReceiveBatch(S)
    \/ ReceiveFails

Working(s) ==
    \/ DecodeFails(s)
    \/ HandleOk(s)
    \/ HandleFails(s)
    \/ AckOk(s)
    \/ AckFails(s)
    \/ ChangeDelay(s)

ConsumerNext ==
    \/ \E m \in Msgs : Send(m) \/ DeadLetter(m)
    \/ Receiving
    \/ Response
    \/ \E s \in Slots : Working(s)
    \/ Close
    \/ Tick

ConsumerSpec == ConsumerInit /\ [][ConsumerNext]_consumerVars

(* The goroutines run, time passes, the broker buries what is due, and it  *)
(* does not withhold a deliverable message from a consumer that keeps      *)
(* asking.                                                                 *)
Fairness ==
    /\ WF_consumerVars(Receiving)
    /\ WF_consumerVars(Response)
    /\ \A m \in Msgs :
         /\ WF_consumerVars(DeadLetter(m))
         /\ SF_consumerVars(\E S \in SUBSET Msgs : m \in S /\ ReceiveBatch(S))
    /\ \A s \in Slots : WF_consumerVars(Working(s))
    /\ WF_consumerVars(Tick)

FairConsumerSpec == ConsumerSpec /\ Fairness

-----------------------------------------------------------------------------
(* Properties.                                                             *)

\* A request never asks for more messages than there are free slots when they
\* arrive: no received message waits for a slot while its time runs out
\* (maxMessageNum in Receive).
BatchFits == pc = "assign" => Cardinality(batch) <= FreeSlots

\* The broker never delivers a message again while this consumer still works
\* on it or holds it in a batch: the invisible duration covers the handler's
\* timeout and the requests after it.
HandledOnce ==
    /\ \A s \in Busy : where[slot[s].msg] \in {"hidden", "acked"}
    /\ \A s, t \in Busy : slot[s].msg = slot[t].msg => s = t
    /\ \A m \in batch : where[m] = "hidden" /\ \A s \in Busy : slot[s].msg # m

\* No message is forgotten: while the consumer is open, every sent message is
\* eventually acknowledged or, after its last attempt, dead.
EventuallyResolved ==
    \A m \in Msgs :
        where[m] # "unsent" ~> where[m] \in {"acked", "dead"} \/ closed

\* Close ends Receive and the goroutines it started.
CloseEnds == closed ~> (pc = "returned" /\ Busy = {})
=============================================================================
