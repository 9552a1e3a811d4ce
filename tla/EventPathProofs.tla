---------------------------- MODULE EventPathProofs -------------------------
(***************************************************************************)
(* The way of an event, in three parts: the consumer, HandleEvent, and the *)
(* two together.                                                           *)
(*                                                                         *)
(* Consumer, for any number of messages, goroutines and any durations with *)
(* a positive margin: a request never asks for more messages than there    *)
(* are free slots, and no message comes again while it is worked on.       *)
(* Semaphore follows the semaphore: only the loop that asked takes slots,  *)
(* so the free ones it counted stay free until it assigns them. OnTime     *)
(* says how much of the invisible duration is left in each phase: in a     *)
(* batch all of it, because a slot is free and time does not pass before   *)
(* the message has it; in the handler, and in the ack under the same       *)
(* context, the context's rest and one request; in the change of the       *)
(* delay, the request.                                                     *)
(*                                                                         *)
(* Delivery, for any events, rules, targets, numbers of deliveries and     *)
(* crashes: NoEventLost and NothingRunsUnowned. (NeverStuck speaks of      *)
(* ENABLED and stays with TLC.) At least once is not inductive alone.      *)
(* Wherever a success is recorded - of a target, of a rule, of the source  *)
(* message - the event has reached the target or a queue, or the rule was  *)
(* not loaded when the message came (Answered); that a success of a rule   *)
(* speaks for all its targets needs that none was left out: a rule with an *)
(* executor is started with the event, keeps it while it has targets, and  *)
(* starts each of them (Started). Counted: a retry message has a number to *)
(* be kept under.                                                          *)
(*                                                                         *)
(* Together: the batch and the goroutines say where Delivery has a source  *)
(* message (Agree). That a message the broker delivers is not in           *)
(* HandleEvent is then a matter of time, so it follows from OnTime, and    *)
(* every step of the consumer is one that Delivery allows.                 *)
(***************************************************************************)
EXTENDS EventPath, FiniteSetTheorems, TLAPS

(***************************************************************************)
(* The consumer.                                                           *)
(***************************************************************************)

Shapes ==
    /\ DOMAIN where = Msgs
    /\ DOMAIN hidden = Msgs
    /\ batch \in SUBSET Msgs
    /\ want \in Nat
    /\ slot \in [Slots -> [msg : Msgs \cup {NoMsg},
                           phase : {"free", "handle", "ack", "change"},
                           left : Nat]]
    /\ \A s \in Slots : slot[s].msg = NoMsg <=> slot[s].phase = "free"

\* The request fits the free slots, and so does the batch it brings.
Semaphore ==
    /\ batch # {} => pc = "assign"
    /\ pc = "receive" => want <= FreeSlots
    /\ BatchFits

\* A message is in one place: one slot, or the batch.
OneHolder ==
    /\ \A s, t \in Busy : slot[s].msg = slot[t].msg => s = t
    /\ \A s \in Busy : slot[s].msg \notin batch

\* What is left of the invisible duration where the message is.
Awaited(s) == slot[s].left + (IF slot[s].phase = "change" THEN 0 ELSE ReqTime)

OnTime ==
    /\ \A m \in batch : /\ where[m] = "hidden"
                        /\ hidden[m] \in Nat
                        /\ hidden[m] > HandleTime + ReqTime
    /\ \A s \in Busy :
         \/ slot[s].phase = "change" /\ where[slot[s].msg] = "acked"
         \/ /\ where[slot[s].msg] = "hidden"
            /\ hidden[slot[s].msg] \in Nat
            /\ hidden[slot[s].msg] > Awaited(s)

ConsumerIInv == Shapes /\ Semaphore /\ OneHolder /\ OnTime

USE ConsumerAssumption DEF ConsumerAssumption

-----------------------------------------------------------------------------
\* Counting slots: some are busy, and freeing slots never leaves fewer free.
LEMMA FreeCount ==
    ASSUME NEW B \in SUBSET Slots
    PROVE  /\ IsFiniteSet(B)
           /\ Cardinality(Slots) \in Nat /\ Cardinality(B) \in Nat
           /\ Cardinality(Slots) - Cardinality(B) \in Nat
           /\ Cardinality(Slots) - Cardinality(B) > 0 <=> B # Slots
<1>1. IsFiniteSet(B) /\ Cardinality(B) <= Cardinality(Slots)
  BY FS_Subset
<1>2. Cardinality(Slots) \in Nat /\ Cardinality(B) \in Nat
  BY <1>1, FS_CardinalityType
<1>3. Cardinality(Slots) = Cardinality(B) => B = Slots
  BY FS_Subset
<1>4. QED
  BY <1>1, <1>2, <1>3

\* Freeing slots never leaves fewer of them free.
LEMMA FreeMore ==
    ASSUME NEW B \in SUBSET Slots, NEW C \in SUBSET B
    PROVE  Cardinality(Slots) - Cardinality(C) >= Cardinality(Slots) - Cardinality(B)
<1>1. IsFiniteSet(B) /\ C \in SUBSET Slots
  BY FreeCount
<1>2. Cardinality(C) <= Cardinality(B)
  BY <1>1, FS_Subset
<1>3. QED
  BY <1>1, <1>2, FreeCount

\* While no slot is taken, what fits the free slots goes on fitting them.
LEMMA StillFits ==
    ASSUME Shapes, Semaphore, Busy' \subseteq Busy,
           UNCHANGED <<pc, want, batch>>
    PROVE  Semaphore'
<1>1. Busy \in SUBSET Slots /\ Busy' \in SUBSET Busy
  BY DEF Busy
<1>2. FreeSlots \in Nat /\ FreeSlots' \in Nat /\ FreeSlots' >= FreeSlots
  <2>1. FreeSlots' = Cardinality(Slots) - Cardinality(Busy')
    BY DEF FreeSlots
  <2>2. QED
    BY <1>1, <2>1, FreeCount, FreeMore DEF FreeSlots
<1>3. Cardinality(batch) \in Nat
  BY FS_Subset, FS_CardinalityType DEF Shapes
<1>4. QED
  BY <1>2, <1>3 DEF Semaphore, BatchFits, Shapes

\* A goroutine that returns frees its slot; whatever it told the broker was
\* about its own message.
LEMMA ReleaseStep ==
    ASSUME ConsumerIInv, NEW s \in Busy, Release(s), UNCHANGED <<pc, want, batch>>,
           DOMAIN where' = Msgs, DOMAIN hidden' = Msgs,
           \A m \in Msgs \ {slot[s].msg} : where'[m] = where[m] /\ hidden'[m] = hidden[m]
    PROVE  ConsumerIInv'
<1> USE DEF ConsumerIInv
<1>1. s \in Slots /\ slot' = [slot EXCEPT ![s] = Free]
  BY DEF Busy, Release
<1>2. Shapes'
  BY <1>1 DEF Shapes, Free
<1>3. Busy' = Busy \ {s} /\ \A t \in Busy' : slot'[t] = slot[t]
  BY <1>1 DEF Busy, Free, Shapes
<1>4. Semaphore'
  BY <1>3, StillFits
<1>5. OneHolder'
  BY <1>3 DEF OneHolder
<1>6. \A t \in Busy' : slot[t].msg \in Msgs \ {slot[s].msg}
  BY <1>3 DEF OneHolder, Busy, Shapes
<1>7. OnTime'
  <2>1. \A m \in batch : m \in Msgs \ {slot[s].msg}
    BY DEF Shapes, OneHolder
  <2>2. QED
    BY <1>3, <1>6, <2>1 DEF OnTime, Awaited
<1>8. QED
  BY <1>2, <1>4, <1>5, <1>7

Works == [msg : Msgs \cup {NoMsg}, phase : {"free", "handle", "ack", "change"},
          left : Nat]

\* What a goroutine's next phase does to the slots.
LEMMA NextPhase ==
    ASSUME Shapes, NEW s \in Busy, NEW p \in {"ack", "change"}, NEW l \in Nat,
           slot' = [slot EXCEPT ![s].phase = p, ![s].left = l]
    PROVE  /\ slot' \in [Slots -> Works]
           /\ slot'[s].msg = slot[s].msg
           /\ slot'[s].phase = p /\ slot'[s].left = l
           /\ \A t \in Slots \ {s} : slot'[t] = slot[t]
<1>1. s \in Slots /\ slot \in [Slots -> Works]
  BY DEF Busy, Shapes, Works
<1>2. slot[s] \in Works
  BY <1>1
<1>3. [slot[s] EXCEPT !.phase = p, !.left = l] \in Works
  BY <1>2 DEF Works
<1>4. slot' = [slot EXCEPT ![s] = [slot[s] EXCEPT !.phase = p, !.left = l]]
  BY <1>1
<1>5. slot' \in [Slots -> Works]
  BY <1>1, <1>3, <1>4
<1>6. slot'[s] = [slot[s] EXCEPT !.phase = p, !.left = l]
  BY <1>1, <1>4
<1>7. QED
  BY <1>1, <1>2, <1>4, <1>5, <1>6 DEF Works

\* Slots that keep their messages stay busy or free.
LEMMA SameBusy ==
    ASSUME \A t \in Slots : slot'[t].msg = slot[t].msg
    PROVE  Busy' = Busy
BY DEF Busy

\* A goroutine that goes on with its message keeps its slot; the broker may
\* have acknowledged the message if all that is left is to delay it.
LEMMA ProceedStep ==
    ASSUME ConsumerIInv, NEW s \in Busy, NEW p \in {"ack", "change"}, NEW l \in Nat,
           UNCHANGED <<pc, want, batch>>,
           slot' \in [Slots -> Works],
           slot'[s].msg = slot[s].msg,
           slot'[s].phase = p /\ slot'[s].left = l,
           \A t \in Slots \ {s} : slot'[t] = slot[t],
           DOMAIN where' = Msgs, DOMAIN hidden' = Msgs,
           \A m \in Msgs \ {slot[s].msg} : where'[m] = where[m] /\ hidden'[m] = hidden[m],
           \/ p = "change" /\ where'[slot[s].msg] = "acked"
           \/ /\ where'[slot[s].msg] = "hidden"
              /\ hidden'[slot[s].msg] \in Nat
              /\ hidden'[slot[s].msg] > l + (IF p = "change" THEN 0 ELSE ReqTime)
    PROVE  ConsumerIInv'
<1> USE DEF ConsumerIInv
<1>1. s \in Slots /\ slot[s].msg # NoMsg
  BY DEF Busy
<1>2. Shapes'
  BY <1>1 DEF Shapes, Works
<1>3. \A t \in Slots : slot'[t].msg = slot[t].msg
  OBVIOUS
<1>4. Busy' = Busy
  BY <1>3, SameBusy
<1>5. Semaphore'
  BY <1>4, StillFits
<1>6. \A t \in Busy : t \in Slots
  BY DEF Busy
<1>7. OneHolder'
  BY <1>3, <1>4, <1>6 DEF OneHolder
<1>8. \A m \in batch : m \in Msgs \ {slot[s].msg}
  BY DEF Shapes, OneHolder
<1>9. \A t \in Busy \ {s} : slot[t].msg \in Msgs \ {slot[s].msg}
  BY DEF OneHolder, Busy, Shapes
<1>10. \A t \in Busy \ {s} :
         /\ slot'[t] = slot[t]
         /\ where'[slot[t].msg] = where[slot[t].msg]
         /\ hidden'[slot[t].msg] = hidden[slot[t].msg]
  BY <1>6, <1>9
<1>11. OnTime'
  BY <1>4, <1>8, <1>10 DEF OnTime, Awaited
<1>12. QED
  BY <1>2, <1>5, <1>7, <1>11

\* A busy slot is one with a phase.
LEMMA AtWork ==
    ASSUME Shapes, NEW s \in Slots, slot[s].phase # "free"
    PROVE  s \in Busy /\ slot[s].msg \in Msgs /\ slot[s].left \in Nat
BY DEF Shapes, Busy

LEMMA HandleOkStep ==
    ASSUME ConsumerIInv, NEW s \in Slots, HandleOk(s)
    PROVE  ConsumerIInv'
<1>1. s \in Busy /\ slot[s].msg \in Msgs /\ slot[s].left \in Nat
  BY AtWork DEF ConsumerIInv, HandleOk
<1>2. slot' = [slot EXCEPT ![s].phase = "ack", ![s].left = slot[s].left]
  <2>1. slot \in [Slots -> Works]
    BY DEF ConsumerIInv, Shapes, Works
  <2>2. slot[s] \in Works
    BY <2>1
  <2>3. [slot[s] EXCEPT !.phase = "ack"] = [slot[s] EXCEPT !.phase = "ack", !.left = slot[s].left]
    BY <2>2 DEF Works
  <2>4. slot' = [slot EXCEPT ![s] = [slot[s] EXCEPT !.phase = "ack"]]
    BY DEF HandleOk
  <2>5. QED
    BY <2>3, <2>4
<1>3. /\ slot' \in [Slots -> Works]
      /\ slot'[s].msg = slot[s].msg
      /\ slot'[s].phase = "ack" /\ slot'[s].left = slot[s].left
      /\ \A t \in Slots \ {s} : slot'[t] = slot[t]
  BY <1>1, <1>2, NextPhase DEF ConsumerIInv
<1>4. /\ where[slot[s].msg] = "hidden"
      /\ hidden[slot[s].msg] \in Nat
      /\ hidden[slot[s].msg] > slot[s].left + ReqTime
  BY <1>1 DEF ConsumerIInv, OnTime, Awaited, HandleOk
<1>5. QED
  BY <1>1, <1>3, <1>4, ProceedStep DEF HandleOk, ConsumerIInv, Shapes

\* A failed event frees its slot or goes on to the change of its delay.
LEMMA FailedStep ==
    ASSUME ConsumerIInv, NEW s \in Busy, Failed(s), UNCHANGED <<pc, want, batch>>,
           DOMAIN where' = Msgs, DOMAIN hidden' = Msgs,
           \A m \in Msgs \ {slot[s].msg} : where'[m] = where[m] /\ hidden'[m] = hidden[m],
           \/ where'[slot[s].msg] = "acked"
           \/ /\ where'[slot[s].msg] = "hidden"
              /\ hidden'[slot[s].msg] \in Nat
              /\ hidden'[slot[s].msg] > ReqTime
    PROVE  ConsumerIInv'
<1>1. CASE Release(s)
  BY <1>1, ReleaseStep
<1>2. CASE slot' = [slot EXCEPT ![s].phase = "change", ![s].left = ReqTime]
  <2>1. /\ slot' \in [Slots -> Works]
        /\ slot'[s].msg = slot[s].msg
        /\ slot'[s].phase = "change" /\ slot'[s].left = ReqTime
        /\ \A t \in Slots \ {s} : slot'[t] = slot[t]
    BY <1>2, NextPhase DEF ConsumerIInv
  <2>2. \/ where'[slot[s].msg] = "acked"
        \/ /\ where'[slot[s].msg] = "hidden"
           /\ hidden'[slot[s].msg] \in Nat
           /\ hidden'[slot[s].msg] > ReqTime + 0
    OBVIOUS
  <2>3. QED
    BY <2>1, <2>2, ProceedStep
<1>3. QED
  BY <1>1, <1>2 DEF Failed

\* Each step of a goroutine.
LEMMA WorkingStep ==
    ASSUME ConsumerIInv, NEW s \in Slots, Working(s)
    PROVE  ConsumerIInv'
<1>1. s \in Busy /\ slot[s].msg \in Msgs /\ slot[s].left \in Nat
  BY AtWork DEF ConsumerIInv, Working, DecodeFails, HandleOk, HandleFails, AckOk, AckFails,
                ChangeDelay
<1>2. DOMAIN where = Msgs /\ DOMAIN hidden = Msgs
  BY DEF ConsumerIInv, Shapes
<1>3. slot[s].phase # "change" =>
        /\ where[slot[s].msg] = "hidden"
        /\ hidden[slot[s].msg] \in Nat
        /\ hidden[slot[s].msg] > ReqTime
  BY <1>1 DEF ConsumerIInv, OnTime, Awaited
<1>4. CASE DecodeFails(s)
  BY <1>1, <1>2, <1>4, ReleaseStep DEF DecodeFails
<1>5. CASE HandleOk(s)
  BY <1>5, HandleOkStep
<1>6. CASE HandleFails(s)
  <2>1. /\ Failed(s) /\ UNCHANGED <<where, hidden, pc, want, batch>>
        /\ slot[s].phase # "change"
    BY <1>6 DEF HandleFails
  <2>2. QED
    BY <1>1, <1>2, <1>3, <2>1, FailedStep
<1>7. CASE AckOk(s)
  <2>1. /\ Release(s) /\ UNCHANGED <<pc, want, batch>>
        /\ where' = [where EXCEPT ![slot[s].msg] = "acked"]
        /\ hidden' = [hidden EXCEPT ![slot[s].msg] = 0]
    BY <1>7 DEF AckOk
  <2>2. QED
    BY <1>1, <1>2, <2>1, ReleaseStep
<1>8. CASE AckFails(s)
  <2>1. Failed(s) /\ UNCHANGED <<pc, want, batch>> /\ slot[s].phase # "change"
    BY <1>8 DEF AckFails
  <2>2. CASE UNCHANGED <<where, hidden>>
    BY <1>1, <1>2, <1>3, <2>1, <2>2, FailedStep
  <2>3. CASE /\ where' = [where EXCEPT ![slot[s].msg] = "acked"]
             /\ hidden' = [hidden EXCEPT ![slot[s].msg] = 0]
    <3>1. where'[slot[s].msg] = "acked"
      BY <1>1, <1>2, <2>3
    <3>2. /\ DOMAIN where' = Msgs /\ DOMAIN hidden' = Msgs
          /\ \A m \in Msgs \ {slot[s].msg} : where'[m] = where[m] /\ hidden'[m] = hidden[m]
      BY <1>2, <2>3
    <3>3. QED
      BY <1>1, <2>1, <3>1, <3>2, FailedStep
  <2>4. QED
    BY <1>8, <2>2, <2>3 DEF AckFails
<1>9. CASE ChangeDelay(s)
  <2>1. Release(s) /\ UNCHANGED <<where, pc, want, batch>>
    BY <1>9 DEF ChangeDelay
  <2>2. \/ UNCHANGED hidden
        \/ \E d : hidden' = [hidden EXCEPT ![slot[s].msg] = d]
    BY <1>9 DEF ChangeDelay
  <2>3. /\ DOMAIN hidden' = Msgs
        /\ \A m \in Msgs \ {slot[s].msg} : hidden'[m] = hidden[m]
    BY <1>2, <2>2
  <2>4. QED
    BY <1>1, <1>2, <2>1, <2>3, ReleaseStep
<1>10. QED
  BY <1>4, <1>5, <1>6, <1>7, <1>8, <1>9 DEF Working

\* The broker's own steps concern messages nobody works on.
LEMMA BrokerStep ==
    ASSUME ConsumerIInv, NEW m \in Msgs, Send(m) \/ DeadLetter(m)
    PROVE  ConsumerIInv'
<1>1. /\ where[m] \in {"unsent", "visible"}
      /\ UNCHANGED <<hidden, pc, want, batch, slot>>
      /\ DOMAIN where' = Msgs
      /\ \A n \in Msgs \ {m} : where'[n] = where[n]
  BY DEF Send, DeadLetter, ConsumerIInv, Shapes
<1>2. Busy' = Busy
  BY <1>1 DEF Busy
<1>3. m \notin batch /\ \A s \in Busy : slot[s].msg # m
  BY <1>1 DEF ConsumerIInv, OnTime
<1>4. \A s \in Busy : slot[s].msg \in Msgs
  BY DEF ConsumerIInv, Shapes, Busy
<1>5. Shapes'
  BY <1>1 DEF ConsumerIInv, Shapes
<1>6. Semaphore'
  BY <1>1, <1>2, StillFits DEF ConsumerIInv
<1>7. OneHolder'
  BY <1>1, <1>2 DEF ConsumerIInv, OneHolder
<1>8. OnTime'
  <2>1. batch \subseteq Msgs
    BY DEF ConsumerIInv, Shapes
  <2>2. QED
    BY <1>1, <1>2, <1>3, <1>4, <2>1 DEF ConsumerIInv, OnTime, Awaited
<1>9. QED
  BY <1>5, <1>6, <1>7, <1>8 DEF ConsumerIInv

\* The steps of Receive that leave the slots and the messages alone.
LEMMA LoopStep ==
    ASSUME ConsumerIInv, UNCHANGED <<where, hidden, slot>>,
           want' \in Nat, batch' \in SUBSET batch,
           batch' # {} => pc' = "assign" /\ batch' = batch,
           pc' = "receive" => want' <= FreeSlots
    PROVE  ConsumerIInv'
<1>1. Busy' = Busy /\ FreeSlots' = FreeSlots
  BY DEF Busy, FreeSlots
<1>2. Shapes' /\ OneHolder' /\ OnTime'
  BY <1>1 DEF ConsumerIInv, Shapes, OneHolder, OnTime, Awaited
<1>3. FreeSlots \in Nat
  BY FreeCount DEF FreeSlots, Busy
<1>4. BatchFits'
  <2>1. CASE batch' = {}
    BY <1>1, <1>3, <2>1, FS_EmptySet DEF BatchFits
  <2>2. CASE batch' # {}
    BY <1>1, <2>2 DEF BatchFits, ConsumerIInv, Semaphore
  <2>3. QED
    BY <2>1, <2>2
<1>5. Semaphore'
  BY <1>1, <1>4 DEF Semaphore
<1>6. QED
  BY <1>2, <1>5 DEF ConsumerIInv

\* The poll, a failed request, and the two returns of Receive.
LEMMA IdleLoopStep ==
    ASSUME ConsumerIInv, Poll \/ PollClosed \/ ReceiveFails \/ AssignClosed
    PROVE  ConsumerIInv'
<1>1. want \in Nat /\ (batch # {} => pc = "assign")
  BY DEF ConsumerIInv, Shapes, Semaphore
<1>2. FreeSlots \in Nat
  BY FreeCount DEF FreeSlots, Busy
<1>3. CASE Poll
  BY <1>1, <1>2, <1>3, LoopStep DEF Poll
<1>4. CASE PollClosed \/ ReceiveFails
  BY <1>1, <1>4, LoopStep DEF PollClosed, ReceiveFails
<1>5. CASE AssignClosed
  BY <1>1, <1>5, LoopStep DEF AssignClosed
<1>6. QED
  BY <1>3, <1>4, <1>5

\* The messages of an answer fit the slots and come with all their time.
LEMMA ReceiveBatchStep ==
    ASSUME ConsumerIInv, NEW S \in SUBSET Msgs, ReceiveBatch(S)
    PROVE  ConsumerIInv'
<1>1. /\ UNCHANGED <<want, slot>> /\ pc = "receive" /\ pc' = "assign" /\ batch' = S
      /\ Cardinality(S) <= want
      /\ \A m \in S : where[m] = "visible"
      /\ DOMAIN where' = Msgs /\ DOMAIN hidden' = Msgs
      /\ \A m \in S : where'[m] = "hidden" /\ hidden'[m] = InvisibleFor(want)
      /\ \A m \in Msgs \ S : where'[m] = where[m] /\ hidden'[m] = hidden[m]
  BY DEF ReceiveBatch, Deliverable
<1>2. Busy' = Busy /\ FreeSlots' = FreeSlots
  BY <1>1 DEF Busy, FreeSlots
<1>3. want \in Nat /\ want <= FreeSlots
  BY <1>1 DEF ConsumerIInv, Shapes, Semaphore
<1>4. FreeSlots \in Nat /\ Cardinality(S) \in Nat
  BY FreeCount, FS_Subset, FS_CardinalityType DEF FreeSlots, Busy
<1>5. Shapes'
  BY <1>1, <1>3 DEF ConsumerIInv, Shapes
<1>6. Semaphore'
  BY <1>1, <1>2, <1>3, <1>4 DEF Semaphore, BatchFits
<1>7. \A s \in Busy : slot[s].msg \in Msgs \ S
  BY <1>1 DEF ConsumerIInv, OnTime, Shapes, Busy
<1>8. OneHolder'
  BY <1>1, <1>2, <1>7 DEF ConsumerIInv, OneHolder
<1>9. InvisibleFor(want) \in Nat /\ InvisibleFor(want) > HandleTime + ReqTime
  BY <1>3 DEF InvisibleFor
<1>10. OnTime'
  BY <1>1, <1>2, <1>7, <1>9 DEF ConsumerIInv, OnTime, Awaited
<1>11. QED
  BY <1>5, <1>6, <1>8, <1>10 DEF ConsumerIInv

\* A message leaves the batch for a slot that was free.
LEMMA AssignStep ==
    ASSUME ConsumerIInv, NEW m \in Msgs, NEW s \in Slots, Assign(m, s)
    PROVE  ConsumerIInv'
<1>1. /\ UNCHANGED <<where, hidden, want>> /\ pc = "assign"
      /\ m \in batch /\ s \notin Busy /\ batch' = batch \ {m}
      /\ pc' = IF batch = {m} THEN "poll" ELSE "assign"
  BY DEF Assign
<1>2. /\ slot' \in [Slots -> Works]
      /\ slot'[s] = [msg |-> m, phase |-> "handle", left |-> HandleTime]
      /\ \A t \in Slots \ {s} : slot'[t] = slot[t]
  BY DEF Assign, ConsumerIInv, Shapes, Works
<1>3. Shapes'
  BY <1>1, <1>2 DEF ConsumerIInv, Shapes, Works
<1>4. Busy' = Busy \cup {s} /\ \A t \in Busy : t \in Slots \ {s}
  BY <1>1, <1>2 DEF Busy
<1>5. Semaphore'
  <2>1. Busy \in SUBSET Slots /\ Busy' \in SUBSET Slots
    BY <1>4 DEF Busy
  <2>2. Cardinality(Busy') = Cardinality(Busy) + 1 /\ Cardinality(Busy) \in Nat
    BY <1>1, <1>4, <2>1, FreeCount, FS_AddElement
  <2>3. Cardinality(batch') = Cardinality(batch) - 1 /\ Cardinality(batch) \in Nat
    <3>1. IsFiniteSet(batch)
      BY FS_Subset DEF ConsumerIInv, Shapes
    <3>2. QED
      BY <1>1, <3>1, FS_RemoveElement, FS_CardinalityType
  <2>4. Cardinality(batch) <= Cardinality(Slots) - Cardinality(Busy)
    BY <1>1 DEF ConsumerIInv, Semaphore, BatchFits, FreeSlots
  <2>5. FreeSlots' = Cardinality(Slots) - Cardinality(Busy') /\ Cardinality(Slots) \in Nat
    BY FS_CardinalityType DEF FreeSlots
  <2>6. Cardinality(batch') <= FreeSlots'
    BY <2>2, <2>3, <2>4, <2>5
  <2>7. QED
    BY <1>1, <2>6 DEF Semaphore, BatchFits
<1>6. \A t \in Busy : slot[t].msg # m
  BY <1>1 DEF ConsumerIInv, OneHolder
<1>7. OneHolder'
  BY <1>1, <1>2, <1>4, <1>6 DEF ConsumerIInv, OneHolder
<1>8. OnTime'
  BY <1>1, <1>2, <1>4 DEF ConsumerIInv, OnTime, Awaited
<1>9. QED
  BY <1>3, <1>5, <1>7, <1>8 DEF ConsumerIInv

\* Time passes only when no message waits for a slot, and for every message
\* as fast as for the goroutine that works on it.
LEMMA TickStep ==
    ASSUME ConsumerIInv, Tick
    PROVE  ConsumerIInv'
<1>1. /\ UNCHANGED <<pc, want, batch>>
      /\ \A s \in Busy : slot[s].left > 0
      /\ ~(pc = "assign" /\ FreeSlots > 0)
      /\ DOMAIN where' = Msgs /\ DOMAIN hidden' = Msgs
      /\ \A m \in Msgs : hidden'[m] = IF hidden[m] > 0 THEN hidden[m] - 1 ELSE 0
      /\ \A m \in Msgs : where'[m] = IF where[m] = "hidden" /\ hidden[m] <= 1
                                     THEN "visible" ELSE where[m]
  BY DEF Tick
<1>2. batch = {}
  <2>1. SUFFICES ASSUME batch # {} PROVE FALSE
    OBVIOUS
  <2>2. pc = "assign" /\ Cardinality(batch) <= FreeSlots
    BY <2>1 DEF ConsumerIInv, Semaphore, BatchFits
  <2>3. Cardinality(batch) \in Nat /\ Cardinality(batch) # 0
    BY <2>1, FS_Subset, FS_EmptySet, FS_CardinalityType DEF ConsumerIInv, Shapes
  <2>4. FreeSlots \in Nat
    BY FreeCount DEF FreeSlots, Busy
  <2>5. QED
    BY <1>1, <2>2, <2>3, <2>4
<1>3. /\ slot' \in [Slots -> Works]
      /\ \A s \in Slots : slot'[s].msg = slot[s].msg /\ slot'[s].phase = slot[s].phase
      /\ \A s \in Busy : slot'[s].left = slot[s].left - 1
  <2>1. slot \in [Slots -> Works]
    BY DEF ConsumerIInv, Shapes, Works
  <2>2. slot' = [s \in Slots |-> IF s \in Busy
                                 THEN [slot[s] EXCEPT !.left = @ - 1] ELSE slot[s]]
    BY DEF Tick
  <2>3. \A s \in Busy : s \in Slots
    BY DEF Busy
  <2>4. \A s \in Busy : /\ [slot[s] EXCEPT !.left = @ - 1] \in Works
                        /\ [slot[s] EXCEPT !.left = @ - 1].msg = slot[s].msg
                        /\ [slot[s] EXCEPT !.left = @ - 1].phase = slot[s].phase
                        /\ [slot[s] EXCEPT !.left = @ - 1].left = slot[s].left - 1
    BY <1>1, <2>1, <2>3 DEF Works
  <2>5. QED
    BY <2>1, <2>2, <2>3, <2>4
<1>4. Busy' = Busy
  BY <1>3, SameBusy
<1>5. Shapes'
  BY <1>1, <1>3 DEF ConsumerIInv, Shapes, Works
<1>6. Semaphore'
  BY <1>1, <1>4, StillFits DEF ConsumerIInv
<1>7. OneHolder'
  BY <1>1, <1>3, <1>4 DEF ConsumerIInv, OneHolder, Busy
<1>8. OnTime'
  <2>1. \A s \in Busy : slot[s].msg \in Msgs /\ slot[s].left \in Nat /\ s \in Slots
    BY DEF ConsumerIInv, Shapes, Busy
  <2>2. ASSUME NEW s \in Busy
        PROVE  \/ slot'[s].phase = "change" /\ where'[slot'[s].msg] = "acked"
               \/ /\ where'[slot'[s].msg] = "hidden"
                  /\ hidden'[slot'[s].msg] \in Nat
                  /\ hidden'[slot'[s].msg] > Awaited(s)'
    <3>1. CASE slot[s].phase = "change" /\ where[slot[s].msg] = "acked"
      BY <1>1, <1>3, <2>1, <3>1
    <3>2. CASE /\ where[slot[s].msg] = "hidden"
               /\ hidden[slot[s].msg] \in Nat
               /\ hidden[slot[s].msg] > Awaited(s)
      BY <1>1, <1>3, <2>1, <3>2 DEF Awaited
    <3>3. QED
      BY <3>1, <3>2 DEF ConsumerIInv, OnTime
  <2>3. QED
    BY <1>1, <1>2, <1>4, <2>2 DEF OnTime
<1>9. QED
  BY <1>5, <1>6, <1>7, <1>8 DEF ConsumerIInv

-----------------------------------------------------------------------------
LEMMA ConsumerIInvInit == ConsumerInit => ConsumerIInv
<1> SUFFICES ASSUME ConsumerInit PROVE ConsumerIInv
  OBVIOUS
<1>1. Busy = {}
  BY DEF ConsumerInit, Busy, Free
<1>2. Shapes
  BY DEF ConsumerInit, Shapes, Free
<1>3. Semaphore /\ OneHolder /\ OnTime
  BY <1>1 DEF ConsumerInit, Semaphore, BatchFits, OneHolder, OnTime
<1>4. QED
  BY <1>2, <1>3 DEF ConsumerIInv

LEMMA ConsumerIInvStep == ConsumerIInv /\ [ConsumerNext]_consumerVars => ConsumerIInv'
<1> SUFFICES ASSUME ConsumerIInv, [ConsumerNext]_consumerVars PROVE ConsumerIInv'
  OBVIOUS
<1>1. CASE \E m \in Msgs : Send(m) \/ DeadLetter(m)
  BY <1>1, BrokerStep
<1>2. CASE Receiving
  BY <1>2, IdleLoopStep, AssignStep DEF Receiving
<1>3. CASE Response
  BY <1>3, IdleLoopStep, ReceiveBatchStep DEF Response
<1>4. CASE \E s \in Slots : Working(s)
  BY <1>4, WorkingStep
<1>5. CASE Close
  BY <1>5, LoopStep DEF Close, ConsumerIInv, Shapes, Semaphore
<1>6. CASE Tick
  BY <1>6, TickStep
<1>7. CASE UNCHANGED consumerVars
  BY <1>7, LoopStep DEF consumerVars, ConsumerIInv, Shapes, Semaphore
<1>8. QED
  BY <1>1, <1>2, <1>3, <1>4, <1>5, <1>6, <1>7 DEF ConsumerNext

\* The strengthening holds in every reachable state.
THEOREM ConsumerInvariant == ConsumerSpec => []ConsumerIInv
BY ConsumerIInvInit, ConsumerIInvStep, PTL DEF ConsumerSpec

\* A request never asks for more than fits: Receive's maxMessageNum.
THEOREM RequestsFit == ConsumerSpec => []BatchFits
<1>1. ConsumerIInv => BatchFits
  BY DEF ConsumerIInv, Semaphore
<1>2. QED
  BY <1>1, ConsumerInvariant, PTL

LEMMA OnceHandled == ConsumerIInv => HandledOnce
<1>1. ASSUME ConsumerIInv PROVE \A s \in Busy : where[slot[s].msg] \in {"hidden", "acked"}
  BY <1>1 DEF ConsumerIInv, OnTime
<1>2. ASSUME ConsumerIInv
      PROVE  /\ \A s, t \in Busy : slot[s].msg = slot[t].msg => s = t
             /\ \A m \in batch : where[m] = "hidden" /\ \A s \in Busy : slot[s].msg # m
  BY <1>2 DEF ConsumerIInv, OnTime, OneHolder
<1>3. QED
  BY <1>1, <1>2 DEF HandledOnce

\* The invisible duration of Receive covers whatever messageHandle does, for
\* every timeout, every number of goroutines and every positive margin.
THEOREM NeverHandledTwice == ConsumerSpec => []HandledOnce
  BY OnceHandled, ConsumerInvariant, PTL

-----------------------------------------------------------------------------
(* Types, step by step under the invariant.                                *)

\* A power of two is a number: it counts the subsets of an interval.
LEMMA PowerOfTwo == ASSUME NEW n \in Nat PROVE 2 ^ n \in Nat
<1>1. IsFiniteSet(1..n) /\ Cardinality(1..n) = n
  BY FS_Interval
<1>2. IsFiniteSet(SUBSET (1..n)) /\ Cardinality(SUBSET (1..n)) = 2 ^ n
  BY <1>1, FS_SUBSET
<1>3. QED
  BY <1>2, FS_CardinalityType

LEMMA DelayType ==
    ASSUME NEW m \in Msgs, NEW a \in Nat \ {0}
    PROVE  Delays(m, a) \subseteq Nat
<1>1. (IF a < DecaySteps THEN a ELSE DecaySteps) - 1 \in Nat
  OBVIOUS
<1>2. QED
  BY <1>1, PowerOfTwo DEF Delays

MessagePlaces == {"unsent", "visible", "hidden", "acked", "dead"}

\* The broker's part of ConsumerTypeOK, and that a hidden message was delivered.
BrokerOK ==
    /\ where \in [Msgs -> MessagePlaces]
    /\ hidden \in [Msgs -> Nat]
    /\ attempt \in [Msgs -> 0..MaxAttempts]
    /\ \A m \in Msgs : where[m] = "hidden" => attempt[m] > 0

LoopOK ==
    /\ pc \in {"poll", "receive", "assign", "returned"}
    /\ want \in 0..Cardinality(Slots)
    /\ closed \in BOOLEAN

\* A goroutine acknowledges its message or has it hidden for another time.
LEMMA BrokerWorks ==
    ASSUME ConsumerIInv, BrokerOK, NEW s \in Slots, Working(s)
    PROVE  BrokerOK'
<1>1. slot[s].msg \in Msgs
  BY AtWork DEF ConsumerIInv, Working, DecodeFails, HandleOk, HandleFails, AckOk, AckFails, ChangeDelay
<1>2. /\ UNCHANGED attempt
      /\ \/ UNCHANGED <<where, hidden>>
         \/ /\ where' = [where EXCEPT ![slot[s].msg] = "acked"]
            /\ hidden' = [hidden EXCEPT ![slot[s].msg] = 0]
         \/ /\ where[slot[s].msg] = "hidden"
            /\ UNCHANGED where
            /\ \E d \in Delays(slot[s].msg, attempt[slot[s].msg]) :
                  hidden' = [hidden EXCEPT ![slot[s].msg] = d]
  BY DEF Working, DecodeFails, HandleOk, HandleFails, AckOk, AckFails, ChangeDelay
<1>3. CASE UNCHANGED <<where, hidden>>
  BY <1>2, <1>3 DEF BrokerOK
<1>4. CASE /\ where' = [where EXCEPT ![slot[s].msg] = "acked"]
           /\ hidden' = [hidden EXCEPT ![slot[s].msg] = 0]
  BY <1>1, <1>2, <1>4 DEF BrokerOK, MessagePlaces
<1>5. ASSUME where[slot[s].msg] = "hidden", UNCHANGED where,
             NEW d \in Delays(slot[s].msg, attempt[slot[s].msg]),
             hidden' = [hidden EXCEPT ![slot[s].msg] = d]
      PROVE  BrokerOK'
  <2>1. attempt[slot[s].msg] \in Nat \ {0}
    BY <1>1, <1>5 DEF BrokerOK
  <2>2. d \in Nat
    BY <1>1, <1>5, <2>1, DelayType
  <2>3. QED
    BY <1>1, <1>2, <1>5, <2>2 DEF BrokerOK
<1>6. QED
  BY <1>2, <1>3, <1>4, <1>5

LEMMA BrokerTypes ==
    ASSUME ConsumerIInv, BrokerOK, [ConsumerNext]_consumerVars
    PROVE  BrokerOK'
<1>1. ASSUME NEW m \in Msgs, Send(m) \/ DeadLetter(m) PROVE BrokerOK'
  BY <1>1 DEF Send, DeadLetter, BrokerOK, MessagePlaces
<1>2. CASE Receiving \/ ReceiveFails \/ Close \/ UNCHANGED consumerVars
  <2>1. UNCHANGED <<where, hidden, attempt>>
    BY <1>2 DEF Receiving, Poll, PollClosed, Assign, AssignClosed, ReceiveFails, Close, consumerVars
  <2>2. QED
    BY <2>1 DEF BrokerOK
<1>3. ASSUME NEW S \in SUBSET Msgs, ReceiveBatch(S) PROVE BrokerOK'
  <2>1. /\ \A m \in S : attempt[m] < MaxAttempts
        /\ where' = [m \in Msgs |-> IF m \in S THEN "hidden" ELSE where[m]]
        /\ hidden' = [m \in Msgs |-> IF m \in S THEN InvisibleFor(want) ELSE hidden[m]]
        /\ attempt' = [m \in Msgs |-> IF m \in S THEN attempt[m] + 1 ELSE attempt[m]]
    BY <1>3 DEF ReceiveBatch, Deliverable
  <2>2. InvisibleFor(want) \in Nat
    BY DEF InvisibleFor, ConsumerIInv, Shapes
  <2>3. \A m \in Msgs : attempt'[m] \in 0..MaxAttempts /\ (where'[m] = "hidden" => attempt'[m] > 0)
    BY <2>1 DEF BrokerOK
  <2>4. QED
    BY <2>1, <2>2, <2>3 DEF BrokerOK, MessagePlaces
<1>4. CASE Tick
  BY <1>4 DEF Tick, BrokerOK, MessagePlaces
<1>5. QED
  BY <1>1, <1>2, <1>3, <1>4, BrokerWorks DEF ConsumerNext, Response

LEMMA LoopTypes ==
    ASSUME ConsumerIInv, LoopOK, [ConsumerNext]_consumerVars
    PROVE  LoopOK'
<1>1. Cardinality(Slots) \in Nat /\ FreeSlots \in Nat /\ FreeSlots <= Cardinality(Slots)
  BY FreeCount DEF FreeSlots, Busy
<1>2. CASE Poll
  <2>1. want' \in 0..Cardinality(Slots)
    BY <1>1, <1>2 DEF Poll
  <2>2. QED
    BY <1>2, <2>1 DEF Poll, LoopOK
<1>3. ASSUME NEW m \in Msgs, NEW s \in Slots, Assign(m, s) PROVE LoopOK'
  BY <1>3 DEF Assign, LoopOK
<1>4. CASE PollClosed \/ AssignClosed
  BY <1>4 DEF PollClosed, AssignClosed, LoopOK
<1>5. CASE Response
  BY <1>5 DEF Response, ReceiveBatch, ReceiveFails, LoopOK
<1>6. CASE Close
  BY <1>6 DEF Close, LoopOK
<1>7. CASE UNCHANGED <<pc, want, closed>>
  BY <1>7 DEF LoopOK
<1>8. QED
  BY <1>2, <1>3, <1>4, <1>5, <1>6, <1>7
  DEF ConsumerNext, Receiving, Send, DeadLetter, Working, DecodeFails, HandleOk, HandleFails, AckOk,
      AckFails, ChangeDelay, Tick, consumerVars

\* Every reachable state is well typed: attempts stay within the broker's
\* limit, and a request is for as many messages as there are slots at most
\* (Receive, messageHandle).
THEOREM ConsumerTypeCorrect == ConsumerSpec => []ConsumerTypeOK
<1>1. ConsumerInit => BrokerOK /\ LoopOK
  <2>1. Cardinality(Slots) \in Nat
    BY FS_CardinalityType
  <2>2. ConsumerInit => BrokerOK
    BY DEF ConsumerInit, BrokerOK, MessagePlaces
  <2>3. ConsumerInit => closed \in BOOLEAN
    BY DEF ConsumerInit
  <2>4. QED
    BY <2>1, <2>2, <2>3 DEF ConsumerInit, LoopOK
<1>2. ConsumerIInv /\ BrokerOK /\ LoopOK => ConsumerTypeOK
  BY DEF ConsumerIInv, Shapes, BrokerOK, LoopOK, MessagePlaces, ConsumerTypeOK
<1>3. QED
  BY <1>1, <1>2, ConsumerIInvInit, ConsumerIInvStep, BrokerTypes, LoopTypes, PTL DEF ConsumerSpec

HIDE ConsumerAssumption DEF ConsumerAssumption

(***************************************************************************)
(* HandleEvent.                                                            *)
(***************************************************************************)

\* The event has reached the target, or a queue that will bring it there.
Delivered(e, t) ==
    \/ <<e, t>> \in accepted
    \/ <<e, t>> \in masked
    \/ \E a \in 1..MaxSource : retry[<<e, t, a>>] \in {"ready", "handling", "dead"}

Counted ==
    \A e \in Events : source[e] \in {"held", "handling"} => sourceTry[e] \in 1..MaxSource

Started ==
    \A e \in Events, t \in present :
        /\ source[e] = "handling" => rule[<<e, ruleOf[t]>>] # "off" \/ Missed(e, t)
        /\ rule[<<e, ruleOf[t]>>] = "match" => ruleOf[t] \in loaded
        /\ rule[<<e, ruleOf[t]>>] = "dispatch" => target[<<e, t>>] # "off"

Answered ==
    \A e \in Events, t \in present :
        /\ target[<<e, t>>] = "ok" \/ rule[<<e, ruleOf[t]>>] = "ok" => Delivered(e, t)
        /\ source[e] = "acked" => Delivered(e, t) \/ Missed(e, t)

\* NothingRunsUnowned, with the results of an event spelt out.
Owned ==
    \A e \in Events : source[e] # "handling" =>
        /\ \A r \in Rules : rule[<<e, r>>] \in {"off", "ok", "error"}
        /\ \A t \in Targets : target[<<e, t>>] \notin {"dispatch", "send"}

DeliveryIInv == DeliveryTypeOK /\ Owned /\ Counted /\ Started /\ Answered

-----------------------------------------------------------------------------
USE DeliveryAssumption DEF DeliveryAssumption

RuleSteps == {"off", "match", "transform", "dispatch", "ok", "error"}
TargetSteps == {"off", "dispatch", "send", "ok", "error"}

\* The parts of the types that the steps of an event change.
LEMMA RuleOf == ASSUME DeliveryTypeOK, NEW t \in Targets PROVE ruleOf[t] \in Rules
  BY DEF DeliveryTypeOK

LEMMA RuleSet ==
    ASSUME DeliveryTypeOK, NEW e \in Events, NEW r \in Rules, NEW s \in RuleSteps,
           RuleStep(e, r, s)
    PROVE  /\ rule' \in [Events \X Rules -> RuleSteps]
           /\ rule'[<<e, r>>] = s
           /\ \A f \in Events, q \in Rules : f # e \/ q # r => rule'[<<f, q>>] = rule[<<f, q>>]
  BY DEF DeliveryTypeOK, RuleStep, RuleSteps

LEMMA TargetSet ==
    ASSUME DeliveryTypeOK, NEW e \in Events, NEW t \in Targets, NEW s \in TargetSteps,
           TargetStep(e, t, s)
    PROVE  /\ target' \in [Events \X Targets -> TargetSteps]
           /\ target'[<<e, t>>] = s
           /\ \A f \in Events, u \in Targets : f # e \/ u # t => target'[<<f, u>>] = target[<<f, u>>]
  BY DEF DeliveryTypeOK, TargetStep, TargetSteps

LEMMA RetrySet ==
    ASSUME DeliveryTypeOK, NEW c \in Copies, NEW s \in RetryPlaces, RetryStep(c, s)
    PROVE  /\ retry' \in [Copies -> RetryPlaces]
           /\ retry'[c] = s
           /\ \A d \in Copies \ {c} : retry'[d] = retry[d]
  BY DEF DeliveryTypeOK, RetryStep

LEMMA SourceSet ==
    ASSUME DeliveryTypeOK, NEW S \in SUBSET Events, NEW s \in Places, SourceTo(S, s)
    PROVE  /\ source' \in [Events -> Places]
           /\ \A e \in S : source'[e] = s
           /\ \A e \in Events \ S : source'[e] = source[e]
  BY DEF DeliveryTypeOK, SourceTo

\* A copy, taken apart.
LEMMA CopyOf ==
    ASSUME NEW c \in Copies
    PROVE  \E e \in Events, t \in Targets, a \in 1..MaxSource : c = <<e, t, a>>
  BY DEF Copies

-----------------------------------------------------------------------------
(* What was delivered stays delivered.                                     *)

Kept == \A e \in Events, t \in Targets : Delivered(e, t) => Delivered(e, t)'

\* A step that leaves the retry messages alone.
LEMMA KeptQuiet ==
    ASSUME UNCHANGED retry, accepted \subseteq accepted', masked \subseteq masked'
    PROVE  Kept
  BY DEF Kept, Delivered

\* A step that moves one retry message.
LEMMA KeptMove ==
    ASSUME DeliveryTypeOK, NEW e \in Events, NEW t \in Targets, NEW a \in 1..MaxSource,
           NEW s \in RetryPlaces \ {"none"}, RetryStep(<<e, t, a>>, s),
           accepted \subseteq accepted', masked \subseteq masked',
           s = "acked" => <<e, t>> \in accepted' \/ <<e, t>> \in masked'
    PROVE  Kept
<1>1. <<e, t, a>> \in Copies
  BY DEF Copies
<1>2. /\ retry'[<<e, t, a>>] = s
      /\ \A d \in Copies \ {<<e, t, a>>} : retry'[d] = retry[d]
  BY <1>1, RetrySet
<1>3. SUFFICES ASSUME NEW f \in Events, NEW u \in Targets, Delivered(f, u)
               PROVE  Delivered(f, u)'
  BY DEF Kept
<1>4. CASE <<f, u>> \in accepted \/ <<f, u>> \in masked
  BY <1>4 DEF Delivered
<1>5. ASSUME NEW b \in 1..MaxSource, retry[<<f, u, b>>] \in {"ready", "handling", "dead"}
      PROVE  Delivered(f, u)'
  <2>1. <<f, u, b>> \in Copies
    BY DEF Copies
  <2>2. CASE <<f, u, b>> # <<e, t, a>>
    <3>1. retry'[<<f, u, b>>] = retry[<<f, u, b>>]
      BY <1>2, <2>1, <2>2
    <3>2. QED
      BY <1>5, <3>1 DEF Delivered
  <2>3. CASE <<f, u, b>> = <<e, t, a>>
    <3>1. f = e /\ u = t /\ b = a
      BY <2>3
    <3>2. s = "acked" \/ s \in {"ready", "handling", "dead"}
      BY DEF RetryPlaces
    <3>3. retry'[<<f, u, b>>] = s
      BY <1>2, <2>3
    <3>4. QED
      BY <3>1, <3>2, <3>3 DEF Delivered
  <2>4. QED
    BY <2>2, <2>3
<1>6. QED
  BY <1>3, <1>4, <1>5 DEF Delivered

\* A step that sends a retry message to its queue.
LEMMA SentKept ==
    ASSUME DeliveryTypeOK, Counted,
           NEW e \in Events, NEW t \in Targets, source[e] = "handling",
           retry' = [retry EXCEPT ![<<e, t, sourceTry[e]>>] = "ready"],
           UNCHANGED <<accepted, masked>>
    PROVE  Kept /\ Delivered(e, t)' /\ retry' \in [Copies -> RetryPlaces]
<1>1. PICK a \in 1..MaxSource : a = sourceTry[e]
  BY DEF Counted
<1>2. RetryStep(<<e, t, a>>, "ready") /\ <<e, t, a>> \in Copies
  BY <1>1 DEF RetryStep, Copies
<1>3. Kept
  BY <1>2, KeptMove DEF RetryPlaces
<1>4. retry'[<<e, t, a>>] = "ready" /\ retry' \in [Copies -> RetryPlaces]
  BY <1>2, RetrySet DEF RetryPlaces
<1>5. QED
  BY <1>3, <1>4 DEF Delivered

-----------------------------------------------------------------------------
(* The steps of an event.                                                  *)

\* A goroutine of a rule goes on or ends; it joins its targets before.
LEMMA RuleMoves ==
    ASSUME DeliveryIInv, NEW e \in Events, NEW r \in Rules, NEW s \in {"transform", "ok", "error"},
           RuleStep(e, r, s),
           rule[<<e, r>>] \in {"match", "transform", "dispatch"},
           \A t \in Targets : ruleOf[t] = r => target[<<e, t>>] \notin {"dispatch", "send"},
           s = "ok" => \A t \in present : ruleOf[t] = r => Delivered(e, t),
           UNCHANGED <<source, sourceTry, target, retryVars, configVars, historyVars, crashes>>
    PROVE  DeliveryIInv'
<1>0. DeliveryTypeOK /\ Owned /\ Counted /\ Started /\ Answered
  BY DEF DeliveryIInv
<1>1. /\ rule' \in [Events \X Rules -> RuleSteps]
      /\ rule'[<<e, r>>] = s
      /\ \A f \in Events, q \in Rules : f # e \/ q # r => rule'[<<f, q>>] = rule[<<f, q>>]
  BY <1>0, RuleSet, ZenonT(40) DEF RuleSteps
<1>2. UNCHANGED <<source, sourceTry, target, retry, retryTry, ruleOf, present, loaded,
                  limit, accepted, masked, missed, crashes>>
  BY DEF retryVars, configVars, historyVars
<1>3. source[e] = "handling"
  BY <1>0 DEF Owned
<1>4. DeliveryTypeOK'
  <2>1. ASSUME NEW f \in Events, NEW t \in Targets, target[<<f, t>>] \in {"dispatch", "send"}
        PROVE  rule'[<<f, ruleOf[t]>>] = "dispatch"
    <3>1. rule[<<f, ruleOf[t]>>] = "dispatch" /\ ruleOf[t] \in Rules
      BY <1>0, <2>1, RuleOf DEF DeliveryTypeOK
    <3>2. f # e \/ ruleOf[t] # r
      BY <2>1
    <3>3. QED
      BY <1>1, <3>1, <3>2
  <2>2. QED
    BY <1>0, <1>1, <1>2, <2>1 DEF DeliveryTypeOK, RuleSteps
<1>5. Owned'
  BY <1>0, <1>1, <1>2, <1>3 DEF Owned
<1>6. Counted'
  BY <1>0, <1>2 DEF Counted
<1>7. ASSUME NEW f \in Events, NEW t \in present
      PROVE  /\ source'[f] = "handling" => rule'[<<f, ruleOf'[t]>>] # "off" \/ Missed(f, t)
             /\ rule'[<<f, ruleOf'[t]>>] = "match" => ruleOf[t] \in loaded
             /\ rule'[<<f, ruleOf'[t]>>] = "dispatch" => target'[<<f, t>>] # "off"
             /\ target'[<<f, t>>] = "ok" \/ rule'[<<f, ruleOf'[t]>>] = "ok" => Delivered(f, t)
             /\ source'[f] = "acked" => Delivered(f, t) \/ Missed(f, t)
  <2>1. ruleOf[t] \in Rules /\ t \in Targets
    BY <1>0, RuleOf DEF DeliveryTypeOK
  <2>2. CASE f = e /\ ruleOf[t] = r
    BY <1>0, <1>1, <1>2, <1>3, <2>2 DEF Answered
  <2>3. CASE f # e \/ ruleOf[t] # r
    <3>1. rule'[<<f, ruleOf[t]>>] = rule[<<f, ruleOf[t]>>]
      BY <1>1, <2>1, <2>3
    <3>2. QED
      BY <1>0, <1>2, <3>1 DEF Started, Answered
  <2>4. QED
    BY <2>2, <2>3
<1>8. Started'
  BY <1>2, <1>7 DEF Started, Missed
<1>9. Answered'
  BY <1>2, <1>7 DEF Answered, Delivered, Missed
<1>10. QED
  BY <1>4, <1>5, <1>6, <1>8, <1>9 DEF DeliveryIInv

\* A goroutine of a target goes on or ends.
LEMMA TargetMoves ==
    ASSUME DeliveryIInv, NEW e \in Events, NEW t \in Targets, NEW s \in {"send", "ok", "error"},
           TargetStep(e, t, s),
           target[<<e, t>>] \in {"dispatch", "send"},
           Kept,
           s = "ok" => Delivered(e, t)' \/ t \notin present,
           retry' \in [Copies -> RetryPlaces],
           accepted' \in SUBSET (Events \X Targets),
           masked' \in SUBSET (Events \X Targets),
           UNCHANGED <<source, sourceTry, rule, retryTry, configVars, missed, crashes>>
    PROVE  DeliveryIInv'
<1>0. DeliveryTypeOK /\ Owned /\ Counted /\ Started /\ Answered
  BY DEF DeliveryIInv
<1>1. /\ target' \in [Events \X Targets -> TargetSteps]
      /\ target'[<<e, t>>] = s
      /\ \A f \in Events, u \in Targets : f # e \/ u # t => target'[<<f, u>>] = target[<<f, u>>]
  <2>1. s \in TargetSteps
    BY DEF TargetSteps
  <2>2. QED
    BY <1>0, <2>1, TargetSet
<1>2. UNCHANGED <<source, sourceTry, rule, retryTry, ruleOf, present, loaded, limit,
                  missed, crashes>>
  BY DEF configVars
<1>3. source[e] = "handling" /\ rule[<<e, ruleOf[t]>>] = "dispatch"
  BY <1>0 DEF Owned, DeliveryTypeOK
<1>4. DeliveryTypeOK'
  <2>1. ASSUME NEW f \in Events, NEW u \in Targets, target'[<<f, u>>] \in {"dispatch", "send"}
        PROVE  rule[<<f, ruleOf[u]>>] = "dispatch"
    <3>1. CASE f = e /\ u = t
      BY <1>3, <3>1
    <3>2. CASE f # e \/ u # t
      BY <1>0, <1>1, <2>1, <3>2 DEF DeliveryTypeOK
    <3>3. QED
      BY <3>1, <3>2
  <2>2. QED
    BY <1>0, <1>1, <1>2, <2>1 DEF DeliveryTypeOK, TargetSteps
<1>5. Owned'
  BY <1>0, <1>1, <1>2, <1>3 DEF Owned
<1>6. Counted'
  BY <1>0, <1>2 DEF Counted
<1>7. ASSUME NEW f \in Events, NEW u \in present
      PROVE  /\ rule[<<f, ruleOf[u]>>] = "dispatch" => target'[<<f, u>>] # "off"
             /\ target'[<<f, u>>] = "ok" \/ rule[<<f, ruleOf[u]>>] = "ok" => Delivered(f, u)'
             /\ source[f] = "acked" => Delivered(f, u)' \/ Missed(f, u)
  <2>0. u \in Targets
    BY <1>0 DEF DeliveryTypeOK
  <2>1. CASE f = e /\ u = t
    BY <1>1, <1>3, <2>1
  <2>2. CASE f # e \/ u # t
    <3>1. target'[<<f, u>>] = target[<<f, u>>]
      BY <1>1, <2>0, <2>2
    <3>2. QED
      BY <1>0, <2>0, <3>1 DEF Started, Answered, Kept
  <2>3. QED
    BY <2>1, <2>2
<1>8. Started'
  BY <1>0, <1>2, <1>7 DEF Started, Missed
<1>9. Answered'
  BY <1>2, <1>7 DEF Answered, Missed
<1>10. QED
  BY <1>4, <1>5, <1>6, <1>8, <1>9 DEF DeliveryIInv

\* Source messages that are not in HandleEvent are delivered, answered or dead,
\* or come again.
LEMMA SourceMoves ==
    ASSUME DeliveryIInv, NEW S \in SUBSET Events,
           NEW s \in {"ready", "held", "acked", "dead"}, SourceTo(S, s),
           \A e \in S, r \in Rules : rule[<<e, r>>] \in {"off", "ok", "error"},
           s = "acked" => \A e \in S, t \in present : Delivered(e, t) \/ Missed(e, t),
           s = "held" => \A e \in S : sourceTry'[e] \in 1..MaxSource,
           sourceTry' \in [Events -> 0..MaxSource],
           \A e \in Events \ S : sourceTry'[e] = sourceTry[e],
           UNCHANGED <<rule, target, retryVars, configVars, historyVars, crashes>>
    PROVE  DeliveryIInv'
<1>0. DeliveryTypeOK /\ Owned /\ Counted /\ Started /\ Answered
  BY DEF DeliveryIInv
<1>1. /\ source' \in [Events -> Places]
      /\ \A e \in S : source'[e] = s
      /\ \A e \in Events \ S : source'[e] = source[e]
  BY <1>0, SourceSet DEF Places
<1>2. UNCHANGED <<rule, target, retry, retryTry, ruleOf, present, loaded, limit, accepted,
                  masked, missed, crashes>>
  BY DEF retryVars, configVars, historyVars
<1>3. DeliveryTypeOK'
  BY <1>0, <1>1, <1>2 DEF DeliveryTypeOK
<1>4. \A e \in S, t \in Targets : target[<<e, t>>] \notin {"dispatch", "send"}
  BY <1>0, RuleOf DEF DeliveryTypeOK
<1>5. Owned'
  BY <1>0, <1>1, <1>2, <1>4 DEF Owned
<1>6. Counted'
  BY <1>0, <1>1 DEF Counted
<1>7. Started'
  <2>1. ASSUME NEW f \in Events, NEW t \in present'
        PROVE  /\ source'[f] = "handling" =>
                    rule'[<<f, ruleOf'[t]>>] # "off" \/ Missed(f, t)'
               /\ rule'[<<f, ruleOf'[t]>>] = "match" => ruleOf'[t] \in loaded'
               /\ rule'[<<f, ruleOf'[t]>>] = "dispatch" => target'[<<f, t>>] # "off"
    <3>1. source'[f] = "handling" => source[f] = "handling"
      BY <1>1
    <3>2. QED
      BY <1>0, <1>2, <3>1 DEF Started, Missed
  <2>2. QED
    BY <2>1 DEF Started
<1>8. Answered'
  <2>1. SUFFICES ASSUME NEW f \in Events, NEW t \in present
                 PROVE  /\ target[<<f, t>>] = "ok" \/ rule[<<f, ruleOf[t]>>] = "ok" => Delivered(f, t)
                        /\ source'[f] = "acked" => Delivered(f, t) \/ Missed(f, t)
    BY <1>2 DEF Answered, Delivered, Missed
  <2>2. QED
    BY <1>0, <1>1 DEF Answered
<1>9. QED
  BY <1>3, <1>5, <1>6, <1>7, <1>8 DEF DeliveryIInv

\* The consumer takes messages, or lets them come again.
LEMMA DeliverStep ==
    ASSUME DeliveryIInv, NEW S \in SUBSET Events, Deliver(S) \/ Drop(S)
    PROVE  DeliveryIInv'
<1>0. DeliveryTypeOK /\ Owned
  BY DEF DeliveryIInv
<1>1. /\ \A e \in S : source[e] # "handling"
      /\ UNCHANGED <<rule, target, retryVars, configVars, historyVars, crashes>>
  BY DEF Deliver, Drop
<1>2. \A e \in S, r \in Rules : rule[<<e, r>>] \in {"off", "ok", "error"}
  BY <1>0, <1>1 DEF Owned
<1>3. CASE Deliver(S)
  <2>1. /\ sourceTry' \in [Events -> 0..MaxSource]
        /\ \A e \in S : sourceTry'[e] \in 1..MaxSource
        /\ \A e \in Events \ S : sourceTry'[e] = sourceTry[e]
        /\ SourceTo(S, "held")
    BY <1>0, <1>3 DEF Deliver, DeliveryTypeOK
  <2>2. QED
    BY <1>1, <1>2, <2>1, SourceMoves
<1>4. CASE Drop(S)
  BY <1>0, <1>1, <1>2, <1>4, SourceMoves DEF Drop, DeliveryTypeOK
<1>5. QED
  BY <1>3, <1>4

\* A step that concerns retry messages only.
LEMMA RetryMoves ==
    ASSUME DeliveryIInv, Kept,
           retry' \in [Copies -> RetryPlaces],
           retryTry' \in [Copies -> 0..MaxRetry],
           accepted' \in SUBSET (Events \X Targets),
           masked' \in SUBSET (Events \X Targets),
           UNCHANGED <<sourceVars, configVars, missed, crashes>>
    PROVE  DeliveryIInv'
<1>0. DeliveryTypeOK /\ Owned /\ Counted /\ Started /\ Answered
  BY DEF DeliveryIInv
<1>1. UNCHANGED <<source, sourceTry, rule, target, ruleOf, present, loaded, limit, missed,
                  crashes>>
  BY DEF sourceVars, configVars
<1>2. DeliveryTypeOK'
  BY <1>0, <1>1 DEF DeliveryTypeOK
<1>3. Owned' /\ Counted' /\ Started'
  BY <1>0, <1>1 DEF Owned, Counted, Started, Missed
<1>4. Answered'
  <2>1. present \subseteq Targets
    BY <1>0 DEF DeliveryTypeOK
  <2>2. SUFFICES ASSUME NEW f \in Events, NEW t \in present, Delivered(f, t)
                 PROVE  Delivered(f, t)'
    BY <1>0, <1>1 DEF Answered, Missed
  <2>3. QED
    BY <2>1, <2>2 DEF Kept
<1>5. QED
  BY <1>2, <1>3, <1>4 DEF DeliveryIInv

LEMMA BeginStep ==
    ASSUME DeliveryIInv, NEW e \in Events, BeginSource(e)
    PROVE  DeliveryIInv'
<1>0. DeliveryTypeOK /\ Owned /\ Counted /\ Started /\ Answered
  BY DEF DeliveryIInv
<1>1. /\ source[e] = "held"
      /\ source' \in [Events -> Places] /\ source'[e] = "handling"
      /\ \A f \in Events \ {e} : source'[f] = source[f]
  BY <1>0, SourceSet DEF BeginSource, Places
<1>2. UNCHANGED <<sourceTry, retry, retryTry, ruleOf, present, loaded, limit, accepted,
                  masked, crashes>>
  BY DEF BeginSource, retryVars, configVars
<1>3. /\ missed' \in SUBSET (Events \X Rules)
      /\ \A f \in Events \ {e}, r \in Rules : <<f, r>> \in missed => <<f, r>> \in missed'
      /\ \A r \in Rules : HasTargets(r) /\ r \notin loaded => <<e, r>> \in missed'
  <2>1. missed' = {x \in missed : x[1] # e} \cup
                  {<<e, r>> : r \in {q \in Rules \ loaded : HasTargets(q)}}
    BY DEF BeginSource
  <2>2. missed \in SUBSET (Events \X Rules)
    BY <1>0 DEF DeliveryTypeOK
  <2>3. QED
    BY <2>1, <2>2
<1>4. /\ rule' \in [Events \X Rules -> RuleSteps]
      /\ \A f \in Events \ {e}, r \in Rules : rule'[<<f, r>>] = rule[<<f, r>>]
      /\ \A r \in Rules : rule'[<<e, r>>] = IF HasExecutor(r) THEN "match" ELSE "off"
  BY <1>0 DEF BeginSource, DeliveryTypeOK, RuleSteps
<1>5. /\ target' \in [Events \X Targets -> TargetSteps]
      /\ \A f \in Events \ {e}, t \in Targets : target'[<<f, t>>] = target[<<f, t>>]
      /\ \A t \in Targets : target'[<<e, t>>] = "off"
  BY <1>0 DEF BeginSource, DeliveryTypeOK, TargetSteps
<1>6. DeliveryTypeOK'
  <2>1. ASSUME NEW f \in Events, NEW t \in Targets, target'[<<f, t>>] \in {"dispatch", "send"}
        PROVE  rule'[<<f, ruleOf[t]>>] = "dispatch"
    <3>1. f # e
      BY <1>5, <2>1
    <3>2. rule[<<f, ruleOf[t]>>] = "dispatch" /\ ruleOf[t] \in Rules
      BY <1>0, <1>5, <2>1, <3>1, RuleOf DEF DeliveryTypeOK
    <3>3. QED
      BY <1>4, <3>1, <3>2
  <2>2. QED
    BY <1>0, <1>1, <1>2, <1>3, <1>4, <1>5, <2>1 DEF DeliveryTypeOK, RuleSteps, TargetSteps
<1>7. Owned'
  BY <1>0, <1>1, <1>4, <1>5 DEF Owned
<1>8. Counted'
  BY <1>0, <1>1, <1>2 DEF Counted
<1>9. ASSUME NEW f \in Events, NEW t \in present
      PROVE  /\ source'[f] = "handling" =>
                  rule'[<<f, ruleOf[t]>>] # "off" \/ <<f, ruleOf[t]>> \in missed'
             /\ rule'[<<f, ruleOf[t]>>] = "match" => ruleOf[t] \in loaded
             /\ rule'[<<f, ruleOf[t]>>] = "dispatch" => target'[<<f, t>>] # "off"
             /\ target'[<<f, t>>] = "ok" \/ rule'[<<f, ruleOf[t]>>] = "ok" => Delivered(f, t)
             /\ source'[f] = "acked" => Delivered(f, t) \/ <<f, ruleOf[t]>> \in missed'
  <2>1. t \in Targets /\ ruleOf[t] \in Rules
    BY <1>0, RuleOf DEF DeliveryTypeOK
  <2>2. CASE f = e
    <3>1. HasTargets(ruleOf[t])
      BY DEF HasTargets
    <3>2. target'[<<e, t>>] = "off"
      BY <1>5, <2>1
    <3>3. rule'[<<e, ruleOf[t]>>] = IF ruleOf[t] \in loaded THEN "match" ELSE "off"
      BY <1>4, <2>1 DEF HasExecutor
    <3>4. ruleOf[t] \in loaded \/ <<e, ruleOf[t]>> \in missed'
      BY <1>3, <2>1, <3>1
    <3>5. QED
      BY <1>1, <2>2, <3>2, <3>3, <3>4
  <2>3. CASE f # e
    <3>1. /\ rule'[<<f, ruleOf[t]>>] = rule[<<f, ruleOf[t]>>]
          /\ target'[<<f, t>>] = target[<<f, t>>]
          /\ source'[f] = source[f]
          /\ <<f, ruleOf[t]>> \in missed => <<f, ruleOf[t]>> \in missed'
      BY <1>1, <1>3, <1>4, <1>5, <2>1, <2>3
    <3>2. QED
      BY <1>0, <3>1 DEF Started, Answered, Missed
  <2>4. QED
    BY <2>2, <2>3
<1>10. Started'
  BY <1>2, <1>9 DEF Started, Missed
<1>11. Answered'
  BY <1>2, <1>9 DEF Answered, Delivered, Missed
<1>12. QED
  BY <1>6, <1>7, <1>8, <1>10, <1>11 DEF DeliveryIInv

\* Transform hands the event to the targets of a rule.
LEMMA DispatchStep ==
    ASSUME DeliveryIInv, NEW e \in Events, NEW r \in Rules,
           source[e] = "handling",
           \A t \in present : ruleOf[t] = r => target'[<<e, t>>] = "dispatch",
           \A f \in Events, t \in Targets :
              target'[<<f, t>>] = target[<<f, t>>] \/ (f = e /\ ruleOf[t] = r /\ target'[<<f, t>>] = "dispatch"),
           target' \in [Events \X Targets -> TargetSteps],
           rule[<<e, r>>] # "dispatch",
           RuleStep(e, r, "dispatch"),
           UNCHANGED <<source, sourceTry, retryVars, configVars, historyVars, crashes>>
    PROVE  DeliveryIInv'
<1>0. DeliveryTypeOK /\ Owned /\ Counted /\ Started /\ Answered
  BY DEF DeliveryIInv
<1>1. /\ rule' \in [Events \X Rules -> RuleSteps]
      /\ rule'[<<e, r>>] = "dispatch"
      /\ \A f \in Events, q \in Rules : f # e \/ q # r => rule'[<<f, q>>] = rule[<<f, q>>]
  BY <1>0, RuleSet DEF RuleSteps
<1>2. UNCHANGED <<source, sourceTry, retry, retryTry, ruleOf, present, loaded, limit,
                  accepted, masked, missed, crashes>>
  BY DEF retryVars, configVars, historyVars
<1>3. DeliveryTypeOK'
  <2>1. ASSUME NEW f \in Events, NEW t \in Targets, target'[<<f, t>>] \in {"dispatch", "send"}
        PROVE  rule'[<<f, ruleOf[t]>>] = "dispatch"
    <3>1. CASE f = e /\ ruleOf[t] = r
      BY <1>1, <3>1
    <3>2. CASE f # e \/ ruleOf[t] # r
      <4>1. rule[<<f, ruleOf[t]>>] = "dispatch" /\ ruleOf[t] \in Rules
        BY <1>0, <2>1, <3>2, RuleOf DEF DeliveryTypeOK
      <4>2. QED
        BY <1>1, <3>2, <4>1
    <3>3. QED
      BY <3>1, <3>2
  <2>2. QED
    BY <1>0, <1>1, <1>2, <2>1 DEF DeliveryTypeOK, RuleSteps, TargetSteps
<1>4. Owned'
  BY <1>0, <1>1, <1>2 DEF Owned
<1>5. Counted'
  BY <1>0, <1>2 DEF Counted
<1>6. ASSUME NEW f \in Events, NEW t \in present
      PROVE  /\ source[f] = "handling" => rule'[<<f, ruleOf[t]>>] # "off" \/ Missed(f, t)
             /\ rule'[<<f, ruleOf[t]>>] = "match" => ruleOf[t] \in loaded
             /\ rule'[<<f, ruleOf[t]>>] = "dispatch" => target'[<<f, t>>] # "off"
             /\ target'[<<f, t>>] = "ok" \/ rule'[<<f, ruleOf[t]>>] = "ok" => Delivered(f, t)
             /\ source[f] = "acked" => Delivered(f, t) \/ Missed(f, t)
  <2>1. t \in Targets /\ ruleOf[t] \in Rules
    BY <1>0, RuleOf DEF DeliveryTypeOK
  <2>2. CASE f = e /\ ruleOf[t] = r
    BY <1>0, <1>1, <2>2 DEF Answered
  <2>3. CASE f # e \/ ruleOf[t] # r
    <3>1. rule'[<<f, ruleOf[t]>>] = rule[<<f, ruleOf[t]>>] /\ target'[<<f, t>>] = target[<<f, t>>]
      BY <1>1, <2>1, <2>3
    <3>2. QED
      BY <1>0, <3>1 DEF Started, Answered
  <2>4. QED
    BY <2>2, <2>3
<1>7. Started'
  <2>1. ASSUME NEW f \in Events, NEW t \in present'
        PROVE  /\ source'[f] = "handling" =>
                    rule'[<<f, ruleOf'[t]>>] # "off" \/ Missed(f, t)'
               /\ rule'[<<f, ruleOf'[t]>>] = "match" => ruleOf'[t] \in loaded'
               /\ rule'[<<f, ruleOf'[t]>>] = "dispatch" => target'[<<f, t>>] # "off"
    BY <1>2, <1>6 DEF Missed
  <2>2. QED
    BY <2>1 DEF Started
<1>8. Answered'
  BY <1>2, <1>6 DEF Answered, Delivered, Missed
<1>9. QED
  BY <1>3, <1>4, <1>5, <1>7, <1>8 DEF DeliveryIInv

LEMMA CrashStep ==
    ASSUME DeliveryIInv, Crash
    PROVE  DeliveryIInv'
<1>0. DeliveryTypeOK /\ Owned /\ Counted /\ Started /\ Answered
  BY DEF DeliveryIInv
<1>1. /\ UNCHANGED <<sourceTry, retryTry, ruleOf, present, limit, accepted, masked, missed>>
      /\ loaded' = {}
  BY DEF Crash, historyVars
<1>2. /\ rule' \in [Events \X Rules -> RuleSteps]
      /\ \A f \in Events, r \in Rules : rule'[<<f, r>>] = "off"
  BY <1>0 DEF Crash, DeliveryTypeOK, RuleSteps
<1>3. /\ target' \in [Events \X Targets -> TargetSteps]
      /\ \A f \in Events, t \in Targets : target'[<<f, t>>] = "off"
  BY <1>0 DEF Crash, DeliveryTypeOK, TargetSteps
<1>4. /\ source' \in [Events -> Places]
      /\ \A f \in Events : /\ source'[f] \notin {"held", "handling"}
                           /\ source'[f] = "acked" => source[f] = "acked"
  BY <1>0 DEF Crash, DeliveryTypeOK, Places
<1>5. /\ retry' \in [Copies -> RetryPlaces]
      /\ \A c \in Copies : retry'[c] = IF retry[c] = "handling" THEN "ready" ELSE retry[c]
  BY <1>0 DEF Crash, DeliveryTypeOK, RetryPlaces
<1>6. crashes' \in 0..MaxCrashes
  BY <1>0 DEF Crash, DeliveryTypeOK
<1>7. DeliveryTypeOK'
  <2>1. \A f \in Events, t \in Targets : target'[<<f, t>>] \notin {"dispatch", "send"}
    BY <1>3
  <2>2. /\ source' \in [Events -> Places]
        /\ rule' \in [Events \X Rules -> RuleSteps]
        /\ target' \in [Events \X Targets -> TargetSteps]
        /\ retry' \in [Copies -> RetryPlaces]
    BY <1>2, <1>3, <1>4, <1>5
  <2>3. QED
    BY <1>0, <1>1, <1>6, <2>1, <2>2 DEF DeliveryTypeOK, RuleSteps, TargetSteps
<1>8. Owned' /\ Counted'
  BY <1>2, <1>3, <1>4 DEF Owned, Counted
<1>9. \A t \in present : t \in Targets /\ ruleOf[t] \in Rules
  BY <1>0, RuleOf DEF DeliveryTypeOK
<1>10. Started'
  <2>1. ASSUME NEW f \in Events, NEW t \in present
        PROVE  source'[f] # "handling" /\ rule'[<<f, ruleOf[t]>>] = "off"
    <3>1. ruleOf[t] \in Rules
      BY <1>9
    <3>2. QED
      BY <1>2, <1>4, <3>1
  <2>2. QED
    BY <1>1, <2>1 DEF Started
<1>11. Answered'
  <2>1. SUFFICES ASSUME NEW f \in Events, NEW t \in present, Delivered(f, t)
                 PROVE  Delivered(f, t)'
    BY <1>0, <1>1, <1>2, <1>3, <1>4, <1>9 DEF Answered, Missed
  <2>2. CASE <<f, t>> \in accepted \/ <<f, t>> \in masked
    BY <1>1, <2>2 DEF Delivered
  <2>3. ASSUME NEW a \in 1..MaxSource, retry[<<f, t, a>>] \in {"ready", "handling", "dead"}
        PROVE  Delivered(f, t)'
    <3>1. <<f, t, a>> \in Copies
      BY <1>9 DEF Copies
    <3>2. retry'[<<f, t, a>>] \in {"ready", "dead"}
      BY <1>5, <2>3, <3>1
    <3>3. QED
      BY <3>2 DEF Delivered
  <2>4. QED
    BY <2>1, <2>2, <2>3 DEF Delivered
<1>12. QED
  BY <1>7, <1>8, <1>10, <1>11 DEF DeliveryIInv

\* A rule that is loaded keeps its executor while it has targets.
LEMMA LoadStep ==
    ASSUME DeliveryIInv, NEW r \in Rules, LoadRule(r)
    PROVE  DeliveryIInv'
<1>1. /\ UNCHANGED <<source, sourceTry, rule, target, retry, retryTry, ruleOf, present, limit,
                     accepted, masked, missed, crashes>>
      /\ loaded' = loaded \cup {r}
  BY DEF LoadRule, sourceVars, retryVars, historyVars
<1>2. DeliveryTypeOK'
  BY <1>1 DEF DeliveryIInv, DeliveryTypeOK
<1>3. Owned' /\ Counted'
  BY <1>1 DEF DeliveryIInv, Owned, Counted
<1>4. Started'
  BY <1>1 DEF DeliveryIInv, Started, Missed
<1>5. Answered'
  BY <1>1 DEF DeliveryIInv, Answered, Delivered, Missed
<1>6. QED
  BY <1>2, <1>3, <1>4, <1>5 DEF DeliveryIInv

\* Nothing is owed to a target that is gone.
LEMMA RemoveStep ==
    ASSUME DeliveryIInv, NEW ts \in SUBSET Targets, RemoveTargets(ts)
    PROVE  DeliveryIInv'
<1>1. UNCHANGED <<source, sourceTry, rule, target, retry, retryTry, ruleOf, limit, accepted,
                  masked, missed, crashes>>
  BY DEF RemoveTargets, sourceVars, retryVars, historyVars
<1>2. /\ present' \subseteq present
      /\ loaded' = {r \in loaded : \E t \in present' : ruleOf[t] = r}
  BY DEF RemoveTargets
<1>3. DeliveryTypeOK'
  BY <1>1, <1>2 DEF DeliveryIInv, DeliveryTypeOK
<1>4. Owned' /\ Counted'
  BY <1>1 DEF DeliveryIInv, Owned, Counted
<1>5. Started'
  BY <1>1, <1>2 DEF DeliveryIInv, Started, Missed
<1>6. Answered'
  BY <1>1, <1>2 DEF DeliveryIInv, Answered, Delivered, Missed
<1>7. QED
  BY <1>3, <1>4, <1>5, <1>6 DEF DeliveryIInv

-----------------------------------------------------------------------------
\* The rule goroutines, one by one.
LEMMA RulesGoOn ==
    ASSUME DeliveryIInv, NEW e \in Events, NEW r \in Rules,
           RuleGoesOn(e, r)
    PROVE  DeliveryIInv'
<1>0. DeliveryTypeOK /\ Owned /\ Counted /\ Started /\ Answered
  BY DEF DeliveryIInv
<1>1. rule[<<e, r>>] # "dispatch" =>
        \A t \in Targets : ruleOf[t] = r => target[<<e, t>>] \notin {"dispatch", "send"}
  BY <1>0 DEF DeliveryTypeOK
<1>2. rule[<<e, r>>] = "match" /\ ~HasExecutor(r) =>
        \A t \in present : ruleOf[t] = r => Delivered(e, t)
  BY <1>0 DEF HasExecutor, Started
<1>3. CASE Match(e, r)
  <2>1. PICK s \in {"transform", "ok", "error"} :
           RuleStep(e, r, s) /\ (s = "ok" => ~HasExecutor(r))
    BY <1>3 DEF Match
  <2>2. /\ rule[<<e, r>>] = "match"
        /\ UNCHANGED <<source, sourceTry, target, retryVars, configVars, historyVars, crashes>>
    BY <1>3 DEF Match
  <2>3. QED
    BY <1>1, <1>2, <2>1, <2>2, RuleMoves
<1>4. CASE RuleFails(e, r)
  <2>1. /\ rule[<<e, r>>] \in {"match", "transform"}
        /\ RuleStep(e, r, "error")
        /\ UNCHANGED <<source, sourceTry, target, retryVars, configVars, historyVars, crashes>>
    BY <1>4 DEF RuleFails
  <2>2. QED
    BY <1>1, <2>1, RuleMoves
<1>5. CASE JoinTargets(e, r)
  <2>1. PICK s \in {"ok", "error"} :
           /\ RuleStep(e, r, s)
           /\ s = "ok" => \A t \in Targets : ruleOf[t] = r => target[<<e, t>>] # "error"
    BY <1>5 DEF JoinTargets
  <2>2. /\ rule[<<e, r>>] = "dispatch"
        /\ \A t \in Targets : ruleOf[t] = r => target[<<e, t>>] \in {"off", "ok", "error"}
        /\ UNCHANGED <<source, sourceTry, target, retryVars, configVars, historyVars, crashes>>
    BY <1>5 DEF JoinTargets
  <2>3. ASSUME s = "ok", NEW t \in present, ruleOf[t] = r
        PROVE  Delivered(e, t)
    <3>1. t \in Targets
      BY <1>0 DEF DeliveryTypeOK
    <3>2. target[<<e, t>>] # "off"
      BY <1>0, <2>2, <2>3 DEF Started
    <3>3. target[<<e, t>>] = "ok"
      BY <2>1, <2>2, <2>3, <3>1, <3>2
    <3>4. QED
      BY <1>0, <3>3 DEF Answered
  <2>4. \A t \in Targets : ruleOf[t] = r => target[<<e, t>>] \notin {"dispatch", "send"}
    BY <2>2
  <2>5. QED
    BY <2>1, <2>2, <2>3, <2>4, RuleMoves
<1>6. CASE Transform(e, r)
  <2> DEFINE ts == {t \in present : ruleOf[t] = r}
  <2>1. rule[<<e, r>>] = "transform"
        /\ UNCHANGED <<source, sourceTry, retryVars, configVars, historyVars, crashes>>
    BY <1>6 DEF Transform
  <2>2. CASE ts = {}
    <3>1. RuleStep(e, r, "ok") /\ UNCHANGED target
      BY <1>6, <2>2 DEF Transform
    <3>2. QED
      BY <1>1, <2>1, <2>2, <3>1, RuleMoves
  <2>3. CASE ts # {} /\ Cancelled(e)
    <3>1. RuleStep(e, r, "error") /\ UNCHANGED target
      BY <1>6, <2>3 DEF Transform
    <3>2. QED
      BY <1>1, <2>1, <3>1, RuleMoves
  <2>4. CASE ts # {} /\ ~Cancelled(e)
    <3>1. /\ RuleStep(e, r, "dispatch")
          /\ target' = [x \in DOMAIN target |->
                           IF x[1] = e /\ x[2] \in ts THEN "dispatch" ELSE target[x]]
      BY <1>6, <2>4 DEF Transform
    <3>2. target \in [Events \X Targets -> TargetSteps] /\ present \subseteq Targets
      BY <1>0 DEF DeliveryTypeOK, TargetSteps
    <3>3. target' \in [Events \X Targets -> TargetSteps]
      BY <3>1, <3>2 DEF TargetSteps
    <3>4. \A f \in Events, t \in Targets :
             target'[<<f, t>>] = IF f = e /\ t \in ts THEN "dispatch" ELSE target[<<f, t>>]
      BY <3>1, <3>2
    <3>5. \A t \in present : ruleOf[t] = r => target'[<<e, t>>] = "dispatch"
      BY <3>2, <3>4
    <3>6. \A f \in Events, t \in Targets :
             target'[<<f, t>>] = target[<<f, t>>] \/ (f = e /\ ruleOf[t] = r /\ target'[<<f, t>>] = "dispatch")
      BY <3>4
    <3>7. source[e] = "handling" /\ rule[<<e, r>>] # "dispatch"
      BY <1>0, <2>1 DEF Owned
    <3>8. RuleStep(e, r, "dispatch")
      BY <3>1
    <3>9. UNCHANGED <<source, sourceTry, retryVars, configVars, historyVars, crashes>>
      BY <2>1
    <3> HIDE DEF ts
    <3>10. QED
      BY <3>3, <3>5, <3>6, <3>7, <3>8, <3>9, DispatchStep
  <2>5. QED
    BY <2>2, <2>3, <2>4
<1>7. QED
  BY <1>3, <1>4, <1>5, <1>6 DEF RuleGoesOn

\* The target goroutines, one by one.
LEMMA TargetsGoOn ==
    ASSUME DeliveryIInv, NEW e \in Events, NEW t \in Targets, TargetGoesOn(e, t)
    PROVE  DeliveryIInv'
<1>0. DeliveryTypeOK /\ Owned /\ Counted
  BY DEF DeliveryIInv
<1>1. /\ retry \in [Copies -> RetryPlaces]
      /\ accepted \in SUBSET (Events \X Targets)
      /\ masked \in SUBSET (Events \X Targets)
      /\ <<e, t>> \in Events \X Targets
  BY <1>0 DEF DeliveryTypeOK
<1>2. CASE DispatchOk(e, t) \/ DispatchFails(e, t)
  <2>1. PICK s \in {"ok", "send"} :
           /\ TargetStep(e, t, s)
           /\ s = "ok" => <<e, t>> \in accepted'
    BY <1>2 DEF DispatchOk, DispatchFails
  <2>2. /\ target[<<e, t>>] = "dispatch"
        /\ accepted' \in {accepted, accepted \cup {<<e, t>>}}
        /\ UNCHANGED <<source, sourceTry, rule, retry, retryTry, configVars, masked, missed,
                       crashes>>
    BY <1>2 DEF DispatchOk, DispatchFails, TargetStarts, retryVars
  <2>3. Kept
    BY <2>2, KeptQuiet
  <2>4. s = "ok" => Delivered(e, t)'
    BY <2>1 DEF Delivered
  <2>5. accepted' \in SUBSET (Events \X Targets)
    BY <1>1, <2>2
  <2>6. QED
    BY <1>1, <2>1, <2>2, <2>3, <2>4, <2>5, TargetMoves
<1>3. CASE DispatchSkipped(e, t) \/ DispatchRefused(e, t)
  <2>1. PICK s \in {"ok", "send"} :
           /\ TargetStep(e, t, s)
           /\ s = "ok" => t \notin present \/ <<e, t>> \in masked'
    BY <1>3 DEF DispatchSkipped, DispatchRefused
  <2>2. /\ target[<<e, t>>] = "dispatch"
        /\ masked' \in {masked, masked \cup {<<e, t>>}}
        /\ UNCHANGED <<source, sourceTry, rule, retry, retryTry, configVars, accepted, missed,
                       crashes>>
    BY <1>3 DEF DispatchSkipped, DispatchRefused, TargetStarts, retryVars, historyVars
  <2>3. Kept
    BY <2>2, KeptQuiet
  <2>4. s = "ok" => Delivered(e, t)' \/ t \notin present
    BY <2>1 DEF Delivered
  <2>5. masked' \in SUBSET (Events \X Targets)
    BY <1>1, <2>2
  <2>6. QED
    BY <1>1, <2>1, <2>2, <2>3, <2>4, <2>5, TargetMoves
<1>4. CASE SendRetry(e, t) \/ SendFails(e, t)
  <2>1. PICK s \in {"ok", "error"} :
           /\ TargetStep(e, t, s)
           /\ \/ s = "error" /\ UNCHANGED retry
              \/ retry' = [retry EXCEPT ![<<e, t, sourceTry[e]>>] = "ready"]
    BY <1>4 DEF SendRetry, SendFails
  <2>2. /\ target[<<e, t>>] = "send"
        /\ UNCHANGED <<source, sourceTry, rule, retryTry, configVars, accepted, masked, missed,
                       crashes>>
    BY <1>4 DEF SendRetry, SendFails, historyVars
  <2>3. source[e] = "handling"
    BY <1>0, <2>2 DEF Owned
  <2>4. Kept /\ retry' \in [Copies -> RetryPlaces] /\ (s = "ok" => Delivered(e, t)')
    <3>1. CASE s = "error" /\ UNCHANGED retry
      BY <1>1, <2>2, <3>1, KeptQuiet
    <3>2. CASE retry' = [retry EXCEPT ![<<e, t, sourceTry[e]>>] = "ready"]
      BY <1>0, <2>2, <2>3, <3>2, SentKept
    <3>3. QED
      BY <2>1, <3>1, <3>2
  <2>5. QED
    BY <1>1, <2>1, <2>2, <2>4, TargetMoves
<1>5. QED
  BY <1>2, <1>3, <1>4 DEF TargetGoesOn

\* The retry messages.
LEMMA RetriesGoOn ==
    ASSUME DeliveryIInv, NEW c \in Copies, RetryMessage(c)
    PROVE  DeliveryIInv'
<1>0. DeliveryTypeOK
  BY DEF DeliveryIInv
<1>1. PICK e \in Events, t \in Targets, a \in 1..MaxSource : c = <<e, t, a>>
  BY CopyOf
<1>2. c[1] = e /\ c[2] = t /\ <<e, t>> \in Events \X Targets
  BY <1>1
<1>3. PICK s \in {"ready", "handling", "acked"} :
         /\ RetryStep(c, s)
         /\ s = "acked" => <<e, t>> \in accepted' \/ <<e, t>> \in masked'
  BY <1>2 DEF RetryMessage, BeginRetry, RetryOk, RetryFails, RetryRefused, RetryStep
<1>4. /\ accepted' \in {accepted, accepted \cup {<<e, t>>}}
      /\ masked' \in {masked, masked \cup {<<e, t>>}}
      /\ UNCHANGED <<sourceVars, configVars, missed, crashes>>
  BY <1>2 DEF RetryMessage, BeginRetry, RetryOk, RetryFails, RetryRefused, historyVars
<1>5. retryTry' \in [Copies -> 0..MaxRetry]
  <2>1. \/ UNCHANGED retryTry
        \/ retryTry[c] < MaxRetry /\ retryTry' = [retryTry EXCEPT ![c] = @ + 1]
    BY DEF RetryMessage, BeginRetry, RetryOk, RetryFails, RetryRefused
  <2>2. QED
    BY <1>0, <2>1 DEF DeliveryTypeOK
<1>6. Kept
  BY <1>0, <1>1, <1>3, <1>4, KeptMove DEF RetryPlaces
<1>7. retry' \in [Copies -> RetryPlaces]
  BY <1>0, <1>3, RetrySet DEF RetryPlaces
<1>8. accepted' \in SUBSET (Events \X Targets) /\ masked' \in SUBSET (Events \X Targets)
  BY <1>0, <1>2, <1>4 DEF DeliveryTypeOK
<1>9. QED
  BY <1>4, <1>5, <1>6, <1>7, <1>8, RetryMoves

LEMMA BuryStep ==
    ASSUME DeliveryIInv, \/ \E e \in Events : BurySource(e)
                         \/ \E c \in Copies : BuryRetry(c)
    PROVE  DeliveryIInv'
<1>0. DeliveryTypeOK /\ Owned
  BY DEF DeliveryIInv
<1>1. ASSUME NEW e \in Events, BurySource(e) PROVE DeliveryIInv'
  <2>1. \A r \in Rules : rule[<<e, r>>] \in {"off", "ok", "error"}
    BY <1>0, <1>1 DEF Owned, BurySource
  <2>2. QED
    BY <1>0, <1>1, <2>1, SourceMoves DEF BurySource, DeliveryTypeOK
<1>2. ASSUME NEW c \in Copies, BuryRetry(c) PROVE DeliveryIInv'
  <2>1. PICK e \in Events, t \in Targets, a \in 1..MaxSource : c = <<e, t, a>>
    BY CopyOf
  <2>2. /\ RetryStep(c, "dead")
        /\ UNCHANGED <<sourceVars, retryTry, configVars, accepted, masked, missed, crashes>>
    BY <1>2 DEF BuryRetry, historyVars
  <2>3. Kept
    BY <1>0, <2>1, <2>2, KeptMove DEF RetryPlaces
  <2>4. retry' \in [Copies -> RetryPlaces]
    BY <1>0, <2>2, RetrySet DEF RetryPlaces
  <2>5. /\ retryTry' \in [Copies -> 0..MaxRetry]
        /\ accepted' \in SUBSET (Events \X Targets)
        /\ masked' \in SUBSET (Events \X Targets)
    BY <1>0, <2>2 DEF DeliveryTypeOK
  <2>6. QED
    BY <2>2, <2>3, <2>4, <2>5, RetryMoves
<1>3. QED
  BY <1>1, <1>2

LEMMA AnswerStep ==
    ASSUME DeliveryIInv, NEW e \in Events, SourceOk(e) \/ SourceFails(e)
    PROVE  DeliveryIInv'
<1>0. DeliveryTypeOK /\ Started /\ Answered
  BY DEF DeliveryIInv
<1>1. /\ source[e] = "handling"
      /\ \A r \in Rules : rule[<<e, r>>] \in {"off", "ok", "error"}
      /\ UNCHANGED <<sourceTry, rule, target, retryVars, configVars, historyVars, crashes>>
  BY DEF SourceOk, SourceFails, RuleResults
<1>2. CASE SourceFails(e)
  <2>1. sourceTry \in [Events -> 0..MaxSource] /\ SourceTo({e}, "ready")
    BY <1>0, <1>2 DEF DeliveryTypeOK, SourceFails
  <2>2. QED
    BY <1>1, <2>1, SourceMoves
<1>3. CASE SourceOk(e)
  <2>1. \A r \in Rules : rule[<<e, r>>] \in {"off", "ok"}
    BY <1>3 DEF SourceOk, RuleResults
  <2>2. ASSUME NEW t \in present PROVE Delivered(e, t) \/ Missed(e, t)
    <3>1. ruleOf[t] \in Rules
      BY <1>0, RuleOf DEF DeliveryTypeOK
    <3>2. rule[<<e, ruleOf[t]>>] = "ok" \/ Missed(e, t)
      BY <1>0, <1>1, <2>1, <3>1 DEF Started
    <3>3. QED
      BY <1>0, <3>2 DEF Answered
  <2>3. sourceTry \in [Events -> 0..MaxSource] /\ SourceTo({e}, "acked")
    BY <1>0, <1>3 DEF DeliveryTypeOK, SourceOk
  <2>4. QED
    BY <1>1, <2>2, <2>3, SourceMoves
<1>4. QED
  BY <1>2, <1>3

-----------------------------------------------------------------------------
LEMMA DeliveryIInvInit == DeliveryInit => DeliveryIInv
<1> SUFFICES ASSUME DeliveryInit PROVE DeliveryIInv
  OBVIOUS
<1>1. /\ source = [e \in Events |-> "ready"]
      /\ rule = [x \in Events \X Rules |-> "off"]
      /\ target = [x \in Events \X Targets |-> "off"]
      /\ ruleOf \in [Targets -> Rules] /\ present = Targets
  BY DEF DeliveryInit
<1>2. DeliveryTypeOK
  BY DEF DeliveryInit, DeliveryTypeOK, Places, RetryPlaces
<1>3. Owned /\ Counted /\ Started
  BY <1>1 DEF Owned, Counted, Started
<1>4. Answered
  BY <1>1 DEF Answered
<1>5. QED
  BY <1>2, <1>3, <1>4 DEF DeliveryIInv

LEMMA DeliveryIInvStep == DeliveryIInv /\ [DeliveryNext]_deliveryVars => DeliveryIInv'
<1> SUFFICES ASSUME DeliveryIInv, [DeliveryNext]_deliveryVars PROVE DeliveryIInv'
  OBVIOUS
<1>1. ASSUME NEW S \in SUBSET Events, Deliver(S) \/ Drop(S) PROVE DeliveryIInv'
  BY <1>1, DeliverStep
<1>2. ASSUME NEW e \in Events, SourceStep(e) PROVE DeliveryIInv'
  BY <1>2, BeginStep, RulesGoOn, TargetsGoOn, AnswerStep DEF SourceStep, Goroutines
<1>3. ASSUME NEW c \in Copies, RetryMessage(c) PROVE DeliveryIInv'
  BY <1>3, RetriesGoOn
<1>4. CASE (\E e \in Events : BurySource(e)) \/ (\E c \in Copies : BuryRetry(c))
  BY <1>4, BuryStep
<1>5. CASE (\E r \in Rules : LoadRule(r)) \/ (\E ts \in SUBSET Targets : RemoveTargets(ts))
  BY <1>5, LoadStep, RemoveStep
<1>6. CASE Crash
  BY <1>6, CrashStep
<1>7. CASE UNCHANGED deliveryVars
  BY <1>7
  DEF deliveryVars, sourceVars, retryVars, configVars, historyVars, DeliveryIInv,
      DeliveryTypeOK, Owned, Counted, Started, Answered, Delivered, Missed
<1>8. QED
  BY <1>1, <1>2, <1>3, <1>4, <1>5, <1>6, <1>7 DEF DeliveryNext

LEMMA DeliveryInvariant == DeliverySpec => []DeliveryIInv
  BY DeliveryIInvInit, DeliveryIInvStep, PTL DEF DeliverySpec

\* For every instance: messages, goroutines and histories are what HandleEvent
\* takes them for, and a target is dispatched only while its rule is.
THEOREM DeliveryTypeCorrect == DeliverySpec => []DeliveryTypeOK
<1>1. DeliveryIInv => DeliveryTypeOK
  BY DEF DeliveryIInv
<1>2. QED
  BY <1>1, DeliveryInvariant, PTL

\* For every instance: at least once, for the rules the job had loaded. Whatever
\* fails, is cancelled or removed, and wherever the job crashes, an event that
\* is settled has reached every target the rules still have, is dead, or was
\* refused and reported as delivered; but a target is Missed when the job, which
\* starts without executors, had not loaded its rule as it began to handle the
\* event (HandleEvent, dispatchTargetEvent, retryDispatchTargetEvent).
THEOREM AtLeastOnce == DeliverySpec => []NoEventLost
<1>1. DeliveryIInv => NoEventLost
  <2>1. SUFFICES ASSUME DeliveryIInv, NEW e \in Events, NEW t \in present
                 PROVE  \/ Owed(e, t) \/ DeadLettered(e, t) \/ Missed(e, t)
                        \/ <<e, t>> \in accepted \/ <<e, t>> \in masked
    BY DEF NoEventLost
  <2>2. CASE source[e] = "acked"
    <3>1. Delivered(e, t) \/ Missed(e, t)
      BY <2>1, <2>2 DEF DeliveryIInv, Answered
    <3>2. QED
      BY <3>1 DEF Delivered, Owed, DeadLettered
  <2>3. CASE source[e] # "acked"
    BY <2>3 DEF Owed, Resolved, DeadLettered
  <2>4. QED
    BY <2>2, <2>3
<1>2. QED
  BY <1>1, DeliveryInvariant, PTL

\* For every instance: when HandleEvent answers, every goroutine it started has
\* ended (errgroup.Wait of the rules and of the targets).
THEOREM AllJoined == DeliverySpec => []NothingRunsUnowned
<1>1. DeliveryIInv => NothingRunsUnowned
  BY DEF DeliveryIInv, Owned, NothingRunsUnowned, RuleResults
<1>2. QED
  BY <1>1, DeliveryInvariant, PTL

HIDE DeliveryAssumption DEF DeliveryAssumption

(***************************************************************************)
(* The consumer and HandleEvent together.                                  *)
(***************************************************************************)

\* Where the source message of e is, the broker and the consumer say.
EventAgrees(e) ==
    /\ source[e] \in {"acked", "dead"} \/ where[e] \in {"acked", "dead"} =>
         source[e] = where[e]
    /\ e \in batch => source[e] = "held"
    /\ source[e] = "held" =>
         e \in batch \/ \E s \in Slots : slot[s].msg = e /\ slot[s].phase = "handle"
    /\ source[e] = "handling" => \E s \in Slots : HandledBy(s, e)

SlotAgrees(s) ==
    /\ slot[s].phase = "handle" => source[slot[s].msg] \in {"held", "handling"}
    /\ slot[s].phase = "ack" => ReturnsNil(slot[s].msg)
    /\ slot[s].phase = "change" => source[slot[s].msg] \in {"ready", "acked"}

Agree ==
    /\ sourceTry = attempt
    /\ \A e \in Events : EventAgrees(e)
    /\ \A s \in Slots : SlotAgrees(s)

PathIInv == ConsumerIInv /\ DeliveryIInv /\ Agree

\* A message that can be delivered, or is given up, is nowhere in the job.
LEMMA VisibleIsReady ==
    ASSUME MessagesAreEvents, PathIInv, NEW m \in Msgs, where[m] \in {"unsent", "visible"}
    PROVE  /\ source[m] = "ready" /\ m \in Events
           /\ m \notin batch /\ \A s \in Busy : slot[s].msg # m
<1>1. m \in Events /\ source[m] \in Places
  BY DEF MessagesAreEvents, PathIInv, DeliveryIInv, DeliveryTypeOK
<1>2. m \notin batch /\ \A s \in Busy : slot[s].msg # m
  BY DEF PathIInv, ConsumerIInv, OnTime
<1>3. \A s \in Slots : slot[s].phase # "free" => s \in Busy
  BY DEF PathIInv, ConsumerIInv, Shapes, Busy
<1>4. \A s \in Slots : slot[s].phase \in {"handle", "ack"} => slot[s].msg # m
  BY <1>2, <1>3
<1>5. EventAgrees(m)
  BY <1>1 DEF PathIInv, Agree
<1>6. source[m] \notin {"held", "handling", "acked", "dead"}
  BY <1>2, <1>4, <1>5 DEF EventAgrees, HandledBy
<1>7. QED
  BY <1>1, <1>2, <1>6 DEF Places

\* A goroutine with a message, and where that message is.
LEMMA AtWorkTogether ==
    ASSUME MessagesAreEvents, PathIInv, NEW s \in Slots, slot[s].phase # "free"
    PROVE  /\ s \in Busy /\ slot[s].msg \in Events /\ slot[s].msg \notin batch
           /\ EventAgrees(slot[s].msg) /\ SlotAgrees(s)
           /\ slot[s].phase # "change" => where[slot[s].msg] = "hidden"
           /\ \A t \in Busy : slot[t].msg = slot[s].msg => t = s
<1>1. s \in Busy /\ slot[s].msg \in Events
  BY DEF PathIInv, ConsumerIInv, Shapes, Busy, MessagesAreEvents
<1>2. QED
  BY <1>1 DEF PathIInv, Agree, ConsumerIInv, OneHolder, OnTime

\* What a goroutine of messageHandle does to the slots and the messages.
LEMMA WorkingSlots ==
    ASSUME ConsumerIInv, NEW s \in Slots, Working(s)
    PROVE  /\ slot[s].phase # "free"
           /\ \A t \in Slots \ {s} : slot'[t] = slot[t]
           /\ \A m \in Msgs \ {slot[s].msg} : where'[m] = where[m]
           /\ UNCHANGED <<batch, attempt>>
           /\ \/ slot'[s] = Free
              \/ slot'[s].msg = slot[s].msg /\ slot'[s].phase \in {"ack", "change"}
<1>1. DOMAIN slot = Slots /\ DOMAIN where = Msgs
  BY DEF ConsumerIInv, Shapes
<1>2. slot[s].phase # "free" /\ UNCHANGED <<batch, attempt>>
  BY DEF Working, DecodeFails, HandleOk, HandleFails, AckOk, AckFails, ChangeDelay
<1>3. s \in Busy
  BY <1>2, AtWork DEF ConsumerIInv
<1>4. \/ UNCHANGED where
      \/ where' = [where EXCEPT ![slot[s].msg] = "acked"]
  BY DEF Working, DecodeFails, HandleOk, HandleFails, AckOk, AckFails, ChangeDelay
<1>5. \/ slot' = [slot EXCEPT ![s] = Free]
      \/ slot' = [slot EXCEPT ![s].phase = "ack"]
      \/ slot' = [slot EXCEPT ![s].phase = "change", ![s].left = ReqTime]
  BY DEF Working, DecodeFails, HandleOk, HandleFails, AckOk, AckFails, ChangeDelay, Failed,
         Release
<1>6. slot[s] \in Works
  BY DEF ConsumerIInv, Shapes, Works
<1>7. \A t \in Slots \ {s} : slot'[t] = slot[t]
  BY <1>1, <1>5
<1>8. \/ slot'[s] = Free
      \/ slot'[s].msg = slot[s].msg /\ slot'[s].phase \in {"ack", "change"}
  BY <1>1, <1>5, <1>6 DEF Works
<1>9. QED
  BY <1>1, <1>2, <1>4, <1>7, <1>8

-----------------------------------------------------------------------------
(* Every step is one of Delivery's, or leaves its state alone.             *)

DeliveryStep == [DeliveryNext]_deliveryVars

LEMMA FollowOne ==
    ASSUME MessagesAreEvents, PathIInv, NEW e \in Events, NEW p, Follow({e}, p),
           UNCHANGED attempt
    PROVE  /\ SourceTo({e}, p) /\ source'[e] = p
           /\ \A f \in Events \ {e} : source'[f] = source[f]
           /\ UNCHANGED <<sourceTry, rule, target, retryVars, configVars, historyVars, crashes>>
           /\ sourceTry' = attempt'
BY DEF Follow, SourceTo, PathIInv, Agree

LEMMA ReceivesDelivers ==
    ASSUME MessagesAreEvents, PathIInv, NEW S \in SUBSET Msgs, S # {}, Receives(S)
    PROVE  DeliveryStep
<1>1. S \in SUBSET Events
  BY DEF MessagesAreEvents
<1>2. \A m \in S : where[m] = "visible" /\ attempt[m] < MaxAttempts
  BY DEF Receives, ReceiveBatch, Deliverable
<1>3. sourceTry = attempt
  BY DEF PathIInv, Agree
<1>4. \A e \in S : source[e] = "ready" /\ sourceTry[e] < MaxSource
  BY <1>2, <1>3, VisibleIsReady DEF MessagesAreEvents
<1>5. sourceTry' = [e \in Events |-> IF e \in S THEN sourceTry[e] + 1 ELSE sourceTry[e]]
  BY <1>3 DEF Receives, ReceiveBatch, Follow, MessagesAreEvents
<1>6. Deliver(S)
  BY <1>4, <1>5 DEF Deliver, Receives, Follow
<1>7. QED
  BY <1>1, <1>6 DEF DeliveryStep, DeliveryNext

LEMMA DropsDrop ==
    ASSUME MessagesAreEvents, PathIInv, Drops
    PROVE  DeliveryStep
<1>1. batch \in SUBSET Events /\ \A e \in batch : source[e] = "held"
  BY DEF PathIInv, ConsumerIInv, Shapes, MessagesAreEvents, Agree, EventAgrees
<1>2. /\ SourceTo(batch, "ready")
      /\ UNCHANGED <<sourceTry, rule, target, retryVars, configVars, historyVars, crashes>>
  BY DEF Drops, AssignClosed, Follow, PathIInv, Agree
<1>3. CASE batch # {}
  BY <1>1, <1>2, <1>3 DEF Drop, DeliveryStep, DeliveryNext
<1>4. CASE batch = {}
  <2>1. source' = source
    BY <1>2, <1>4 DEF SourceTo, PathIInv, DeliveryIInv, DeliveryTypeOK
  <2>2. QED
    BY <1>2, <2>1 DEF DeliveryStep, deliveryVars, sourceVars
<1>5. QED
  BY <1>3, <1>4

LEMMA BuriesBuries ==
    ASSUME MessagesAreEvents, PathIInv, NEW m \in Msgs, Buries(m)
    PROVE  DeliveryStep
<1>1. where[m] = "visible" /\ attempt[m] = MaxAttempts /\ UNCHANGED attempt
  BY DEF Buries, DeadLetter
<1>2. m \in Events /\ source[m] = "ready"
  BY <1>1, VisibleIsReady
<1>3. Follow({m}, "dead")
  BY DEF Buries
<1>4. sourceTry[m] = MaxSource
  BY <1>1 DEF PathIInv, Agree, MessagesAreEvents
<1>5. BurySource(m)
  BY <1>1, <1>2, <1>3, <1>4, FollowOne DEF BurySource
<1>6. QED
  BY <1>2, <1>5 DEF DeliveryStep, DeliveryNext

LEMMA MessageHandleDelivers ==
    ASSUME MessagesAreEvents, PathIInv, NEW s \in Slots, MessageHandle(s)
    PROVE  DeliveryStep
<1> DEFINE e == slot[s].msg
<1>1. slot[s].phase # "free"
  BY DEF MessageHandle, Undecodable, Begins, Succeeds, Errs, Acks, AckErrs, DecodeFails,
         HandleOk, HandleFails, AckOk, AckFails
<1>2. e \in Events /\ SlotAgrees(s) /\ (slot[s].phase # "change" => where[e] = "hidden")
  BY <1>1, AtWorkTogether
<1> HIDE DEF e
<1>3. CASE Undecodable(s)
  <2>1. source[e] = "held" /\ Follow({e}, "ready") /\ UNCHANGED attempt
    BY <1>3 DEF Undecodable, DecodeFails, e
  <2>2. Drop({e})
    BY <1>2, <2>1, FollowOne DEF Drop
  <2>3. {e} \in SUBSET Events /\ {e} # {}
    BY <1>2
  <2>4. QED
    BY <2>2, <2>3 DEF DeliveryStep, DeliveryNext
<1>4. CASE Begins(s)
  BY <1>2, <1>4 DEF Begins, SourceStep, DeliveryStep, DeliveryNext, e
<1>5. CASE Succeeds(s)
  BY <1>5 DEF Succeeds, DeliveryStep
<1>6. CASE Errs(s)
  <2>1. ReturnsError(e) /\ Follow({e}, "ready") /\ UNCHANGED attempt
    BY <1>6 DEF Errs, HandleFails, e
  <2>2. SourceFails(e)
    BY <1>2, <2>1, FollowOne DEF ReturnsError, SourceFails
  <2>3. QED
    BY <1>2, <2>2 DEF SourceStep, DeliveryStep, DeliveryNext
<1>7. CASE Acks(s) \/ AckErrs(s)
  <2>1. slot[s].phase = "ack" /\ UNCHANGED attempt
    BY <1>7 DEF Acks, AckOk, AckErrs, AckFails
  <2>2. source[e] = "handling" /\ RuleResults(e) \subseteq {"off", "ok"}
    BY <1>2, <2>1 DEF SlotAgrees, ReturnsNil, e
  <2>3. Follow({e}, "acked") \/ Follow({e}, "ready")
    BY <1>7 DEF Acks, AckErrs, e
  <2>4. SourceOk(e) \/ SourceFails(e)
    BY <1>2, <2>1, <2>2, <2>3, FollowOne DEF SourceOk, SourceFails
  <2>5. QED
    BY <1>2, <2>4 DEF SourceStep, DeliveryStep, DeliveryNext
<1>8. QED
  BY <1>3, <1>4, <1>5, <1>6, <1>7 DEF MessageHandle

LEMMA PathDeliveryStep ==
    ASSUME MessagesAreEvents, PathIInv, [Next]_vars
    PROVE  DeliveryStep
<1>1. CASE ConsumerOnly \/ UNCHANGED vars
  BY <1>1 DEF ConsumerOnly, vars, DeliveryStep
<1>2. CASE DeliveryOnly
  BY <1>2 DEF DeliveryOnly, SourceStep, DeliveryStep, DeliveryNext
<1>3. CASE Restart
  BY <1>3 DEF Restart, DeliveryStep, DeliveryNext
<1>4. QED
  BY <1>1, <1>2, <1>3, ReceivesDelivers, DropsDrop, BuriesBuries, MessageHandleDelivers
  DEF Next

-----------------------------------------------------------------------------
(* Every step is one of Consumer's, leaves its state alone, or is a        *)
(* restart, after which nothing is held.                                   *)

LEMMA RestartStep ==
    ASSUME ConsumerIInv, Restart
    PROVE  ConsumerIInv'
<1>1. /\ UNCHANGED <<where, hidden>> /\ batch' = {} /\ want' = 0 /\ pc' = "poll"
      /\ slot' = [s \in Slots |-> Free]
  BY DEF Restart
<1>2. Busy' = {}
  BY <1>1 DEF Busy, Free
<1>3. Shapes'
  BY <1>1 DEF ConsumerIInv, Shapes, Free, ConsumerAssumption
<1>4. Semaphore' /\ OneHolder' /\ OnTime'
  BY <1>1, <1>2 DEF Semaphore, BatchFits, OneHolder, OnTime
<1>5. QED
  BY <1>3, <1>4 DEF ConsumerIInv

LEMMA PathConsumerStep ==
    ASSUME ConsumerIInv, [Next]_vars
    PROVE  ConsumerIInv'
<1>1. ASSUME NEW s \in Slots, MessageHandle(s)
      PROVE  Working(s) \/ UNCHANGED consumerVars
  BY <1>1 DEF MessageHandle, Undecodable, Begins, Succeeds, Errs, Acks, AckErrs, Working
<1>2. CASE ~Restart
  <2>1. [ConsumerNext]_consumerVars
    BY <1>1, <1>2 DEF Next, vars, Receives, Drops, Buries, ConsumerOnly, DeliveryOnly,
                      ConsumerNext, Receiving, Response, Working
  <2>2. QED
    BY <2>1, ConsumerIInvStep
<1>3. CASE Restart
  BY <1>3, RestartStep
<1>4. QED
  BY <1>2, <1>3

-----------------------------------------------------------------------------
(* The consumer and HandleEvent go on agreeing about every message.        *)

\* Nothing moves that either looks at.
LEMMA AgreeStays ==
    ASSUME Agree, UNCHANGED <<source, sourceTry, attempt, batch>>,
           \A s \in Slots : slot'[s].msg = slot[s].msg /\ slot'[s].phase = slot[s].phase,
           \A e \in Events : \/ where'[e] = where[e]
                             \/ {where[e], where'[e]} \subseteq {"unsent", "visible", "hidden"},
           \A s \in Slots : slot[s].phase = "ack" /\ ReturnsNil(slot[s].msg)
                              => ReturnsNil(slot[s].msg)'
    PROVE  Agree'
<1>1. \A e \in Events : EventAgrees(e)'
  BY DEF Agree, EventAgrees, HandledBy
<1>2. \A s \in Slots : SlotAgrees(s)'
  BY DEF Agree, SlotAgrees
<1>3. QED
  BY <1>1, <1>2 DEF Agree

\* A goroutine goes on with its message, or is done with it.
LEMMA AgreeMoves ==
    ASSUME MessagesAreEvents, PathIInv, NEW s \in Slots, slot[s].phase # "free",
           NEW e, e = slot[s].msg,
           \A t \in Slots \ {s} : slot'[t] = slot[t],
           slot'[s] = Free \/ slot'[s].msg = e,
           batch' = batch, sourceTry' = attempt',
           \A f \in Events \ {e} : /\ source'[f] = source[f] /\ where'[f] = where[f]
                                   /\ ReturnsNil(f) => ReturnsNil(f)',
           source'[e] \in {"acked", "dead"} \/ where'[e] \in {"acked", "dead"} =>
               source'[e] = where'[e],
           slot'[s] = Free => source'[e] \notin {"held", "handling"},
           slot'[s].phase = "handle" => source'[e] \in {"held", "handling"},
           slot'[s].phase = "ack" => ReturnsNil(e)',
           slot'[s].phase = "change" => source'[e] \in {"ready", "acked"},
           slot'[s] # Free => slot'[s].phase \in {"handle", "ack", "change"}
    PROVE  Agree'
<1>1. /\ s \in Busy /\ e \in Events /\ e \notin batch
      /\ \A t \in Busy : slot[t].msg = e => t = s
  BY AtWorkTogether
<1>2. \A t \in Slots : slot[t].phase # "free" => t \in Busy /\ slot[t].msg \in Events
  BY DEF PathIInv, ConsumerIInv, Shapes, Busy, MessagesAreEvents
<1>3. ASSUME NEW f \in Events \ {e} PROVE EventAgrees(f)'
  <2>1. EventAgrees(f)
    BY DEF PathIInv, Agree
  <2>2. ASSUME NEW t \in Slots, slot[t].msg = f, slot[t].phase \in {"handle", "ack"}
        PROVE  slot'[t] = slot[t]
    BY <2>2
  <2>3. source[f] = "held" => f \in batch \/ \E t \in Slots : slot'[t].msg = f /\ slot'[t].phase = "handle"
    BY <2>1, <2>2 DEF EventAgrees
  <2>4. source[f] = "handling" => \E t \in Slots : slot'[t].msg = f /\ slot'[t].phase \in {"handle", "ack"}
    BY <2>1, <2>2 DEF EventAgrees, HandledBy
  <2>5. QED
    BY <2>1, <2>3, <2>4 DEF EventAgrees, HandledBy
<1>4. EventAgrees(e)'
  <2>1. source'[e] = "held" => slot'[s].msg = e /\ slot'[s].phase = "handle"
    BY DEF ReturnsNil
  <2>2. source'[e] = "handling" => slot'[s].msg = e /\ slot'[s].phase \in {"handle", "ack"}
    OBVIOUS
  <2>3. QED
    BY <1>1, <2>1, <2>2 DEF EventAgrees, HandledBy
<1>5. ASSUME NEW t \in Slots PROVE SlotAgrees(t)'
  <2>1. CASE t = s
    BY <2>1 DEF SlotAgrees, Free
  <2>2. CASE t # s /\ slot[t].phase # "free"
    <3>1. slot[t].msg \in Events \ {e} /\ SlotAgrees(t) /\ slot'[t] = slot[t]
      BY <1>1, <1>2, <2>2 DEF PathIInv, Agree
    <3>2. /\ source'[slot[t].msg] = source[slot[t].msg]
          /\ ReturnsNil(slot[t].msg) => ReturnsNil(slot[t].msg)'
      BY <3>1
    <3>3. QED
      BY <3>1, <3>2 DEF SlotAgrees
  <2>3. CASE t # s /\ slot[t].phase = "free"
    BY <2>3 DEF SlotAgrees
  <2>4. QED
    BY <2>1, <2>2, <2>3
<1>6. QED
  BY <1>3, <1>4, <1>5 DEF Agree, MessagesAreEvents

\* A batch comes in. The batch before was empty.
LEMMA AgreeReceives ==
    ASSUME MessagesAreEvents, PathIInv, NEW S \in SUBSET Msgs, Receives(S)
    PROVE  Agree'
<1>1. /\ batch = {} /\ batch' = S /\ UNCHANGED <<slot, rule>>
      /\ sourceTry' = attempt'
  BY DEF Receives, ReceiveBatch, Follow, PathIInv, ConsumerIInv, Semaphore
<1>2. /\ \A m \in S : where[m] = "visible" /\ where'[m] = "hidden"
      /\ \A m \in Msgs \ S : where'[m] = where[m]
  BY DEF Receives, ReceiveBatch, Deliverable
<1>3. /\ S \subseteq Events /\ Msgs = Events
      /\ \A e \in S : source'[e] = "held"
      /\ \A e \in Events \ S : source'[e] = source[e]
  BY DEF Receives, Follow, SourceTo, MessagesAreEvents
<1>4. \A s \in Slots : slot[s].phase # "free" => slot[s].msg \in Events \ S
  <2>1. \A m \in S : \A s \in Busy : slot[s].msg # m
    BY <1>2, VisibleIsReady
  <2>2. QED
    BY <2>1, AtWorkTogether
<1>5. ASSUME NEW e \in Events PROVE EventAgrees(e)'
  <2>1. EventAgrees(e)
    BY DEF PathIInv, Agree
  <2>2. CASE e \in S
    BY <1>1, <1>2, <1>3, <2>2 DEF EventAgrees
  <2>3. CASE e \notin S
    BY <1>1, <1>2, <1>3, <2>1, <2>3 DEF EventAgrees, HandledBy
  <2>4. QED
    BY <2>2, <2>3
<1>6. ASSUME NEW s \in Slots PROVE SlotAgrees(s)'
  <2>1. SlotAgrees(s)
    BY DEF PathIInv, Agree
  <2>2. CASE slot[s].phase = "free"
    BY <1>1, <2>2 DEF SlotAgrees
  <2>3. CASE slot[s].phase # "free"
    <3>1. slot[s].msg \in Events /\ source'[slot[s].msg] = source[slot[s].msg]
      BY <1>3, <1>4, <2>3
    <3>2. ReturnsNil(slot[s].msg) => ReturnsNil(slot[s].msg)'
      BY <1>1, <3>1 DEF ReturnsNil, RuleResults
    <3>3. QED
      BY <1>1, <2>1, <3>1, <3>2 DEF SlotAgrees
  <2>4. QED
    BY <2>2, <2>3
<1>7. QED
  BY <1>1, <1>5, <1>6 DEF Agree

\* What Receive had taken and not started is left to the broker.
LEMMA AgreeDrops ==
    ASSUME MessagesAreEvents, PathIInv, Drops
    PROVE  Agree'
<1>1. /\ batch' = {} /\ UNCHANGED <<slot, rule, where>> /\ sourceTry' = attempt'
      /\ \A e \in batch : source[e] = "held" /\ source'[e] = "ready"
      /\ \A e \in Events \ batch : source'[e] = source[e]
  BY DEF Drops, AssignClosed, Follow, SourceTo, PathIInv, ConsumerIInv, Shapes, Agree,
         EventAgrees, MessagesAreEvents
<1>2. \A s \in Slots : slot[s].phase # "free" => slot[s].msg \in Events \ batch
  BY AtWorkTogether
<1>3. ASSUME NEW e \in Events PROVE EventAgrees(e)'
  <2>1. EventAgrees(e)
    BY DEF PathIInv, Agree
  <2>2. QED
    BY <1>1, <2>1 DEF EventAgrees, HandledBy
<1>4. ASSUME NEW s \in Slots PROVE SlotAgrees(s)'
  <2>1. SlotAgrees(s)
    BY DEF PathIInv, Agree
  <2>2. CASE slot[s].phase = "free"
    BY <1>1, <2>2 DEF SlotAgrees
  <2>3. CASE slot[s].phase # "free"
    <3>1. slot[s].msg \in Events /\ source'[slot[s].msg] = source[slot[s].msg]
      BY <1>1, <1>2, <2>3
    <3>2. UNCHANGED <<slot, rule>>
      BY <1>1
    <3>3. ReturnsNil(slot[s].msg) => ReturnsNil(slot[s].msg)'
      BY <3>1, <3>2 DEF ReturnsNil, RuleResults
    <3>4. QED
      BY <2>1, <3>1, <3>2, <3>3 DEF SlotAgrees
  <2>4. QED
    BY <2>2, <2>3
<1>5. QED
  BY <1>1, <1>3, <1>4 DEF Agree

LEMMA AgreeBuries ==
    ASSUME MessagesAreEvents, PathIInv, NEW m \in Msgs, Buries(m)
    PROVE  Agree'
<1>1. /\ where[m] = "visible" /\ UNCHANGED <<slot, batch, rule>> /\ sourceTry' = attempt'
      /\ where' = [where EXCEPT ![m] = "dead"]
  BY DEF Buries, DeadLetter, Follow
<1>2. m \in Events /\ m \notin batch /\ \A s \in Busy : slot[s].msg # m
  BY <1>1, VisibleIsReady
<1>3. /\ where'[m] = "dead" /\ source'[m] = "dead"
      /\ \A e \in Events \ {m} : where'[e] = where[e] /\ source'[e] = source[e]
  BY <1>1, <1>2 DEF Buries, Follow, SourceTo, PathIInv, ConsumerIInv, Shapes, MessagesAreEvents
<1>4. \A s \in Slots : slot[s].phase # "free" => slot[s].msg \in Events \ {m}
  BY <1>2, AtWorkTogether
<1>5. ASSUME NEW e \in Events PROVE EventAgrees(e)'
  <2>1. EventAgrees(e)
    BY DEF PathIInv, Agree
  <2>2. QED
    BY <1>1, <1>2, <1>3, <2>1 DEF EventAgrees, HandledBy
<1>6. ASSUME NEW s \in Slots PROVE SlotAgrees(s)'
  <2>1. SlotAgrees(s)
    BY DEF PathIInv, Agree
  <2>2. CASE slot[s].phase = "free"
    BY <1>1, <2>2 DEF SlotAgrees
  <2>3. CASE slot[s].phase # "free"
    <3>1. slot[s].msg \in Events /\ source'[slot[s].msg] = source[slot[s].msg]
      BY <1>3, <1>4, <2>3
    <3>2. ReturnsNil(slot[s].msg) => ReturnsNil(slot[s].msg)'
      BY <1>1, <3>1 DEF ReturnsNil, RuleResults
    <3>3. QED
      BY <1>1, <2>1, <3>1, <3>2 DEF SlotAgrees
  <2>4. QED
    BY <2>2, <2>3
<1>7. QED
  BY <1>1, <1>5, <1>6 DEF Agree

\* A message goes from the batch to a goroutine.
LEMMA AgreeAssigns ==
    ASSUME MessagesAreEvents, PathIInv, UNCHANGED deliveryVars,
           NEW m \in Msgs, NEW s \in Slots, Assign(m, s)
    PROVE  Agree'
<1>1. /\ m \in batch /\ batch' = batch \ {m} /\ s \notin Busy
      /\ UNCHANGED <<where, attempt, source, sourceTry, rule>>
      /\ slot'[s].msg = m /\ slot'[s].phase = "handle"
      /\ \A t \in Slots \ {s} : slot'[t] = slot[t]
  BY DEF Assign, deliveryVars, sourceVars, PathIInv, ConsumerIInv, Shapes
<1>2. \A t \in Slots : slot[t].phase # "free" => t # s
  BY <1>1, AtWorkTogether
<1>3. ASSUME NEW e \in Events PROVE EventAgrees(e)'
  <2>1. EventAgrees(e)
    BY DEF PathIInv, Agree
  <2>2. CASE e = m
    BY <1>1, <2>1, <2>2 DEF EventAgrees
  <2>3. CASE e # m
    <3>1. \A t \in Slots : slot[t].phase \in {"handle", "ack"} => slot'[t] = slot[t]
      BY <1>1, <1>2
    <3>2. QED
      BY <1>1, <2>1, <2>3, <3>1 DEF EventAgrees, HandledBy
  <2>4. QED
    BY <2>2, <2>3
<1>4. ASSUME NEW t \in Slots PROVE SlotAgrees(t)'
  <2>1. CASE t = s
    <3>1. m \in Events /\ source[m] = "held"
      BY <1>1 DEF PathIInv, Agree, EventAgrees, MessagesAreEvents
    <3>2. QED
      BY <1>1, <2>1, <3>1 DEF SlotAgrees
  <2>2. CASE t # s
    <3>1. SlotAgrees(t) /\ slot'[t] = slot[t]
      BY <1>1, <2>2 DEF PathIInv, Agree
    <3>2. ReturnsNil(slot[t].msg) => ReturnsNil(slot[t].msg)'
      BY <1>1, <3>1 DEF ReturnsNil, RuleResults
    <3>3. QED
      BY <1>1, <3>1, <3>2 DEF SlotAgrees
  <2>3. QED
    BY <2>1, <2>2
<1>5. QED
  BY <1>1, <1>3, <1>4 DEF PathIInv, Agree

LEMMA AgreeDelays ==
    ASSUME MessagesAreEvents, PathIInv, UNCHANGED deliveryVars,
           NEW s \in Slots, ChangeDelay(s)
    PROVE  Agree'
<1>1. Working(s) /\ UNCHANGED where /\ slot[s].phase = "change" /\ slot' = [slot EXCEPT ![s] = Free]
  BY DEF Working, ChangeDelay, Release
<1>2. slot'[s] = Free
  BY <1>1 DEF PathIInv, ConsumerIInv, Shapes
<1>3. UNCHANGED <<source, sourceTry, rule>>
  BY DEF deliveryVars, sourceVars
<1>4. /\ \A t \in Slots \ {s} : slot'[t] = slot[t]
      /\ UNCHANGED <<batch, attempt>>
  BY <1>1, WorkingSlots DEF PathIInv
<1>5. EventAgrees(slot[s].msg) /\ SlotAgrees(s) /\ sourceTry = attempt
  BY <1>1, AtWorkTogether DEF PathIInv, Agree
<1>6. \A f \in Events : ReturnsNil(f) => ReturnsNil(f)'
  BY <1>3 DEF ReturnsNil, RuleResults
<1> DEFINE e == slot[s].msg
<1>7. /\ source[e] \in {"acked", "dead"} \/ where[e] \in {"acked", "dead"} => source[e] = where[e]
      /\ source[e] \in {"ready", "acked"}
  BY <1>1, <1>5 DEF EventAgrees, SlotAgrees
<1>8. slot'[s].phase = "free"
  BY <1>2 DEF Free
<1> HIDE DEF e
<1>9. e = slot[s].msg /\ slot[s].phase # "free"
  BY <1>1 DEF e
<1>10. QED
  BY <1>1, <1>2, <1>3, <1>4, <1>5, <1>6, <1>7, <1>8, <1>9, AgreeMoves

\* The loop, time and the broker.
LEMMA AgreeAlone ==
    ASSUME MessagesAreEvents, PathIInv, ConsumerOnly
    PROVE  Agree'
<1>1. UNCHANGED <<source, sourceTry, rule>> /\ UNCHANGED deliveryVars
  BY DEF ConsumerOnly, deliveryVars, sourceVars
<1>2. \A s \in Slots : ReturnsNil(slot[s].msg) => ReturnsNil(slot[s].msg)'
                         \/ slot'[s].msg # slot[s].msg
  BY <1>1 DEF ReturnsNil, RuleResults
<1>3. ASSUME NEW m \in Msgs, Send(m) PROVE Agree'
  <2>1. /\ UNCHANGED <<attempt, batch, slot>> /\ where[m] = "unsent"
        /\ where' = [where EXCEPT ![m] = "visible"]
    BY <1>3 DEF Send
  <2>2. where'[m] = "visible" /\ \A e \in Events \ {m} : where'[e] = where[e]
    BY <2>1 DEF PathIInv, ConsumerIInv, Shapes, MessagesAreEvents
  <2>3. QED
    BY <1>1, <1>2, <2>1, <2>2, AgreeStays DEF PathIInv
<1>4. CASE Poll \/ PollClosed \/ ReceiveFails \/ Close
  <2>1. UNCHANGED <<where, attempt, batch, slot>>
    BY <1>4 DEF Poll, PollClosed, ReceiveFails, Close
  <2>2. QED
    BY <1>1, <1>2, <2>1, AgreeStays DEF PathIInv
<1>5. CASE Tick
  <2>1. UNCHANGED <<attempt, batch>>
    BY <1>5 DEF Tick
  <2>2. \A e \in Events : \/ where'[e] = where[e]
                          \/ {where[e], where'[e]} \subseteq {"unsent", "visible", "hidden"}
    BY <1>5 DEF Tick, MessagesAreEvents
  <2>3. \A s \in Slots : slot'[s].msg = slot[s].msg /\ slot'[s].phase = slot[s].phase
    <3>1. slot \in [Slots -> Works]
      BY DEF PathIInv, ConsumerIInv, Shapes, Works
    <3>2. \A s \in Slots : slot'[s] = IF s \in Busy
                                      THEN [slot[s] EXCEPT !.left = @ - 1] ELSE slot[s]
      BY <1>5 DEF Tick
    <3>3. QED
      BY <3>1, <3>2 DEF Works
  <2>4. QED
    BY <1>1, <1>2, <2>1, <2>2, <2>3, AgreeStays DEF PathIInv
<1>6. QED
  BY <1>1, <1>3, <1>4, <1>5, AgreeAssigns, AgreeDelays DEF ConsumerOnly

\* A rule or a target of an event that goes on is not over, so messageHandle
\* has no nil to acknowledge.
LEMMA RunsOn ==
    ASSUME DeliveryTypeOK, NEW e \in Events, Goroutines(e)
    PROVE  ~ReturnsNil(e) /\ \A f \in Events \ {e} : ReturnsNil(f) => ReturnsNil(f)'
<1>1. ASSUME NEW r \in Rules, RuleGoesOn(e, r)
      PROVE  /\ rule[<<e, r>>] \in {"match", "transform", "dispatch"} /\ UNCHANGED source
             /\ \E s \in RuleSteps : RuleStep(e, r, s)
  BY <1>1 DEF RuleGoesOn, Match, Transform, RuleFails, JoinTargets, RuleSteps
<1>2. ASSUME NEW t \in Targets, TargetGoesOn(e, t)
      PROVE  /\ rule[<<e, ruleOf[t]>>] = "dispatch" /\ ruleOf[t] \in Rules
             /\ UNCHANGED <<source, rule>>
  <2>1. target[<<e, t>>] \in {"dispatch", "send"} /\ UNCHANGED <<source, rule>>
    BY <1>2 DEF TargetGoesOn, DispatchOk, DispatchSkipped, DispatchFails, DispatchRefused,
                TargetStarts, SendRetry, SendFails
  <2>2. QED
    BY <2>1, RuleOf DEF DeliveryTypeOK
<1>3. PICK r \in Rules : rule[<<e, r>>] \in {"match", "transform", "dispatch"}
  BY <1>1, <1>2 DEF Goroutines
<1>4. ~ReturnsNil(e)
  BY <1>3 DEF ReturnsNil, RuleResults
<1>5. /\ UNCHANGED source
      /\ \A f \in Events \ {e}, q \in Rules : rule'[<<f, q>>] = rule[<<f, q>>]
  <2>1. ASSUME NEW p \in Rules, RuleGoesOn(e, p)
        PROVE  \A f \in Events \ {e}, q \in Rules : rule'[<<f, q>>] = rule[<<f, q>>]
    <3>1. PICK s \in RuleSteps : RuleStep(e, p, s)
      BY <1>1, <2>1
    <3>2. \A f \in Events, q \in Rules : f # e \/ q # p => rule'[<<f, q>>] = rule[<<f, q>>]
      BY <3>1, RuleSet
    <3>3. QED
      BY <3>2
  <2>2. QED
    BY <1>1, <1>2, <2>1 DEF Goroutines
<1>6. QED
  BY <1>4, <1>5 DEF ReturnsNil, RuleResults

LEMMA AgreeRuns ==
    ASSUME MessagesAreEvents, PathIInv, DeliveryOnly
    PROVE  Agree'
<1>1. UNCHANGED <<where, attempt, batch, slot>>
  BY DEF DeliveryOnly, consumerVars
<1>2. CASE \E e \in Events : Goroutines(e)
  <2>1. PICK e \in Events : Goroutines(e)
    BY <1>2
  <2>2. UNCHANGED <<source, sourceTry>>
    BY <2>1 DEF Goroutines, RuleGoesOn, Match, Transform, RuleFails, JoinTargets,
                TargetGoesOn, DispatchOk, DispatchSkipped, DispatchFails, DispatchRefused,
                SendRetry, SendFails
  <2>3. \A s \in Slots : slot[s].phase = "ack" /\ ReturnsNil(slot[s].msg)
                           => ReturnsNil(slot[s].msg)'
    <3>1. SUFFICES ASSUME NEW s \in Slots, slot[s].phase = "ack", ReturnsNil(slot[s].msg)
                   PROVE  ReturnsNil(slot[s].msg)'
      OBVIOUS
    <3>2. slot[s].msg \in Events
      BY <3>1, AtWorkTogether
    <3>3. PICK f \in Events : f = slot[s].msg
      BY <3>2
    <3>4. ReturnsNil(f)'
      BY <2>1, <3>1, <3>3, RunsOn DEF PathIInv, DeliveryIInv
    <3>5. slot'[s].msg = f
      BY <1>1, <3>3
    <3>6. QED
      BY <3>4, <3>5 DEF ReturnsNil, RuleResults
  <2>4. QED
    BY <1>1, <2>2, <2>3, AgreeStays DEF PathIInv
<1>3. CASE \/ \E c \in Copies : RetryMessage(c) \/ BuryRetry(c)
           \/ \E r \in Rules : LoadRule(r)
           \/ \E ts \in SUBSET Targets : RemoveTargets(ts)
  <2>1. UNCHANGED <<source, sourceTry, rule>>
    BY <1>3 DEF RetryMessage, BeginRetry, RetryOk, RetryFails, RetryRefused, BuryRetry,
                LoadRule, RemoveTargets, sourceVars
  <2>2. \A s \in Slots : ReturnsNil(slot[s].msg) => ReturnsNil(slot[s].msg)'
    BY <1>1, <2>1 DEF ReturnsNil, RuleResults
  <2>3. QED
    BY <1>1, <2>1, <2>2, AgreeStays DEF PathIInv
<1>4. QED
  BY <1>2, <1>3 DEF DeliveryOnly

\* The steps of messageHandle.
LEMMA AgreeHandles ==
    ASSUME MessagesAreEvents, PathIInv, NEW s \in Slots, MessageHandle(s)
    PROVE  Agree'
<1> DEFINE e == slot[s].msg
<1>1. slot[s].phase \notin {"free", "change"}
  BY DEF MessageHandle, Undecodable, Begins, Succeeds, Errs, Acks, AckErrs, DecodeFails,
         HandleOk, HandleFails, AckOk, AckFails
<1>2. /\ e \in Events /\ EventAgrees(e) /\ SlotAgrees(s) /\ where[e] = "hidden"
      /\ sourceTry = attempt
  BY <1>1, AtWorkTogether DEF PathIInv, Agree
<1>3. e = slot[s].msg
  OBVIOUS
<1>4. \A f \in Events : f \in Msgs
  BY DEF MessagesAreEvents
<1>5. Working(s) =>
        /\ \A t \in Slots \ {s} : slot'[t] = slot[t]
        /\ \A f \in Events \ {e} : where'[f] = where[f]
        /\ UNCHANGED <<batch, attempt>>
  BY <1>4, WorkingSlots DEF PathIInv
<1>6. source[e] # "acked" /\ source[e] # "dead"
  BY <1>2 DEF EventAgrees
<1> HIDE DEF e
<1>7. slot \in [Slots -> Works] /\ DOMAIN where = Msgs
  BY DEF PathIInv, ConsumerIInv, Shapes, Works
\* The goroutine returns, or asks for a delay, and the message is where p says.
<1>8. ASSUME NEW p \in {"ready", "acked"}, Follow({e}, p), Working(s), Release(s) \/ Failed(s),
             where'[e] = IF p = "acked" THEN "acked" ELSE "hidden"
      PROVE  Agree'
  <2>1. /\ source'[e] = p /\ sourceTry' = attempt' /\ UNCHANGED rule
        /\ \A f \in Events \ {e} : source'[f] = source[f]
    <3>1. Follow({e}, p) /\ UNCHANGED attempt /\ e \in Events
      BY <1>2, <1>5, <1>8
    <3>2. QED
      BY <3>1, FollowOne
  <2>2. \A f \in Events \ {e} : ReturnsNil(f) => ReturnsNil(f)'
    BY <2>1 DEF ReturnsNil, RuleResults
  <2>3. \/ slot'[s] = Free
        \/ slot'[s].msg = e /\ slot'[s].phase = "change"
    <3>1. \/ slot' = [slot EXCEPT ![s] = Free]
          \/ slot' = [slot EXCEPT ![s].phase = "change", ![s].left = ReqTime]
      BY <1>8 DEF Release, Failed
    <3>2. slot[s] \in Works
      BY <1>7
    <3>3. QED
      BY <1>3, <1>7, <3>1, <3>2 DEF Works
  <2>4. slot'[s].phase \in {"free", "change"} /\ (slot'[s] # Free => slot'[s].phase = "change")
    BY <2>3 DEF Free
  <2>5. QED
    BY <1>1, <1>3, <1>5, <1>8, <2>1, <2>2, <2>3, <2>4, AgreeMoves
<1>9. CASE Undecodable(s)
  <2>1. Follow({e}, "ready") /\ Working(s) /\ Release(s) /\ UNCHANGED where
    BY <1>9 DEF Undecodable, Working, DecodeFails, e
  <2>2. QED
    BY <1>2, <1>8, <2>1
<1>10. CASE Errs(s)
  <2>1. Follow({e}, "ready") /\ Working(s) /\ Failed(s) /\ UNCHANGED where
    BY <1>10 DEF Errs, Working, HandleFails, e
  <2>2. QED
    BY <1>2, <1>8, <2>1
<1>11. CASE Acks(s)
  <2>1. Follow({e}, "acked") /\ Working(s) /\ Release(s) /\ where' = [where EXCEPT ![e] = "acked"]
    BY <1>11 DEF Acks, Working, AckOk, e
  <2>2. where'[e] = "acked"
    BY <1>2, <1>4, <1>7, <2>1
  <2>3. QED
    BY <1>8, <2>1, <2>2
<1>12. CASE AckErrs(s)
  <2>1. /\ Follow({e}, IF where'[e] = "acked" THEN "acked" ELSE "ready")
        /\ Working(s) /\ Failed(s)
        /\ UNCHANGED where \/ where' = [where EXCEPT ![e] = "acked"]
    BY <1>12 DEF AckErrs, Working, AckFails, e
  <2>2. where'[e] \in {"acked", "hidden"}
    BY <1>2, <1>4, <1>7, <2>1
  <2>3. PICK p \in {"ready", "acked"} : p = IF where'[e] = "acked" THEN "acked" ELSE "ready"
    OBVIOUS
  <2>4. QED
    BY <1>8, <2>1, <2>2, <2>3
<1>13. CASE Succeeds(s)
  <2>1. /\ Working(s) /\ UNCHANGED <<where, source, sourceTry, rule>>
        /\ slot' = [slot EXCEPT ![s].phase = "ack"] /\ ReturnsNil(e)
    BY <1>13 DEF Succeeds, Working, HandleOk, e, deliveryVars, sourceVars
  <2>2. slot'[s].msg = e /\ slot'[s].phase = "ack"
    <3>1. slot[s] \in Works
      BY <1>7
    <3>2. QED
      BY <1>3, <1>7, <2>1, <3>1 DEF Works
  <2>3. \A f \in Events : ReturnsNil(f) => ReturnsNil(f)'
    BY <2>1 DEF ReturnsNil, RuleResults
  <2>4. slot'[s] # Free
    BY <2>2 DEF Free
  <2>5. QED
    BY <1>1, <1>2, <1>3, <1>5, <1>6, <2>1, <2>2, <2>3, <2>4, AgreeMoves
<1>14. CASE Begins(s)
  <2>1. /\ UNCHANGED <<where, attempt, batch, slot, sourceTry>> /\ slot[s].phase = "handle"
        /\ source'[e] = "handling" /\ \A f \in Events \ {e} : source'[f] = source[f]
        /\ \A f \in Events \ {e}, r \in Rules : rule'[<<f, r>>] = rule[<<f, r>>]
    BY <1>2, <1>14 DEF Begins, BeginSource, SourceTo, consumerVars, e, PathIInv, DeliveryIInv,
                       DeliveryTypeOK
  <2>2. \A f \in Events \ {e} : ReturnsNil(f) => ReturnsNil(f)'
    BY <2>1 DEF ReturnsNil, RuleResults
  <2>3. slot'[s] = slot[s] /\ slot'[s].msg = e /\ slot[s] # Free
    BY <1>3, <2>1 DEF Free
  <2>4. QED
    BY <1>1, <1>2, <1>3, <2>1, <2>2, <2>3, AgreeMoves
<1>15. QED
  BY <1>9, <1>10, <1>11, <1>12, <1>13, <1>14 DEF MessageHandle

-----------------------------------------------------------------------------
LEMMA AgreeStep ==
    ASSUME MessagesAreEvents, PathIInv, [Next]_vars
    PROVE  Agree'
<1>1. ASSUME NEW S \in SUBSET Msgs, Receives(S) PROVE Agree'
  BY <1>1, AgreeReceives
<1>2. CASE Drops
  BY <1>2, AgreeDrops
<1>3. ASSUME NEW m \in Msgs, Buries(m) PROVE Agree'
  BY <1>3, AgreeBuries
<1>4. CASE ConsumerOnly
  BY <1>4, AgreeAlone
<1>5. ASSUME NEW s \in Slots, MessageHandle(s) PROVE Agree'
  BY <1>5, AgreeHandles
<1>6. CASE DeliveryOnly
  BY <1>6, AgreeRuns
<1>7. CASE Restart
  <2>1. /\ UNCHANGED <<where, attempt, sourceTry>> /\ batch' = {}
        /\ \A s \in Slots : slot'[s].phase = "free"
        /\ \A e \in Events : source'[e] = IF source[e] \in {"held", "handling"}
                                          THEN "ready" ELSE source[e]
    BY <1>7 DEF Restart, Crash, Free
  <2>2. ASSUME NEW e \in Events PROVE EventAgrees(e)'
    <3>1. EventAgrees(e)
      BY DEF PathIInv, Agree
    <3>2. QED
      BY <2>1, <3>1 DEF EventAgrees
  <2>3. ASSUME NEW s \in Slots PROVE SlotAgrees(s)'
    BY <2>1 DEF SlotAgrees
  <2>4. QED
    BY <2>1, <2>2, <2>3 DEF PathIInv, Agree
<1>8. CASE UNCHANGED vars
  <2>1. UNCHANGED <<source, sourceTry, rule, where, attempt, batch, slot>>
    BY <1>8 DEF vars, consumerVars, deliveryVars, sourceVars
  <2>2. \A s \in Slots : ReturnsNil(slot[s].msg) => ReturnsNil(slot[s].msg)'
    BY <2>1 DEF ReturnsNil, RuleResults
  <2>3. QED
    BY <2>1, <2>2, AgreeStays DEF PathIInv
<1>9. QED
  BY <1>1, <1>2, <1>3, <1>4, <1>5, <1>6, <1>7, <1>8 DEF Next

LEMMA PathInit == MessagesAreEvents /\ Init => PathIInv
<1> SUFFICES ASSUME MessagesAreEvents, Init PROVE PathIInv
  OBVIOUS
<1>1. ConsumerIInv /\ DeliveryIInv
  BY ConsumerIInvInit, DeliveryIInvInit DEF Init
<1>2. /\ source = [e \in Events |-> "ready"] /\ where = [e \in Events |-> "unsent"]
      /\ sourceTry = attempt /\ batch = {} /\ \A s \in Slots : slot[s].phase = "free"
  BY DEF Init, ConsumerInit, DeliveryInit, MessagesAreEvents, Free
<1>3. (\A e \in Events : EventAgrees(e)) /\ (\A s \in Slots : SlotAgrees(s))
  BY <1>2 DEF EventAgrees, SlotAgrees
<1>4. QED
  BY <1>1, <1>2, <1>3 DEF PathIInv, Agree

LEMMA PathStep == MessagesAreEvents /\ PathIInv /\ [Next]_vars => PathIInv'
<1> SUFFICES ASSUME MessagesAreEvents, PathIInv, [Next]_vars PROVE PathIInv'
  OBVIOUS
<1>1. ConsumerIInv'
  BY PathConsumerStep DEF PathIInv
<1>2. DeliveryIInv'
  BY PathDeliveryStep, DeliveryIInvStep DEF PathIInv, DeliveryStep
<1>3. QED
  BY <1>1, <1>2, AgreeStep DEF PathIInv

LEMMA PathInvariant == MessagesAreEvents => (Spec => []PathIInv)
<1> SUFFICES ASSUME MessagesAreEvents PROVE Spec => []PathIInv
  OBVIOUS
<1>1. Init => PathIInv
  BY PathInit
<1>2. PathIInv /\ [Next]_vars => PathIInv'
  BY PathStep
<1>3. QED
  BY <1>1, <1>2, PTL DEF Spec

\* The job's consumer with its timings, its semaphore and its answers, and a
\* broker that hides messages for a time only, lead events the way module
\* Delivery says: a source message is delivered again only when no goroutine
\* has it, is acknowledged only when HandleEvent returned nil, and is dead only
\* when it was given back for the last time (Receive, messageHandle and
\* HandleEvent together); a job that starts again has neither messages nor
\* executors. So what holds of Delivery holds of the job.
THEOREM ImplementsDelivery == MessagesAreEvents => (Spec => DeliverySpec)
<1> SUFFICES ASSUME MessagesAreEvents PROVE Spec => DeliverySpec
  OBVIOUS
<1>1. Init => DeliveryInit
  BY DEF Init
<1>2. PathIInv /\ [Next]_vars => [DeliveryNext]_deliveryVars
  BY PathDeliveryStep DEF DeliveryStep
<1>3. Spec => []PathIInv
  BY PathInvariant
<1>4. QED
  BY <1>1, <1>2, <1>3, PTL DEF Spec, DeliverySpec

\* No message comes again while it is worked on, also when the job crashes and
\* another consumer starts while the broker still hides the messages of the
\* one before.
THEOREM HandledOnceAcrossCrashes == MessagesAreEvents => (Spec => []HandledOnce)
<1> SUFFICES ASSUME MessagesAreEvents PROVE Spec => []HandledOnce
  OBVIOUS
<1>1. PathIInv => HandledOnce
  BY OnceHandled DEF PathIInv
<1>2. QED
  BY <1>1, PathInvariant, PTL

\* For every instance: one HandleEvent of an event at a time, of a message the
\* broker hides, on one goroutine.
THEOREM AloneInHandleEvent == MessagesAreEvents => (Spec => []HandledAlone)
<1> SUFFICES ASSUME MessagesAreEvents PROVE Spec => []HandledAlone
  OBVIOUS
<1>1. PathIInv => HandledAlone
  <2>1. SUFFICES ASSUME PathIInv, NEW e \in Events, source[e] = "handling"
                 PROVE  /\ where[e] = "hidden" /\ e \notin batch
                        /\ \E s \in Slots : HandledBy(s, e)
                        /\ \A s, t \in Busy : slot[s].msg = e /\ slot[t].msg = e => s = t
    BY DEF HandledAlone
  <2>2. PICK s \in Slots : HandledBy(s, e)
    BY <2>1 DEF PathIInv, Agree, EventAgrees
  <2>3. /\ where[e] = "hidden" /\ e \notin batch
        /\ \A t \in Busy : slot[t].msg = e => t = s
    BY <2>1, <2>2, AtWorkTogether DEF HandledBy
  <2>4. QED
    BY <2>2, <2>3
<1>2. QED
  BY <1>1, PathInvariant, PTL

\* For every instance: a source message the broker has as acknowledged has
\* reached every target that is left, or the retry topics (the ack of
\* messageHandle, after HandleEvent's nil) - every target whose rule the job had
\* loaded: what a job that has just started acknowledges may have reached none.
THEOREM AckMeansReached == MessagesAreEvents => (Spec => []AckedReached)
<1> SUFFICES ASSUME MessagesAreEvents PROVE Spec => []AckedReached
  OBVIOUS
<1>1. PathIInv => AckedReached
  <2>1. SUFFICES ASSUME PathIInv, NEW e \in Events, NEW t \in present, where[e] = "acked"
                 PROVE  \/ Missed(e, t)
                        \/ <<e, t>> \in accepted \cup masked
                        \/ \E a \in 1..MaxSource :
                             retry[<<e, t, a>>] \in {"ready", "handling", "dead"}
    BY DEF AckedReached
  <2>2. source[e] = "acked"
    BY <2>1 DEF PathIInv, Agree, EventAgrees
  <2>3. Delivered(e, t) \/ Missed(e, t)
    BY <2>1, <2>2 DEF PathIInv, DeliveryIInv, Answered
  <2>4. QED
    BY <2>3 DEF Delivered
<1>2. QED
  BY <1>1, PathInvariant, PTL

\* And what no ack says: at least once for the job as a whole, short of the
\* dead letter queues and of the rules a job that has started was still to load
\* (NoEventLost of Delivery, under the real consumer and its restarts).
THEOREM AtLeastOnceThroughConsumer == MessagesAreEvents => (Spec => []NoEventLost)
<1> SUFFICES ASSUME MessagesAreEvents PROVE Spec => []NoEventLost
  OBVIOUS
<1>1. QED
  BY ImplementsDelivery, AtLeastOnce, PTL
=============================================================================
