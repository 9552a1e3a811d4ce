------------------------------ MODULE EventPath -----------------------------
(***************************************************************************)
(* The way of an event from its topic through the job: the consumer of the *)
(* source topic (module Consumer) and HandleEvent with the retry topics    *)
(* (module Delivery). Delivery takes it that a source message is in one    *)
(* HandleEvent at a time and goes from the broker to it and back as        *)
(* messageHandle answers; Consumer lets the handler end in any way. Here   *)
(* the handler is HandleEvent, and the source message is where the         *)
(* consumer and the broker have it: none of Delivery's guards is assumed.  *)
(* The job may crash and start again, the consumer with it.                *)
(***************************************************************************)
EXTENDS Consumer, Delivery

\* The topic is the bus' source topic and is new.
MessagesAreEvents ==
    /\ Msgs = Events
    /\ MaxAttempts = MaxSource
    /\ Earlier = [m \in Msgs |-> 0]

Init == ConsumerInit /\ DeliveryInit

vars == <<consumerVars, deliveryVars>>

\* Source messages follow the consumer.
Follow(S, p) ==
    /\ SourceTo(S, p)
    /\ sourceTry' = attempt'
    /\ UNCHANGED <<rule, target, retryVars, configVars, historyVars, crashes>>

Receives(S) == ReceiveBatch(S) /\ Follow(S, "held")

Drops == AssignClosed /\ Follow(batch, "ready")

Buries(m) == DeadLetter(m) /\ Follow({m}, "dead")

\* What the consumer and the broker do between themselves.
ConsumerOnly ==
    /\ \/ \E m \in Msgs : Send(m)
       \/ Poll \/ PollClosed \/ ReceiveFails \/ Close \/ Tick
       \/ \E m \in Msgs, s \in Slots : Assign(m, s)
       \/ \E s \in Slots : ChangeDelay(s)
    /\ UNCHANGED deliveryVars

\* messageHandle decodes the body before it calls HandleEvent.
Undecodable(s) ==
    /\ DecodeFails(s)
    /\ source[slot[s].msg] = "held"
    /\ Follow({slot[s].msg}, "ready")

Begins(s) ==
    /\ slot[s].phase = "handle"
    /\ BeginSource(slot[s].msg)
    /\ UNCHANGED consumerVars

\* HandleEvent is over for event e with results that make it return nil, or an
\* error: a rule's, or that GetExecutors had none to start.
ReturnsNil(e) == source[e] = "handling" /\ RuleResults(e) \subseteq {"off", "ok"}

ReturnsError(e) ==
    /\ source[e] = "handling"
    /\ RuleResults(e) \subseteq {"off", "ok", "error"}
    /\ "error" \in RuleResults(e) \/ RuleResults(e) \subseteq {"off"}

Succeeds(s) ==
    /\ HandleOk(s)
    /\ ReturnsNil(slot[s].msg)
    /\ UNCHANGED deliveryVars

Errs(s) ==
    /\ HandleFails(s)
    /\ ReturnsError(slot[s].msg)
    /\ Follow({slot[s].msg}, "ready")

Acks(s) == AckOk(s) /\ Follow({slot[s].msg}, "acked")

AckErrs(s) ==
    /\ AckFails(s)
    /\ Follow({slot[s].msg}, IF where'[slot[s].msg] = "acked" THEN "acked" ELSE "ready")

\* The goroutines of HandleEvent, the retry topics and the rules.
DeliveryOnly ==
    /\ \/ \E e \in Events : Goroutines(e)
       \/ \E c \in Copies : RetryMessage(c) \/ BuryRetry(c)
       \/ \E r \in Rules : LoadRule(r)
       \/ \E ts \in SUBSET Targets : ts # {} /\ RemoveTargets(ts)
    /\ UNCHANGED consumerVars

\* The job dies and starts again, without executors; the broker remembers what
\* it has hidden.
Restart ==
    /\ Crash
    /\ pc' = "poll"
    /\ want' = 0
    /\ batch' = {}
    /\ slot' = [s \in Slots |-> Free]
    /\ closed' = FALSE
    /\ UNCHANGED <<where, hidden, attempt>>

MessageHandle(s) ==
    Undecodable(s) \/ Begins(s) \/ Succeeds(s) \/ Errs(s) \/ Acks(s) \/ AckErrs(s)

Next ==
    \/ \E S \in SUBSET Msgs : S # {} /\ Receives(S)
    \/ Drops
    \/ \E m \in Msgs : Buries(m)
    \/ ConsumerOnly
    \/ \E s \in Slots : MessageHandle(s)
    \/ DeliveryOnly
    \/ Restart

Spec == Init /\ [][Next]_vars

-----------------------------------------------------------------------------
(* Properties.                                                             *)

HandledBy(s, e) == slot[s].msg = e /\ slot[s].phase \in {"handle", "ack"}

\* While HandleEvent works on an event, from its start until the ack is
\* answered, one goroutine of messageHandle has the message, the batch does
\* not, and the broker hides it: no second HandleEvent of the event can start,
\* whichever requests have failed before and wherever the job has crashed.
HandledAlone ==
    \A e \in Events : source[e] = "handling" =>
        /\ where[e] = "hidden" /\ e \notin batch
        /\ \E s \in Slots : HandledBy(s, e)
        /\ \A s, t \in Busy : slot[s].msg = e /\ slot[t].msg = e => s = t

\* What the broker may forget: a source message it has as acknowledged has
\* reached every target that is left - it was taken, or refused and reported
\* as delivered, or a retry topic has it or has given it up - also when the
\* answer to the ack was lost or the job has crashed since; unless the rule of
\* the target was not loaded when the job began to handle the message.
AckedReached ==
    \A e \in Events, t \in present : where[e] = "acked" =>
        \/ Missed(e, t)
        \/ <<e, t>> \in accepted \cup masked
        \/ \E a \in 1..MaxSource : retry[<<e, t, a>>] \in {"ready", "handling", "dead"}
=============================================================================
