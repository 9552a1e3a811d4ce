------------------------------ MODULE Delivery ------------------------------
(***************************************************************************)
(* The way of events through the job (app/job/internal/data/event.go): a   *)
(* source message is matched by every rule of its bus, transformed for     *)
(* each target and dispatched; a target that fails is sent to a retry      *)
(* topic, whose messages are dispatched again on their own. A message is   *)
(* acknowledged when HandleEvent returns nil and delivered again otherwise *)
(* (module Consumer), also after a crash of the job. The consumer brings   *)
(* source messages in batches and may hold one before its handler starts.  *)
(*                                                                         *)
(* A job that starts has no executors: its informer loads the rules one by *)
(* one, and nothing keeps the consumers from receiving before it has. An   *)
(* event that is handled then passes no rule, and is acknowledged.         *)
(***************************************************************************)
EXTENDS Naturals, FiniteSets

CONSTANTS
    Events,      \* posted events; none waits for another
    Rules,       \* rules of the bus, all of which match
    Targets,
    Rulings,     \* the ways the targets may be divided among the rules
    Http,        \* targets of the HTTP dispatcher; the others use gRPC
    Settings,    \* the settings of RuleParallelism and DispatchParallelism
    MaxSource,   \* deliveries of a source message
    MaxRetry,    \* deliveries of a retry message
    MaxCrashes   \* bound: crashes of the job

ASSUME DeliveryAssumption ==
    /\ Rulings \subseteq [Targets -> Rules]
    /\ Http \subseteq Targets
    /\ Settings \subseteq [rules : Nat \ {0}, targets : Nat \ {0}]
    /\ MaxSource \in Nat \ {0}
    /\ MaxRetry \in Nat \ {0}
    /\ MaxCrashes \in Nat

\* A retry message: of an event, for a target, sent by the a-th execution.
Copies == Events \X Targets \X (1..MaxSource)

VARIABLES
    source,      \* where the source message of an event is
    sourceTry,   \* its deliveries so far
    rule,        \* handleSourceEvent of an event for a rule
    target,      \* dispatchTargetEvent of an event for a target
    retry,       \* where a retry message is
    retryTry,    \* its deliveries so far
    ruleOf,      \* the rule of a target
    present,     \* targets the rules still have
    loaded,      \* rules with an executor: handled since the job started
    limit,       \* the goroutines the two errgroups run at a time
    accepted,    \* history: <<event, target>> the endpoint has taken
    masked,      \* history: <<event, target>> the endpoint refused, reported as ok
    missed,      \* history: <<event, rule>> the last HandleEvent found not loaded
    crashes

sourceVars == <<source, sourceTry, rule, target>>
retryVars == <<retry, retryTry>>
configVars == <<ruleOf, present, loaded, limit>>
historyVars == <<accepted, masked, missed>>
deliveryVars == <<sourceVars, retryVars, configVars, historyVars, crashes>>

-----------------------------------------------------------------------------
\* A message is with the broker, with the consumer, in HandleEvent, or settled.
Places == {"ready", "held", "handling", "acked", "dead"}
RetryPlaces == {"none", "ready", "handling", "acked", "dead"}

Resolved(e) == source[e] \in {"acked", "dead"}

DeliveryTypeOK ==
    /\ source \in [Events -> Places]
    /\ sourceTry \in [Events -> 0..MaxSource]
    /\ rule \in [Events \X Rules ->
                    {"off", "match", "transform", "dispatch", "ok", "error"}]
    /\ target \in [Events \X Targets -> {"off", "dispatch", "send", "ok", "error"}]
    /\ retry \in [Copies -> RetryPlaces]
    /\ retryTry \in [Copies -> 0..MaxRetry]
    /\ ruleOf \in Rulings
    /\ present \in SUBSET Targets
    /\ loaded \in SUBSET Rules
    /\ limit \in Settings
    /\ \A e \in Events, t \in Targets :
         target[<<e, t>>] \in {"dispatch", "send"} => rule[<<e, ruleOf[t]>>] = "dispatch"
    /\ accepted \in SUBSET (Events \X Targets)
    /\ masked \in SUBSET (Events \X Targets)
    /\ missed \in SUBSET (Events \X Rules)
    /\ crashes \in 0..MaxCrashes

DeliveryInit ==
    /\ source = [e \in Events |-> "ready"]
    /\ sourceTry = [e \in Events |-> 0]
    /\ rule = [x \in Events \X Rules |-> "off"]
    /\ target = [x \in Events \X Targets |-> "off"]
    /\ retry = [c \in Copies |-> "none"]
    /\ retryTry = [c \in Copies |-> 0]
    /\ ruleOf \in Rulings
    /\ present = Targets
    /\ loaded = {}
    /\ limit \in Settings
    /\ accepted = {}
    /\ masked = {}
    /\ missed = {}
    /\ crashes = 0

-----------------------------------------------------------------------------
(* The consumer of the source topic (module Consumer).                     *)

SourceTo(S, p) == source' = [e \in Events |-> IF e \in S THEN p ELSE source[e]]

\* Source messages are delivered.
Deliver(S) ==
    /\ \A e \in S : source[e] = "ready" /\ sourceTry[e] < MaxSource
    /\ SourceTo(S, "held")
    /\ sourceTry' = [e \in Events |->
                        IF e \in S THEN sourceTry[e] + 1 ELSE sourceTry[e]]
    /\ UNCHANGED <<rule, target, retryVars, configVars, historyVars, crashes>>

\* They never get to HandleEvent: the consumer is closed before it starts
\* them, or a body cannot be decoded.
Drop(S) ==
    /\ \A e \in S : source[e] = "held"
    /\ SourceTo(S, "ready")
    /\ UNCHANGED <<sourceTry, rule, target, retryVars, configVars, historyVars,
                   crashes>>

-----------------------------------------------------------------------------
(* HandleEvent of a source message.                                        *)

\* A rule without targets has been deleted. The job has an executor for a rule
\* once it is loaded, until it is deleted.
HasTargets(r) == \E t \in present : ruleOf[t] = r
HasExecutor(r) == r \in loaded

\* HandleEvent starts; GetExecutors takes the rules there are.
BeginSource(e) ==
    /\ source[e] = "held"
    /\ SourceTo({e}, "handling")
    /\ rule' = [x \in DOMAIN rule |->
                   IF x[1] # e THEN rule[x]
                   ELSE IF HasExecutor(x[2]) THEN "match" ELSE "off"]
    /\ target' = [x \in DOMAIN target |-> IF x[1] = e THEN "off" ELSE target[x]]
    /\ missed' = {x \in missed : x[1] # e} \cup
                 {<<e, r>> : r \in {q \in Rules \ loaded : HasTargets(q)}}
    /\ UNCHANGED <<sourceTry, retryVars, configVars, accepted, masked, crashes>>

\* The errgroup cancels the context of the other rules after an error.
Cancelled(e) == \E r \in Rules : rule[<<e, r>>] = "error"

RuleStep(e, r, s) == rule' = [rule EXCEPT ![<<e, r>>] = s]

\* eg.Go starts the goroutine of a rule when fewer than the limit are running:
\* a rule waits in "match" until then.
RuleStarts(e) ==
    Cardinality({r \in Rules : rule[<<e, r>>] \in {"transform", "dispatch"}}) < limit.rules

\* Pattern: an executor closed meanwhile has no matcher and is skipped.
Match(e, r) ==
    /\ rule[<<e, r>>] = "match"
    /\ RuleStarts(e)
    /\ RuleStep(e, r, IF ~HasExecutor(r) THEN "ok"
                      ELSE IF Cancelled(e) THEN "error" ELSE "transform")
    /\ UNCHANGED <<source, sourceTry, target, retryVars, configVars, historyVars,
                   crashes>>

\* Transform: one target event for each transformer of the executor, which
\* has none when it was closed meanwhile.
Transform(e, r) ==
    /\ rule[<<e, r>>] = "transform"
    /\ LET ts == {t \in present : ruleOf[t] = r} IN
       IF ts = {}
       THEN RuleStep(e, r, "ok") /\ UNCHANGED target
       ELSE IF Cancelled(e)
       THEN RuleStep(e, r, "error") /\ UNCHANGED target
       ELSE /\ RuleStep(e, r, "dispatch")
            /\ target' = [x \in DOMAIN target |->
                             IF x[1] = e /\ x[2] \in ts THEN "dispatch" ELSE target[x]]
    /\ UNCHANGED <<source, sourceTry, retryVars, configVars, historyVars, crashes>>

\* Pattern or Transform returns an error.
RuleFails(e, r) ==
    /\ \/ rule[<<e, r>>] = "match" /\ RuleStarts(e)
       \/ rule[<<e, r>>] = "transform"
    /\ RuleStep(e, r, "error")
    /\ UNCHANGED <<source, sourceTry, target, retryVars, configVars, historyVars,
                   crashes>>

TargetStep(e, t, s) == target' = [target EXCEPT ![<<e, t>>] = s]

\* What the rule of a target has started and not ended.
Dispatching(e, t) ==
    {u \in Targets : ruleOf[u] = ruleOf[t] /\ target[<<e, u>>] = "send"}

\* Mutation: the dispatches are started in the errgroup of the rules.
TargetStartsWithRules(e, t) ==
    /\ target[<<e, t>>] = "dispatch"
    /\ Cardinality({r \in Rules : rule[<<e, r>>] \in {"transform", "dispatch"}})
         + Cardinality(Dispatching(e, t)) < limit.rules

\* eg.Go starts the goroutine of a target when fewer than the limit are running
\* for its rule: a target waits in "dispatch" until then.
TargetStarts(e, t) ==
    /\ target[<<e, t>>] = "dispatch"
    /\ Cardinality(Dispatching(e, t)) < limit.targets

\* The endpoint takes the event.
DispatchOk(e, t) ==
    /\ TargetStarts(e, t)
    /\ t \in present
    /\ accepted' = accepted \cup {<<e, t>>}
    /\ TargetStep(e, t, "ok")
    /\ UNCHANGED <<source, sourceTry, rule, retryVars, configVars, masked,
                   missed, crashes>>

\* The dispatcher has been removed: the target is skipped.
DispatchSkipped(e, t) ==
    /\ TargetStarts(e, t)
    /\ t \notin present
    /\ TargetStep(e, t, "ok")
    /\ UNCHANGED <<source, sourceTry, rule, retryVars, configVars, historyVars,
                   crashes>>

\* Dispatch returns an error, perhaps after the endpoint took the event, or
\* from a dispatcher closed meanwhile.
DispatchFails(e, t) ==
    /\ TargetStarts(e, t)
    /\ TargetStep(e, t, "send")
    /\ accepted' \in {accepted, accepted \cup {<<e, t>>}}
    /\ UNCHANGED <<source, sourceTry, rule, retryVars, configVars, masked,
                   missed, crashes>>

\* The endpoint refuses the event. The HTTP dispatcher's deferred Close of the
\* response body replaces the error of a status that is not 200.
DispatchRefused(e, t) ==
    /\ TargetStarts(e, t)
    /\ t \in present
    /\ IF t \in Http
       THEN TargetStep(e, t, "ok") /\ masked' = masked \cup {<<e, t>>}
       ELSE TargetStep(e, t, "send") /\ UNCHANGED masked
    /\ UNCHANGED <<source, sourceTry, rule, retryVars, configVars, accepted,
                   missed, crashes>>

\* The failed target event goes to its retry topic.
SendRetry(e, t) ==
    /\ target[<<e, t>>] = "send"
    /\ retry' = [retry EXCEPT ![<<e, t, sourceTry[e]>>] = "ready"]
    /\ TargetStep(e, t, "ok")
    /\ UNCHANGED <<source, sourceTry, rule, retryTry, configVars, historyVars, crashes>>

\* Send returns an error, perhaps after the broker stored the message.
SendFails(e, t) ==
    /\ target[<<e, t>>] = "send"
    /\ \/ UNCHANGED retry
       \/ retry' = [retry EXCEPT ![<<e, t, sourceTry[e]>>] = "ready"]
    /\ TargetStep(e, t, "error")
    /\ UNCHANGED <<source, sourceTry, rule, retryTry, configVars, historyVars, crashes>>

\* Mutation: the dispatches are started and not waited for.
JoinNothing(e, r) ==
    /\ rule[<<e, r>>] = "dispatch"
    /\ RuleStep(e, r, "ok")
    /\ UNCHANGED <<source, sourceTry, target, retryVars, configVars, historyVars,
                   crashes>>

\* Mutation: a target that succeeded hides the error of another.
JoinAllFailed(e, r) ==
    /\ rule[<<e, r>>] = "dispatch"
    /\ LET results == {target[<<e, t>>] : t \in {u \in Targets : ruleOf[u] = r}} IN
       /\ results \subseteq {"off", "ok", "error"}
       /\ RuleStep(e, r, IF "ok" \in results THEN "ok" ELSE "error")
    /\ UNCHANGED <<source, sourceTry, target, retryVars, configVars, historyVars,
                   crashes>>

\* errgroup.Wait of a rule's targets.
JoinTargets(e, r) ==
    /\ rule[<<e, r>>] = "dispatch"
    /\ LET results == {target[<<e, t>>] : t \in {u \in Targets : ruleOf[u] = r}} IN
       /\ results \subseteq {"off", "ok", "error"}
       /\ RuleStep(e, r, IF "error" \in results THEN "error" ELSE "ok")
    /\ UNCHANGED <<source, sourceTry, target, retryVars, configVars, historyVars,
                   crashes>>

RuleResults(e) == {rule[<<e, r>>] : r \in Rules}

\* errgroup.Wait of the rules: ack, or come again later.
SourceOk(e) ==
    /\ source[e] = "handling"
    /\ RuleResults(e) \subseteq {"off", "ok"}
    /\ SourceTo({e}, "acked")
    /\ UNCHANGED <<sourceTry, rule, target, retryVars, configVars, historyVars,
                   crashes>>

\* Mutation: the first rule that fails ends HandleEvent.
SourceFailsAtOnce(e) ==
    /\ source[e] = "handling"
    /\ "error" \in RuleResults(e)
    /\ SourceTo({e}, "ready")
    /\ UNCHANGED <<sourceTry, rule, target, retryVars, configVars, historyVars,
                   crashes>>

\* An error, or an ack that failed.
SourceFails(e) ==
    /\ source[e] = "handling"
    /\ RuleResults(e) \subseteq {"off", "ok", "error"}
    /\ SourceTo({e}, "ready")
    /\ UNCHANGED <<sourceTry, rule, target, retryVars, configVars, historyVars,
                   crashes>>

-----------------------------------------------------------------------------
(* HandleEvent of a retry message.                                         *)

RetryStep(c, s) == retry' = [retry EXCEPT ![c] = s]

\* There is an executor for its rule, with a dispatcher for its target.
HasDispatcher(c) == c[2] \in present /\ ruleOf[c[2]] \in loaded

\* It is delivered, and HandleEvent starts or is never reached.
BeginRetry(c) ==
    /\ retry[c] = "ready"
    /\ retryTry[c] < MaxRetry
    /\ \E s \in {"handling", "ready"} : RetryStep(c, s)
    /\ retryTry' = [retryTry EXCEPT ![c] = @ + 1]
    /\ UNCHANGED <<sourceVars, configVars, historyVars, crashes>>

\* The endpoint takes the event; the ack may fail all the same.
RetryOk(c) ==
    /\ retry[c] = "handling"
    /\ HasDispatcher(c)
    /\ accepted' = accepted \cup {<<c[1], c[2]>>}
    /\ \E s \in {"acked", "ready"} : RetryStep(c, s)
    /\ UNCHANGED <<sourceVars, retryTry, configVars, masked, missed, crashes>>

\* No executor for the rule, no dispatcher for the target, or the dispatch
\* failed, perhaps after the endpoint took the event.
RetryFails(c) ==
    /\ retry[c] = "handling"
    /\ \/ UNCHANGED accepted
       \/ HasDispatcher(c) /\ accepted' = accepted \cup {<<c[1], c[2]>>}
    /\ RetryStep(c, "ready")
    /\ UNCHANGED <<sourceVars, retryTry, configVars, masked, missed, crashes>>

\* The endpoint refuses the event.
RetryRefused(c) ==
    /\ retry[c] = "handling"
    /\ HasDispatcher(c)
    /\ IF c[2] \in Http
       THEN RetryStep(c, "acked") /\ masked' = masked \cup {<<c[1], c[2]>>}
       ELSE RetryStep(c, "ready") /\ UNCHANGED masked
    /\ UNCHANGED <<sourceVars, retryTry, configVars, accepted, missed, crashes>>

-----------------------------------------------------------------------------
(* The broker, the rules and the process.                                  *)

\* After its last delivery a message goes to the dead letter queue.
BurySource(e) ==
    /\ source[e] = "ready"
    /\ sourceTry[e] = MaxSource
    /\ SourceTo({e}, "dead")
    /\ UNCHANGED <<sourceTry, rule, target, retryVars, configVars, historyVars,
                   crashes>>

BuryRetry(c) ==
    /\ retry[c] = "ready"
    /\ retryTry[c] = MaxRetry
    /\ RetryStep(c, "dead")
    /\ UNCHANGED <<sourceVars, retryTry, configVars, historyVars, crashes>>

\* The informer hands a rule to updateRule, which builds its executor: some
\* time after the job has started, or never.
LoadRule(r) ==
    /\ r \notin loaded
    /\ HasTargets(r)
    /\ loaded' = loaded \cup {r}
    /\ UNCHANGED <<sourceVars, retryVars, ruleOf, present, limit, historyVars, crashes>>

\* Targets or their rule are deleted, and the executors follow.
RemoveTargets(ts) ==
    /\ ts \subseteq present
    /\ present' = present \ ts
    /\ loaded' = {r \in loaded : \E t \in present' : ruleOf[t] = r}
    /\ UNCHANGED <<sourceVars, retryVars, ruleOf, limit, historyVars, crashes>>

\* The job dies and starts again without executors: what it held or was
\* handling comes again.
Crash ==
    /\ crashes < MaxCrashes
    /\ crashes' = crashes + 1
    /\ source' = [e \in Events |->
                     IF source[e] \in {"held", "handling"} THEN "ready" ELSE source[e]]
    /\ rule' = [x \in DOMAIN rule |-> "off"]
    /\ target' = [x \in DOMAIN target |-> "off"]
    /\ retry' = [c \in Copies |->
                    IF retry[c] = "handling" THEN "ready" ELSE retry[c]]
    /\ loaded' = {}
    /\ UNCHANGED <<sourceTry, retryTry, ruleOf, present, limit, historyVars>>

-----------------------------------------------------------------------------
RuleGoesOn(e, r) ==
    Match(e, r) \/ Transform(e, r) \/ RuleFails(e, r) \/ JoinTargets(e, r)

TargetGoesOn(e, t) ==
    \/ DispatchOk(e, t) \/ DispatchSkipped(e, t) \/ DispatchFails(e, t)
    \/ DispatchRefused(e, t) \/ SendRetry(e, t) \/ SendFails(e, t)

\* What the goroutines of HandleEvent do.
Goroutines(e) ==
    \/ \E r \in Rules : RuleGoesOn(e, r)
    \/ \E t \in Targets : TargetGoesOn(e, t)

SourceStep(e) ==
    BeginSource(e) \/ Goroutines(e) \/ SourceOk(e) \/ SourceFails(e)

RetryMessage(c) == BeginRetry(c) \/ RetryOk(c) \/ RetryFails(c) \/ RetryRefused(c)

DeliveryNext ==
    \/ \E S \in SUBSET Events : S # {} /\ (Deliver(S) \/ Drop(S))
    \/ \E e \in Events : SourceStep(e) \/ BurySource(e)
    \/ \E c \in Copies : RetryMessage(c) \/ BuryRetry(c)
    \/ \E r \in Rules : LoadRule(r)
    \/ \E ts \in SUBSET Targets : ts # {} /\ RemoveTargets(ts)
    \/ Crash

DeliverySpec == DeliveryInit /\ [][DeliveryNext]_deliveryVars

-----------------------------------------------------------------------------
(* Properties.                                                             *)

\* Somebody still has to deliver event e to target t, or a queue holds it.
Owed(e, t) ==
    \/ ~Resolved(e)
    \/ \E a \in 1..MaxSource : retry[<<e, t, a>>] \in {"ready", "handling"}

DeadLettered(e, t) ==
    \/ source[e] = "dead"
    \/ \E a \in 1..MaxSource : retry[<<e, t, a>>] = "dead"

\* The answer to event e does not speak for target t: the job had not loaded
\* the rule of t when it began to handle e.
Missed(e, t) == <<e, ruleOf[t]>> \in missed

\* At least once, short of the dead letter queue: whatever fails or crashes
\* between a dispatch, the send to the retry topic and the ack, an event that
\* is settled has been taken by every target the rules still have, or its
\* refusal was reported as a success - unless the HandleEvent that settled it
\* began before the job, which starts without executors, had loaded the rule
\* (HandleEvent, dispatchTargetEvent).
NoEventLost ==
    \A e \in Events, t \in present :
        \/ Owed(e, t) \/ DeadLettered(e, t) \/ Missed(e, t)
        \/ <<e, t>> \in accepted \/ <<e, t>> \in masked

\* No dispatch of an event is still running once its source message is
\* acknowledged or given back: Wait joins every goroutine.
NothingRunsUnowned ==
    \A e \in Events : source[e] # "handling" =>
        /\ RuleResults(e) \subseteq {"off", "ok", "error"}
        /\ \A t \in Targets : target[<<e, t>>] \notin {"dispatch", "send"}

\* HandleEvent never waits for itself: with any limits of the two errgroups,
\* whatever has failed, been cancelled or removed meanwhile, a goroutine that
\* waits to be started waits for one that can go on to its end, so what is
\* being handled is answered in the end (eg.Go and eg.Wait at both levels).
NeverStuck == \A e \in Events : source[e] = "handling" => ENABLED SourceStep(e)

\* docs/en/concepts.md:31, "retry_strategy determines the retry policy in case
\* of failure": refused events are retried too. The HTTP dispatcher reports
\* them as delivered.
RefusedIsRetried ==
    \A e \in Events, t \in present :
        Owed(e, t) \/ DeadLettered(e, t) \/ Missed(e, t) \/ <<e, t>> \in accepted
=============================================================================
