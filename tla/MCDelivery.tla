----------------------------- MODULE MCDelivery -----------------------------
(* Delivery for TLC: two targets, each of a rule of its own or both of one *)
(* rule; t1 is an HTTP target and t2 a gRPC target unless a run says so.   *)
EXTENDS Delivery

CONSTANTS r1, r2, t1, t2

TwoTargets == {t1, t2}
OneRule == [t \in Targets |-> r1]
RuleEach == [t \in Targets |-> IF t = t1 THEN r1 ELSE r2]
MCRulings == {OneRule, RuleEach}

\* The smallest limits that make a goroutine wait: one at a time, of the rules
\* or of the targets of a rule. (config.go raises 1 to 20; with as many rules
\* and targets as here a higher limit is none.)
MCSettings == {[rules |-> 1, targets |-> 2], [rules |-> 2, targets |-> 1]}

\* With one rule, the limit of the rules says nothing. Bound: the job crashes
\* where the rules are handled one by one, so with some of them done.
MCSpec ==
    /\ DeliveryInit
    /\ ruleOf = OneRule => limit.rules = 2
    /\ [][DeliveryNext /\ (crashes' > 0 => limit.rules = 1)]_deliveryVars
=============================================================================
