---------------------------- MODULE Configuration ---------------------------
(***************************************************************************)
(* What the service's repositories of buses, rules and schemas promise     *)
(* (app/service/internal/biz: BusRepo, RuleRepo, EventRepo): every request *)
(* changes the stored configuration at one moment and as a whole, and only *)
(* when the bus or the rule it names is there at that moment. ConfigStore  *)
(* implements it with transactions, row locks and second connections.      *)
(***************************************************************************)
CONSTANTS
    BusNames,
    RuleNames,
    Specs,       \* status and pattern of a rule
    Targets,
    Schemas,
    None,        \* no such row
    NoBus        \* the empty bus name of a schema whose bus was removed

Keys == BusNames \X RuleNames
Rows == [spec : Specs, targets : SUBSET Targets]

VARIABLES
    bus,      \* names of the buses
    rule,     \* the row of each rule, or None
    schema    \* the bus name of each schema, NoBus, or None

config == <<bus, rule, schema>>

Init ==
    /\ bus = {}
    /\ rule = [k \in Keys |-> None]
    /\ schema = [s \in Schemas |-> None]

CreateBus(b) ==
    /\ b \notin bus
    /\ bus' = bus \cup {b}
    /\ UNCHANGED <<rule, schema>>

\* With the bus its rules are deleted; its schemas lose the bus name.
DeleteBus(b) ==
    /\ b \in bus
    /\ bus' = bus \ {b}
    /\ rule' = [k \in Keys |-> IF k[1] = b THEN None ELSE rule[k]]
    /\ schema' = [s \in Schemas |-> IF schema[s] = b THEN NoBus ELSE schema[s]]

CreateRule(k, row) ==
    /\ k[1] \in bus
    /\ rule[k] = None
    /\ rule' = [rule EXCEPT ![k] = row]
    /\ UNCHANGED <<bus, schema>>

\* A change of a rule leaves what it does not name as it was.
UpdateRule(k, spec) ==
    /\ rule[k] # None
    /\ rule' = [rule EXCEPT ![k].spec = spec]
    /\ UNCHANGED <<bus, schema>>

DeleteRule(k) ==
    /\ rule[k] # None
    /\ rule' = [rule EXCEPT ![k] = None]
    /\ UNCHANGED <<bus, schema>>

CreateTargets(k, ts) ==
    /\ rule[k] # None
    /\ rule' = [rule EXCEPT ![k].targets = @ \cup ts]
    /\ UNCHANGED <<bus, schema>>

DeleteTargets(k, ts) ==
    /\ rule[k] # None
    /\ rule' = [rule EXCEPT ![k].targets = @ \ ts]
    /\ UNCHANGED <<bus, schema>>

CreateSchema(s, b) ==
    /\ b \in bus
    /\ schema[s] = None
    /\ schema' = [schema EXCEPT ![s] = b]
    /\ UNCHANGED <<bus, rule>>

UpdateSchema(s, b) ==
    /\ b \in bus
    /\ schema[s] # None
    /\ schema' = [schema EXCEPT ![s] = b]
    /\ UNCHANGED <<bus, rule>>

DeleteSchemas(ss) ==
    /\ schema' = [s \in Schemas |-> IF s \in ss THEN None ELSE schema[s]]
    /\ UNCHANGED <<bus, rule>>

Next ==
    \/ \E b \in BusNames : CreateBus(b) \/ DeleteBus(b)
    \/ \E k \in Keys :
         \/ \E row \in Rows : CreateRule(k, row)
         \/ \E spec \in Specs : UpdateRule(k, spec)
         \/ DeleteRule(k)
         \/ \E ts \in SUBSET Targets : CreateTargets(k, ts) \/ DeleteTargets(k, ts)
    \/ \E s \in Schemas, b \in BusNames : CreateSchema(s, b) \/ UpdateSchema(s, b)
    \/ \E ss \in SUBSET Schemas : DeleteSchemas(ss)

Spec == Init /\ [][Next]_config

TypeOK ==
    /\ bus \subseteq BusNames
    /\ rule \in [Keys -> Rows \cup {None}]
    /\ schema \in [Schemas -> BusNames \cup {None, NoBus}]

\* No rule and no schema names a bus that is not there: CreateRule and
\* CreateSchema against DeleteBus of their bus, UpdateSchema of a schema
\* between two buses (bus.go, rule.go, event.go).
NoOrphans ==
    /\ \A k \in Keys : rule[k] # None => k[1] \in bus
    /\ \A s \in Schemas : schema[s] \in bus \cup {None, NoBus}
=============================================================================
