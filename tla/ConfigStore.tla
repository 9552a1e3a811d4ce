----------------------------- MODULE ConfigStore ----------------------------
(***************************************************************************)
(* The writes of the service's repositories (app/service/internal/data:    *)
(* bus.go, rule.go, event.go, entext/tx.go) against one database that      *)
(* several of them use at a time. A transaction locks the row of a bus or  *)
(* a rule (FOR UPDATE) until it ends; CreateBus, UpdateRule, DeleteRule,   *)
(* CreateSchema and UpdateSchema write their row inside a transaction but  *)
(* through repo.db, that is, on another connection, which commits at once. *)
(* The version of the buses or the rules is raised in the transaction, as  *)
(* its last statement; the reflectors look at nothing else.                *)
(*                                                                         *)
(* What a transaction writes is invisible until it commits, and by then it *)
(* holds the locks: its writes are one step with the commit. The spec of a *)
(* schema, its version and its cache are not modelled here.                *)
(***************************************************************************)
CONSTANTS
    BusNames,
    RuleNames,
    Specs,       \* status and pattern of a rule
    Targets,
    Schemas,
    None,        \* no row, no request, no lock
    NoBus,       \* the empty bus name of a schema whose bus was removed
    Reqs,        \* goroutines that serve requests
    Requests     \* the requests that may be made

Keys == BusNames \X RuleNames
Rows == [spec : Specs, targets : SUBSET Targets]

Targeted == {"CreateTargets", "DeleteTargets"}
LockingBus == {"DeleteBus", "CreateRule", "CreateSchema", "UpdateSchema"}
WritingApart == {"CreateBus", "UpdateRule", "DeleteRule"}

AllRequests ==
    [op : {"CreateBus", "DeleteBus"}, bus : BusNames]
    \cup [op : {"CreateRule"}, bus : BusNames, key : Keys, row : Rows]
    \cup [op : {"UpdateRule"}, key : Keys, spec : Specs]
    \cup [op : {"DeleteRule"}, key : Keys]
    \cup [op : Targeted, key : Keys, targets : SUBSET Targets]
    \cup [op : {"CreateSchema", "UpdateSchema"}, schema : Schemas, bus : BusNames]
    \cup [op : {"DeleteSchema"}, schemas : SUBSET Schemas]

ASSUME ConfigStoreAssumption ==
    /\ Requests \subseteq AllRequests
    /\ \A q \in Requests : q.op = "CreateRule" => q.key[1] = q.bus
    /\ None \notin Reqs \cup Requests \cup Rows \cup BusNames \cup {NoBus}
    /\ NoBus \notin BusNames

VARIABLES
    bus,         \* names of the buses
    rule,        \* the row of each rule, or None
    schema,      \* the bus name of each schema, NoBus, or None
    req,         \* what each goroutine serves, or None
    at,          \* how far it is
    seen,        \* what it has read: targets of the rule, schemas of the bus
    busLock,     \* which goroutine's transaction holds the row of a bus
    ruleLock,    \* and the row of a rule
    unannounced, \* of buses and rules: changed since the version was raised
    failed,      \* history: of those, what a request failed to announce
    removed      \* history: of those, rules that DeleteBus deleted

config == <<bus, rule, schema>>
lockVars == <<busLock, ruleLock>>
versionVars == <<unannounced, failed, removed>>
vars == <<config, req, at, seen, lockVars, versionVars>>

-----------------------------------------------------------------------------
Versions == {"buses", "rules"}

\* The version that the request raises.
VersionOf(op) == IF op \in {"CreateBus", "DeleteBus"} THEN "buses" ELSE "rules"

ConfigOK ==
    /\ bus \subseteq BusNames
    /\ rule \in [Keys -> Rows \cup {None}]
    /\ schema \in [Schemas -> BusNames \cup {None, NoBus}]

\* A row is locked by a request that has to lock it.
ServiceOK ==
    /\ req \in [Reqs -> Requests \cup {None}]
    /\ at \in [Reqs -> {"begin", "locked", "queried", "written"}]
    /\ seen \in [Reqs -> SUBSET (Targets \cup Schemas)]
    /\ busLock \in [BusNames -> Reqs \cup {None}]
    /\ ruleLock \in [Keys -> Reqs \cup {None}]
    /\ \A b \in BusNames : busLock[b] # None =>
         /\ req[busLock[b]] # None
         /\ req[busLock[b]].op \in LockingBus
         /\ req[busLock[b]].bus = b
         /\ at[busLock[b]] # "begin"
    /\ \A k \in Keys : ruleLock[k] # None =>
         /\ req[ruleLock[k]] # None
         /\ req[ruleLock[k]].op \in Targeted
         /\ req[ruleLock[k]].key = k
         /\ at[ruleLock[k]] # "begin"

VersionsOK ==
    /\ unannounced \subseteq Versions
    /\ failed \subseteq Versions
    /\ removed \in BOOLEAN

TypeOK == ConfigOK /\ ServiceOK /\ VersionsOK

Init ==
    /\ bus = {}
    /\ rule = [k \in Keys |-> None]
    /\ schema = [s \in Schemas |-> None]
    /\ req = [r \in Reqs |-> None]
    /\ at = [r \in Reqs |-> "begin"]
    /\ seen = [r \in Reqs |-> {}]
    /\ busLock = [b \in BusNames |-> None]
    /\ ruleLock = [k \in Keys |-> None]
    /\ unannounced = {}
    /\ failed = {}
    /\ removed = FALSE

Serving(r, op, place) ==
    /\ req[r] # None
    /\ req[r].op = op
    /\ at[r] = place

\* The goroutine answers; what its transaction held is released.
End(r) ==
    /\ req' = [req EXCEPT ![r] = None]
    /\ at' = [at EXCEPT ![r] = "begin"]
    /\ seen' = [seen EXCEPT ![r] = {}]
    /\ busLock' = [b \in BusNames |-> IF busLock[b] = r THEN None ELSE busLock[b]]
    /\ ruleLock' = [k \in Keys |-> IF ruleLock[k] = r THEN None ELSE ruleLock[k]]

Go(r, place) ==
    /\ at' = [at EXCEPT ![r] = place]
    /\ UNCHANGED req

-----------------------------------------------------------------------------
\* A request comes and WithTx begins its transaction.
Receive(r) ==
    /\ req[r] = None
    /\ \E q \in Requests : req' = [req EXCEPT ![r] = q]
    /\ UNCHANGED <<config, at, seen, lockVars, versionVars>>

\* Mutation: the transaction is not rolled back.
FailWithoutRollback(r) ==
    /\ req[r] # None
    /\ req' = [req EXCEPT ![r] = None]
    /\ UNCHANGED <<config, at, seen, lockVars, versionVars>>

\* WithTx: an error of any statement, the end of the request's context or of
\* the service rolls back. What was written apart stays.
Fail(r) ==
    /\ req[r] # None
    /\ End(r)
    /\ failed' = IF at[r] = "written" /\ req[r].op \in WritingApart
                 THEN failed \cup {VersionOf(req[r].op)} ELSE failed
    /\ UNCHANGED <<config, unannounced, removed>>

\* The statement on the version row, and the commit.
Raise(r) ==
    /\ unannounced' = unannounced \ {VersionOf(req[r].op)}
    /\ failed' = failed \ {VersionOf(req[r].op)}
    /\ removed' = (removed /\ VersionOf(req[r].op) = "buses")

\* A row is committed before the version is raised.
Announce(v) ==
    /\ unannounced' = unannounced \cup {v}
    /\ UNCHANGED <<failed, removed>>

-----------------------------------------------------------------------------
(* Transactions that lock a bus.                                           *)

\* Mutation: without FOR UPDATE.
ReadBus(r) ==
    /\ req[r] # None /\ req[r].op \in LockingBus /\ at[r] = "begin"
    /\ req[r].bus \in bus
    /\ busLock[req[r].bus] = None
    /\ Go(r, "locked")
    /\ UNCHANGED <<config, seen, lockVars, versionVars>>

\* Query().ForUpdate(): it waits for the transaction that holds the row.
LockBus(r) ==
    /\ req[r] # None /\ req[r].op \in LockingBus /\ at[r] = "begin"
    /\ req[r].bus \in bus
    /\ busLock[req[r].bus] = None
    /\ busLock' = [busLock EXCEPT ![req[r].bus] = r]
    /\ Go(r, "locked")
    /\ UNCHANGED <<config, seen, ruleLock, versionVars>>

\* DataBusNotFound.
BusNotFound(r) ==
    /\ req[r] # None /\ req[r].op \in LockingBus /\ at[r] = "begin"
    /\ req[r].bus \notin bus
    /\ End(r)
    /\ UNCHANGED <<config, versionVars>>

CommitRule(r) ==
    /\ Serving(r, "CreateRule", "locked")
    /\ rule[req[r].key] = None
    /\ rule' = [rule EXCEPT ![req[r].key] = req[r].row]
    /\ Raise(r)
    /\ End(r)
    /\ UNCHANGED <<bus, schema>>

\* RuleNameRepeat.
RuleNameRepeat(r) ==
    /\ Serving(r, "CreateRule", "locked")
    /\ rule[req[r].key] # None
    /\ End(r)
    /\ UNCHANGED <<config, versionVars>>

\* DeleteBus reads the ids of the schemas first.
QuerySchemas(r) ==
    /\ Serving(r, "DeleteBus", "locked")
    /\ seen' = [seen EXCEPT ![r] = {s \in Schemas : schema[s] = req[r].bus}]
    /\ Go(r, "queried")
    /\ UNCHANGED <<config, lockVars, versionVars>>

\* Those of them that still name the bus lose it.
DropBus(r) ==
    schema' = [s \in Schemas |->
                 IF s \in seen[r] /\ schema[s] = req[r].bus THEN NoBus ELSE schema[s]]

\* It deletes the rules, waiting for a transaction that holds one, and raises
\* the version of the buses only.
CommitDeleteBus(r) ==
    /\ Serving(r, "DeleteBus", "queried")
    /\ \A k \in Keys : k[1] = req[r].bus => ruleLock[k] = None
    /\ DropBus(r)
    /\ rule' = [k \in Keys |-> IF k[1] = req[r].bus THEN None ELSE rule[k]]
    /\ bus' = bus \ {req[r].bus}
    /\ LET rules == {k \in Keys : k[1] = req[r].bus /\ rule[k] # None}
       IN  /\ unannounced' = (unannounced \ {"buses"})
                             \cup (IF rules = {} THEN {} ELSE {"rules"})
           /\ removed' = (removed \/ rules # {})
    /\ failed' = failed \ {"buses"}
    /\ End(r)

\* CreateSchema and UpdateSchema write apart, while their transaction holds
\* the bus.
WriteNewSchema(r) ==
    /\ Serving(r, "CreateSchema", "locked")
    /\ schema[req[r].schema] = None
    /\ schema' = [schema EXCEPT ![req[r].schema] = req[r].bus]
    /\ Go(r, "written")
    /\ UNCHANGED <<bus, rule, seen, lockVars, versionVars>>

\* SourceTypeRepeat.
SourceTypeRepeat(r) ==
    /\ Serving(r, "CreateSchema", "locked")
    /\ schema[req[r].schema] # None
    /\ End(r)
    /\ UNCHANGED <<config, versionVars>>

\* UpdateSchema with a bus name (without one it changes the spec only). That
\* the schema is not there is noticed after the commit.
WriteSchema(r) ==
    /\ Serving(r, "UpdateSchema", "locked")
    /\ schema' = [schema EXCEPT ![req[r].schema] =
                    IF @ = None THEN None ELSE req[r].bus]
    /\ Go(r, "written")
    /\ UNCHANGED <<bus, rule, seen, lockVars, versionVars>>

\* The commit of a transaction that has only locked.
CommitLock(r) ==
    /\ Serving(r, "CreateSchema", "written") \/ Serving(r, "UpdateSchema", "written")
    /\ End(r)
    /\ UNCHANGED <<config, versionVars>>

\* DeleteSchema, of one type of a source or of all: one statement, no lock.
RemoveSchema(r) ==
    /\ Serving(r, "DeleteSchema", "begin")
    /\ schema' = [s \in Schemas |-> IF s \in req[r].schemas THEN None ELSE schema[s]]
    /\ End(r)
    /\ UNCHANGED <<bus, rule, versionVars>>

-----------------------------------------------------------------------------
(* Transactions that lock a rule.                                          *)

\* Mutation: without FOR UPDATE.
ReadRule(r) ==
    /\ req[r] # None /\ req[r].op \in Targeted /\ at[r] = "begin"
    /\ rule[req[r].key] # None
    /\ seen' = [seen EXCEPT ![r] = rule[req[r].key].targets]
    /\ Go(r, "locked")
    /\ UNCHANGED <<config, lockVars, versionVars>>

LockRule(r) ==
    /\ req[r] # None /\ req[r].op \in Targeted /\ at[r] = "begin"
    /\ rule[req[r].key] # None
    /\ ruleLock[req[r].key] = None
    /\ ruleLock' = [ruleLock EXCEPT ![req[r].key] = r]
    /\ seen' = [seen EXCEPT ![r] = rule[req[r].key].targets]
    /\ Go(r, "locked")
    /\ UNCHANGED <<config, busLock, versionVars>>

\* RuleNotFound.
RuleNotFound(r) ==
    /\ req[r] # None /\ req[r].op \in Targeted \cup {"UpdateRule", "DeleteRule"}
    /\ at[r] = "begin"
    /\ rule[req[r].key] = None
    /\ End(r)
    /\ UNCHANGED <<config, versionVars>>

\* Mutation: the version of the buses is raised.
CommitTargetsForBuses(r) ==
    /\ req[r] # None /\ req[r].op \in Targeted /\ at[r] = "locked"
    /\ rule[req[r].key] # None
    /\ rule' = [rule EXCEPT ![req[r].key].targets =
                  IF req[r].op = "CreateTargets" THEN seen[r] \cup req[r].targets
                                                 ELSE seen[r] \ req[r].targets]
    /\ unannounced' = (unannounced \ {"buses"}) \cup {"rules"}
    /\ End(r)
    /\ UNCHANGED <<bus, schema, failed, removed>>

\* CreateTargets adds to the targets it has read, by their ids, DeleteTargets
\* leaves some of them out; both write back all of them.
CommitTargets(r) ==
    /\ req[r] # None /\ req[r].op \in Targeted /\ at[r] = "locked"
    /\ rule[req[r].key] # None
    /\ rule' = [rule EXCEPT ![req[r].key].targets =
                  IF req[r].op = "CreateTargets" THEN seen[r] \cup req[r].targets
                                                 ELSE seen[r] \ req[r].targets]
    /\ Raise(r)
    /\ End(r)
    /\ UNCHANGED <<bus, schema>>

-----------------------------------------------------------------------------
(* Transactions that write apart and raise the version later.              *)

InsertBus(r) ==
    /\ Serving(r, "CreateBus", "begin")
    /\ req[r].bus \notin bus
    /\ bus' = bus \cup {req[r].bus}
    /\ Announce("buses")
    /\ Go(r, "written")
    /\ UNCHANGED <<rule, schema, seen, lockVars>>

\* BusNameRepeat.
BusNameRepeat(r) ==
    /\ Serving(r, "CreateBus", "begin")
    /\ req[r].bus \in bus
    /\ End(r)
    /\ UNCHANGED <<config, versionVars>>

\* The row may be held by CreateTargets or DeleteTargets.
WriteRule(r) ==
    /\ req[r] # None /\ req[r].op \in {"UpdateRule", "DeleteRule"} /\ at[r] = "begin"
    /\ rule[req[r].key] # None
    /\ ruleLock[req[r].key] = None
    /\ rule' = IF req[r].op = "DeleteRule" THEN [rule EXCEPT ![req[r].key] = None]
               ELSE [rule EXCEPT ![req[r].key].spec = req[r].spec]
    /\ Announce("rules")
    /\ Go(r, "written")
    /\ UNCHANGED <<bus, schema, seen, lockVars>>

CommitVersion(r) ==
    /\ req[r] # None /\ req[r].op \in WritingApart /\ at[r] = "written"
    /\ Raise(r)
    /\ End(r)
    /\ UNCHANGED config

-----------------------------------------------------------------------------
ServeBus(r) ==
    \/ LockBus(r) \/ BusNotFound(r)
    \/ CommitRule(r) \/ RuleNameRepeat(r)
    \/ QuerySchemas(r) \/ CommitDeleteBus(r)
    \/ WriteNewSchema(r) \/ SourceTypeRepeat(r) \/ WriteSchema(r) \/ CommitLock(r)
    \/ RemoveSchema(r)

ServeRule(r) ==
    \/ LockRule(r) \/ RuleNotFound(r) \/ CommitTargets(r)
    \/ InsertBus(r) \/ BusNameRepeat(r) \/ WriteRule(r) \/ CommitVersion(r)

Next == \E r \in Reqs : Receive(r) \/ Fail(r) \/ ServeBus(r) \/ ServeRule(r)

Spec == Init /\ [][Next]_vars

-----------------------------------------------------------------------------
(* Properties.                                                             *)

\* The stored configuration behaves as module Configuration promises: every
\* request takes effect at one moment and as a whole, when its bus or rule is
\* there. The locks keep the targets of two requests from overwriting each
\* other, and a schema that moves to another bus from losing it with the old
\* one (the FOR UPDATE of bus.go, rule.go and event.go).
Promise == INSTANCE Configuration
Atomic == Promise!Spec

\* No rule and no schema names a bus that is not there, whatever requests run
\* at one time: CreateRule and CreateSchema against DeleteBus of their bus,
\* UpdateSchema of a schema between two buses.
NoOrphans == Promise!NoOrphans

\* Somebody has still to raise the version.
Owed(v) ==
    \E r \in Reqs : /\ req[r] # None /\ at[r] = "written"
                    /\ req[r].op \in WritingApart /\ VersionOf(req[r].op) = v

\* A change the version does not announce yet is about to be, or its request
\* failed between the two commits, or it is the end of a removed bus' rules:
\* the reflectors miss no other.
Announced ==
    \A v \in unannounced : Owed(v) \/ v \in failed \/ (v = "rules" /\ removed)
=============================================================================
